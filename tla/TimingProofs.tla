----------------------------- MODULE TimingProofs -----------------------------
(***************************************************************************)
(* Hit points and the flood tracker, for any numbers, items and effects.   *)
(* The properties rest on facts about data: a sum of finitely many effects *)
(* is a number, and settling after t + 1 moments is settling after t and   *)
(* then once more.                                                         *)
(***************************************************************************)
EXTENDS Timing, ListsProofs

-------------------------------------------------------------------------------
(* Sums of finitely many numbers.                                          *)

\* The sum of f over each set in D, in the order in which CHOOSE picks.
Adds(sum, f, D) ==
    sum = [s \in D |-> IF s = {} THEN 0
                       ELSE LET x == CHOOSE y \in s : TRUE IN f[x] + sum[s \ {x}]]

\* What SumFunction, a fold over a set, comes to.
LEMMA SumUnfolds ==
    ASSUME NEW f
    PROVE  SumFunction(f) = (CHOOSE sum : Adds(sum, f, SUBSET DOMAIN f))[DOMAIN f]
BY DEF SumFunction, SumFunctionOnSet, FoldFunctionOnSet, MapThenFoldSet, Adds

\* A sum over all subsets of a finite set exists.
LEMMA SumExists ==
    ASSUME NEW f, IsFiniteSet(DOMAIN f)
    PROVE  \E sum : Adds(sum, f, SUBSET DOMAIN f)
<1> DEFINE S == DOMAIN f
           Upto(n) == {s \in SUBSET S : Cardinality(s) <= n}
           P == {n \in Nat : \E sum : Adds(sum, f, Upto(n))}
<1>1. \A s \in SUBSET S : /\ IsFiniteSet(s) /\ Cardinality(s) \in 0 .. Cardinality(S)
                          /\ Cardinality(s) = 0 <=> s = {}
  BY FS_Subset, FS_CardinalityType, FS_EmptySet
<1>2. \A s \in SUBSET S : \A x \in s : Cardinality(s \ {x}) = Cardinality(s) - 1
  BY <1>1, FS_RemoveElement
<1>3. 0 \in P
  <2>1. \A s \in Upto(0) : s = {}
    BY <1>1
  <2>2. Adds([s \in Upto(0) |-> 0], f, Upto(0))
    BY <2>1 DEF Adds
  <2> QED BY <2>2
<1>4. ASSUME NEW n \in Nat, n \in P PROVE n + 1 \in P
  <2>1. PICK sum : Adds(sum, f, Upto(n))
    BY <1>4
  <2> DEFINE more == [s \in Upto(n + 1) |->
                        IF s = {} THEN 0
                        ELSE LET x == CHOOSE y \in s : TRUE IN f[x] + sum[s \ {x}]]
  <2>2. Upto(n) \subseteq Upto(n + 1)
    BY <1>1
  <2>3. ASSUME NEW s \in Upto(n) PROVE more[s] = sum[s]
    BY <2>1, <2>2, <2>3 DEF Adds
  <2>4. ASSUME NEW s \in Upto(n + 1), s # {}
        PROVE  s \ {CHOOSE y \in s : TRUE} \in Upto(n)
    <3>1. (CHOOSE y \in s : TRUE) \in s
      BY <2>4
    <3> QED BY <1>1, <1>2, <3>1
  <2> HIDE DEF Upto
  <2>5. Adds(more, f, Upto(n + 1))
    BY <2>3, <2>4 DEF Adds
  <2> QED BY <2>5
<1>5. Cardinality(S) \in P
  <2> HIDE DEF P
  <2> QED BY <1>1, <1>3, <1>4, NaturalsGrow
<1>6. Upto(Cardinality(S)) = SUBSET S
  BY <1>1
<1> QED BY <1>5, <1>6

\* There is only one such sum.
LEMMA SumIs ==
    ASSUME NEW f, IsFiniteSet(DOMAIN f), NEW g, Adds(g, f, SUBSET DOMAIN f)
    PROVE  SumFunction(f) = g[DOMAIN f]
<1> DEFINE S == DOMAIN f
           sum == CHOOSE h : Adds(h, f, SUBSET S)
           P == {n \in Nat : \A s \in SUBSET S : Cardinality(s) = n => sum[s] = g[s]}
<1>1. Adds(sum, f, SUBSET S)
  BY SumExists
<1> HIDE DEF sum
<1>2. \A s \in SUBSET S : /\ IsFiniteSet(s) /\ Cardinality(s) \in Nat
                          /\ Cardinality(s) = 0 <=> s = {}
  BY FS_Subset, FS_CardinalityType, FS_EmptySet
<1>3. 0 \in P
  BY <1>1, <1>2 DEF Adds
<1>4. ASSUME NEW n \in Nat, n \in P PROVE n + 1 \in P
  <2> SUFFICES ASSUME NEW s \in SUBSET S, Cardinality(s) = n + 1 PROVE sum[s] = g[s]
    BY <1>4
  <2> DEFINE x == CHOOSE y \in s : TRUE
  <2>1. s # {} /\ x \in s
    BY <1>2
  <2>2. sum[s] = f[x] + sum[s \ {x}] /\ g[s] = f[x] + g[s \ {x}]
    BY <1>1, <2>1 DEF Adds
  <2> HIDE DEF x
  <2>3. Cardinality(s \ {x}) = n
    <3>1. IsFiniteSet(s) /\ Cardinality(s \ {x}) = Cardinality(s) - 1
      BY <1>2, <2>1, FS_RemoveElement
    <3> QED BY <3>1
  <2> QED BY <1>4, <2>1, <2>2, <2>3
<1>5. Cardinality(S) \in P
  <2> HIDE DEF P
  <2> QED BY <1>2, <1>3, <1>4, NaturalsGrow
<1>6. SumFunction(f) = sum[S]
  BY SumUnfolds DEF sum
<1> QED BY <1>5, <1>6

\* Sums of integers are integers.
LEMMA SumsAreIntegers ==
    ASSUME NEW f, IsFiniteSet(DOMAIN f), \A x \in DOMAIN f : f[x] \in Int,
           NEW sum, Adds(sum, f, SUBSET DOMAIN f)
    PROVE  \A s \in SUBSET DOMAIN f : sum[s] \in Int
<1> DEFINE S == DOMAIN f
           P == {n \in Nat : \A s \in SUBSET S : Cardinality(s) = n => sum[s] \in Int}
<1>2. \A s \in SUBSET S : /\ IsFiniteSet(s) /\ Cardinality(s) \in Nat
                          /\ Cardinality(s) = 0 <=> s = {}
  BY FS_Subset, FS_CardinalityType, FS_EmptySet
<1>3. 0 \in P
  BY <1>2 DEF Adds
<1>4. ASSUME NEW n \in Nat, n \in P PROVE n + 1 \in P
  <2> SUFFICES ASSUME NEW s \in SUBSET S, Cardinality(s) = n + 1 PROVE sum[s] \in Int
    BY <1>4
  <2> DEFINE x == CHOOSE y \in s : TRUE
  <2>1. s # {} /\ x \in s
    BY <1>2
  <2>2. sum[s] = f[x] + sum[s \ {x}]
    BY <2>1 DEF Adds
  <2> HIDE DEF x
  <2>3. Cardinality(s \ {x}) = n
    <3>1. IsFiniteSet(s) /\ Cardinality(s \ {x}) = Cardinality(s) - 1
      BY <1>2, <2>1, FS_RemoveElement
    <3> QED BY <3>1
  <2> QED BY <1>4, <2>1, <2>2, <2>3
<1>5. Nat \subseteq P
  <2> HIDE DEF P
  <2> QED BY <1>3, <1>4, NaturalsGrow
<1> QED BY <1>2, <1>5

LEMMA SumIsInteger ==
    ASSUME NEW f, IsFiniteSet(DOMAIN f), \A x \in DOMAIN f : f[x] \in Int
    PROVE  SumFunction(f) \in Int
<1>1. PICK sum : Adds(sum, f, SUBSET DOMAIN f)
  BY SumExists
<1>2. \A s \in SUBSET DOMAIN f : sum[s] \in Int
  BY <1>1, SumsAreIntegers
<1>3. SumFunction(f) = sum[DOMAIN f]
  BY <1>1, SumIs
<1> QED BY <1>2, <1>3

\* Nothing adds up to nothing, and one more at one place to one more.
LEMMA SumOfNothing ==
    ASSUME NEW S, IsFiniteSet(S)
    PROVE  SumFunction([x \in S |-> 0]) = 0
<1> DEFINE f == [x \in S |-> 0]
           g == [s \in SUBSET S |-> 0]
<1>1. DOMAIN f = S /\ \A x \in S : f[x] = 0
  OBVIOUS
<1>2. Adds(g, f, SUBSET S)
  <2>1. \A s \in SUBSET S : s # {} => (CHOOSE y \in s : TRUE) \in s
    OBVIOUS
  <2> HIDE DEF f
  <2> QED BY <1>1, <2>1 DEF Adds
<1> HIDE DEF f
<1>3. SumFunction(f) = g[S]
  BY <1>1, <1>2, SumIs
<1> QED BY <1>3 DEF f

LEMMA SumOfOneMore ==
    ASSUME NEW f, IsFiniteSet(DOMAIN f), \A x \in DOMAIN f : f[x] \in Int,
           NEW a \in DOMAIN f
    PROVE  SumFunction([f EXCEPT ![a] = @ + 1]) = SumFunction(f) + 1
<1> DEFINE S == DOMAIN f
           more == [f EXCEPT ![a] = @ + 1]
<1>1. PICK sum : Adds(sum, f, SUBSET S)
  BY SumExists
<1> DEFINE g == [s \in SUBSET S |-> sum[s] + IF a \in s THEN 1 ELSE 0]
<1>2. \A s \in SUBSET S : sum[s] \in Int
  BY <1>1, SumsAreIntegers
<1>3. DOMAIN more = S /\ \A x \in S : more[x] = f[x] + IF x = a THEN 1 ELSE 0
  OBVIOUS
<1> HIDE DEF more
<1>4. ASSUME NEW s \in SUBSET S
      PROVE  g[s] = IF s = {} THEN 0
                    ELSE LET x == CHOOSE y \in s : TRUE IN more[x] + g[s \ {x}]
  <2>1. CASE s = {}
    BY <1>1, <2>1 DEF Adds
  <2>2. CASE s # {}
    <3> DEFINE x == CHOOSE y \in s : TRUE
    <3>1. x \in s
      BY <2>2
    <3>2. sum[s] = f[x] + sum[s \ {x}]
      BY <1>1, <2>2 DEF Adds
    <3> HIDE DEF x
    <3>3. g[s] = more[x] + g[s \ {x}]
      <4>1. sum[s \ {x}] \in Int /\ f[x] \in Int /\ sum[s] \in Int
        BY <1>2, <3>1
      <4>2. CASE x = a
        BY <1>3, <3>1, <3>2, <4>1, <4>2
      <4>3. CASE x # a
        BY <1>3, <3>1, <3>2, <4>1, <4>3
      <4> QED BY <4>2, <4>3
    <3> QED BY <2>2, <3>3 DEF x
  <2> QED BY <2>1, <2>2
<1>5. Adds(g, more, SUBSET S)
  BY <1>4 DEF Adds
<1>6. SumFunction(more) = g[S] /\ SumFunction(f) = sum[S]
  BY <1>1, <1>3, <1>5, SumIs
<1> QED BY <1>6 DEF more

-------------------------------------------------------------------------------
(* Settling what is due.                                                   *)

\* What Regen gives a player of a maximum and a rate.
Settles(full, rate, h, t) ==
    LET capped == Min2(h, full)
        healed == capped + (t \div RegenInterval) * rate
    IN  IF capped >= full THEN [hp |-> capped, since |-> 0]
        ELSE IF t < RegenInterval THEN [hp |-> capped, since |-> t]
        ELSE IF healed >= full THEN [hp |-> full, since |-> 0]
        ELSE [hp |-> healed, since |-> t % RegenInterval]

LEMMA RegenSettles == \A h, t : Regen(h, t) = Settles(MaxHP, Rate, h, t)
BY DEF Regen, Settles, Rest

\* Whole intervals and the rest of one, now and a moment later.
LEMMA Multiples ==
    ASSUME NEW n \in Nat \ {0}, NEW d \in Int, d >= 1
    PROVE  n * d >= n
<1>1. \A e \in Nat : n * (e + 1) >= n
  OBVIOUS
<1>2. PICK e \in Nat : d = e + 1
  OBVIOUS
<1> QED BY <1>1, <1>2

LEMMA Division ==
    ASSUME NEW n \in Nat \ {0}, NEW t \in Nat
    PROVE  /\ t \div n \in Nat /\ t % n \in 0 .. n - 1
           /\ t = n * (t \div n) + (t % n)
           /\ \A q \in Int, r \in 0 .. n - 1 :
                 t = n * q + r => q = t \div n /\ r = t % n
<1>1. t \div n \in Nat /\ t % n \in 0 .. n - 1 /\ t = n * (t \div n) + (t % n)
  OBVIOUS
<1>2. ASSUME NEW d \in Int, NEW e \in Int,
             NEW r \in 0 .. n - 1, NEW s \in 0 .. n - 1, n * d + r = n * e + s
      PROVE  d = e /\ r = s
  <2>1. n * d \in Int /\ n * e \in Int
    OBVIOUS
  <2>2. n * (d - e) = n * d - n * e /\ n * (e - d) = n * e - n * d
    OBVIOUS
  <2>3. CASE d > e
    <3>1. n * (d - e) >= n
      BY <2>3, Multiples
    <3> QED BY <1>2, <2>1, <2>2, <3>1
  <2>4. CASE e > d
    <3>1. n * (e - d) >= n
      BY <2>4, Multiples
    <3> QED BY <1>2, <2>1, <2>2, <3>1
  <2> QED BY <1>2, <2>3, <2>4
<1> QED BY <1>1, <1>2

LEMMA Intervals ==
    ASSUME NEW n \in Nat \ {0}, NEW t \in Nat
    PROVE  /\ t < n => t \div n = 0 /\ t % n = t
           /\ t >= n => t \div n >= 1
           /\ IF (t % n) + 1 = n
              THEN (t + 1) \div n = (t \div n) + 1 /\ (t + 1) % n = 0
              ELSE (t + 1) \div n = t \div n /\ (t + 1) % n = (t % n) + 1
<1> DEFINE q == t \div n
           r == t % n
<1>1. q \in Nat /\ r \in 0 .. n - 1 /\ t = n * q + r /\ n * q \in Nat
  <2>1. q \in Nat /\ r \in 0 .. n - 1 /\ t = n * q + r
    BY Division
  <2>2. \A p \in Nat : n * p \in Nat
    OBVIOUS
  <2> QED BY <2>1, <2>2
<1>2. \A p \in Int, s \in 0 .. n - 1 : t = n * p + s => p = q /\ s = r
  BY Division
<1>3. \A p \in Int, s \in 0 .. n - 1 :
         t + 1 = n * p + s => p = (t + 1) \div n /\ s = (t + 1) % n
  BY Division
<1> HIDE DEF q, r
<1>4. t < n => q = 0 /\ r = t
  <2>1. n * 0 = 0
    OBVIOUS
  <2> QED BY <1>2, <2>1
<1>5. t >= n => q >= 1
  <2>1. q = 0 => n * q = 0
    OBVIOUS
  <2> QED BY <1>1, <2>1
<1>6. CASE r + 1 = n
  <2>1. n * (q + 1) = n * q + n
    BY <1>1
  <2>2. t + 1 = n * (q + 1) + 0
    BY <1>1, <1>6, <2>1
  <2> QED BY <1>1, <1>3, <1>4, <1>5, <1>6, <2>2 DEF q, r
<1>7. CASE r + 1 # n
  <2>1. t + 1 = n * q + (r + 1) /\ r + 1 \in 0 .. n - 1
    BY <1>1, <1>7
  <2> QED BY <1>1, <1>3, <1>4, <1>5, <1>7, <2>1 DEF q, r
<1> QED BY <1>6, <1>7

\* Settling leaves less than an interval, and nothing for a full player.
LEMMA SettledResult ==
    ASSUME NEW full \in Nat \ {0}, NEW rate \in Nat, NEW h \in Int, NEW t \in Nat,
           NEW r, r = Settles(full, rate, h, t)
    PROVE  /\ r = [hp |-> r.hp, since |-> r.since]
           /\ r.hp \in Int /\ r.hp <= full /\ (h >= 1 => r.hp >= 1)
           /\ r.since \in 0 .. t /\ r.since < RegenInterval
           /\ r.hp = full => r.since = 0
<1> DEFINE q == t \div RegenInterval
           left == t % RegenInterval
           capped == Min2(h, full)
<1>1. RegenInterval \in Nat \ {0}
  BY NumbersAssumption
<1>2. q \in Nat /\ left \in 0 .. RegenInterval - 1
  BY <1>1, Division
<1>3. left <= t
  <2>1. t < RegenInterval => left = t
    BY <1>1, Intervals
  <2> QED BY <1>1, <1>2, <2>1
<1>4. q * rate \in Nat
  BY <1>2
<1>5. capped \in Int /\ capped <= full /\ (h >= 1 => capped >= 1)
  BY DEF Min2
<1>6. r = IF capped >= full THEN [hp |-> capped, since |-> 0]
          ELSE IF t < RegenInterval THEN [hp |-> capped, since |-> t]
          ELSE IF capped + q * rate >= full THEN [hp |-> full, since |-> 0]
          ELSE [hp |-> capped + q * rate, since |-> left]
  BY DEF Settles
<1> HIDE DEF q, left, capped
<1> QED BY <1>1, <1>2, <1>3, <1>4, <1>5, <1>6

\* There is nothing left to settle at the same moment.
LEMMA SettledStays ==
    ASSUME NEW full \in Nat \ {0}, NEW rate \in Nat, NEW h \in Int, NEW t \in Nat,
           NEW r, r = Settles(full, rate, h, t)
    PROVE  Settles(full, rate, r.hp, r.since) = r
<1>1. /\ r = [hp |-> r.hp, since |-> r.since]
      /\ r.hp \in Int /\ r.hp <= full /\ r.since < RegenInterval
      /\ r.hp = full => r.since = 0
  BY SettledResult
<1>2. Min2(r.hp, full) = r.hp
  BY <1>1 DEF Min2
<1>3. CASE r.hp = full
  BY <1>1, <1>2, <1>3 DEF Settles
<1>4. CASE r.hp < full
  BY <1>1, <1>2, <1>4 DEF Settles
<1> QED BY <1>1, <1>3, <1>4

\* Who is settled and waits a moment gets what is due after both.
LEMMA SettledLater ==
    ASSUME NEW full \in Nat \ {0}, NEW rate \in Nat, NEW h \in Int, NEW t \in Nat,
           NEW r, r = Settles(full, rate, h, t)
    PROVE  Settles(full, rate, r.hp, r.since + 1) = Settles(full, rate, h, t + 1)
<1> DEFINE q == t \div RegenInterval
           left == t % RegenInterval
           capped == Min2(h, full)
<1>1. RegenInterval \in Nat \ {0}
  BY NumbersAssumption
<1>2. q \in Nat /\ left \in 0 .. RegenInterval - 1
  BY <1>1, Division
<1>3. /\ t < RegenInterval => q = 0 /\ left = t
      /\ IF left + 1 = RegenInterval
         THEN (t + 1) \div RegenInterval = q + 1 /\ (t + 1) % RegenInterval = 0
         ELSE (t + 1) \div RegenInterval = q /\ (t + 1) % RegenInterval = left + 1
  BY <1>1, Intervals
<1>4. q * rate \in Nat /\ (q + 1) * rate = q * rate + rate /\ 0 * rate = 0
  BY <1>2
<1>5. capped \in Int /\ capped <= full
  BY DEF Min2
<1>6. r = IF capped >= full THEN [hp |-> capped, since |-> 0]
          ELSE IF t < RegenInterval THEN [hp |-> capped, since |-> t]
          ELSE IF capped + q * rate >= full THEN [hp |-> full, since |-> 0]
          ELSE [hp |-> capped + q * rate, since |-> left]
  BY DEF Settles
<1>7. Settles(full, rate, h, t + 1) =
          IF capped >= full THEN [hp |-> capped, since |-> 0]
          ELSE IF t + 1 < RegenInterval THEN [hp |-> capped, since |-> t + 1]
          ELSE IF capped + ((t + 1) \div RegenInterval) * rate >= full
               THEN [hp |-> full, since |-> 0]
          ELSE [hp |-> capped + ((t + 1) \div RegenInterval) * rate,
                since |-> (t + 1) % RegenInterval]
  BY DEF Settles
<1> HIDE DEF q, left, capped
<1>8. CASE capped >= full
  <2>1. r = [hp |-> full, since |-> 0]
    BY <1>5, <1>6, <1>8
  <2> QED BY <1>5, <1>7, <1>8, <2>1 DEF Settles, Min2
<1>9. CASE capped < full /\ t < RegenInterval
  <2>1. r = [hp |-> capped, since |-> t] /\ Min2(capped, full) = capped
    BY <1>5, <1>6, <1>9 DEF Min2
  <2> QED BY <1>5, <1>7, <1>9, <2>1 DEF Settles
<1>10. CASE capped < full /\ t >= RegenInterval /\ capped + q * rate >= full
  <2>1. r = [hp |-> full, since |-> 0]
    BY <1>1, <1>5, <1>6, <1>10
  <2>2. capped + ((t + 1) \div RegenInterval) * rate >= full
    BY <1>2, <1>3, <1>4, <1>5, <1>10
  <2>3. Settles(full, rate, h, t + 1) = [hp |-> full, since |-> 0]
    BY <1>1, <1>5, <1>7, <1>10, <2>2
  <2> QED BY <2>1, <2>3 DEF Settles, Min2
<1>11. CASE capped < full /\ t >= RegenInterval /\ capped + q * rate < full
  <2> DEFINE healed == capped + q * rate
  <2>1. healed \in Int /\ healed < full /\ Min2(healed, full) = healed
    BY <1>4, <1>5, <1>11 DEF Min2
  <2>2. r = [hp |-> healed, since |-> left]
    <3> HIDE DEF healed
    <3>1. r = IF capped >= full THEN [hp |-> capped, since |-> 0]
              ELSE IF t < RegenInterval THEN [hp |-> capped, since |-> t]
              ELSE IF healed >= full THEN [hp |-> full, since |-> 0]
              ELSE [hp |-> healed, since |-> left]
      BY <1>6 DEF healed
    <3> QED BY <1>1, <1>5, <1>11, <2>1, <3>1
  <2>3. CASE left + 1 = RegenInterval
    <3>1. (left + 1) \div RegenInterval = 1 /\ (left + 1) % RegenInterval = 0
      BY <1>1, <2>3
    <3>2. Settles(full, rate, healed, left + 1) =
             IF healed + rate >= full THEN [hp |-> full, since |-> 0]
             ELSE [hp |-> healed + rate, since |-> 0]
      BY <1>1, <2>1, <2>3, <3>1 DEF Settles
    <3>3. capped + (q + 1) * rate = healed + rate
      BY <1>4, <1>5
    <3>4. Settles(full, rate, h, t + 1) =
             IF healed + rate >= full THEN [hp |-> full, since |-> 0]
             ELSE [hp |-> healed + rate, since |-> 0]
      BY <1>1, <1>3, <1>5, <1>7, <1>11, <2>3, <3>3
    <3> QED BY <2>2, <3>2, <3>4
  <2>4. CASE left + 1 # RegenInterval
    <3>1. Settles(full, rate, healed, left + 1) = [hp |-> healed, since |-> left + 1]
      BY <1>1, <1>2, <2>1, <2>4 DEF Settles
    <3>2. Settles(full, rate, h, t + 1) = [hp |-> healed, since |-> left + 1]
      <4>1. (t + 1) \div RegenInterval = q /\ (t + 1) % RegenInterval = left + 1
        BY <1>3, <2>4
      <4>2. capped + ((t + 1) \div RegenInterval) * rate = healed
        BY <4>1
      <4>3. Settles(full, rate, h, t + 1) =
               IF capped >= full THEN [hp |-> capped, since |-> 0]
               ELSE IF t + 1 < RegenInterval THEN [hp |-> capped, since |-> t + 1]
               ELSE IF healed >= full THEN [hp |-> full, since |-> 0]
               ELSE [hp |-> healed, since |-> left + 1]
        BY <1>7, <4>1, <4>2
      <4> HIDE DEF healed
      <4> QED BY <1>1, <1>5, <1>11, <2>1, <4>3
    <3> QED BY <2>2, <3>1, <3>2
  <2> QED BY <2>3, <2>4
<1> QED BY <1>1, <1>4, <1>5, <1>8, <1>9, <1>10, <1>11

-------------------------------------------------------------------------------
(* The numbers of a player.                                                *)

\* What the items of a pack add up to, for any effects.
LEMMA TotalsAreIntegers ==
    ASSUME NEW p \in SUBSET Items, NEW e \in {"maxHP", "regen", "counter"}
    PROVE  SumFunction([i \in p |-> Effect[i][e]]) \in Int
<1> DEFINE f == [i \in p |-> Effect[i][e]]
<1>1. DOMAIN f = p /\ \A i \in p : f[i] \in Int
  BY EffectsAssumption
<1>2. IsFiniteSet(p)
  BY EffectsAssumption, FS_Subset
<1> HIDE DEF f
<1>3. SumFunction(f) \in Int
  BY <1>1, <1>2, SumIsInteger
<1> QED BY <1>3 DEF f

\* What a player has.
Owned == pack \subseteq Items /\ blessed \in BOOLEAN /\ gained \in 0 .. MaxQuests

Numbers(full, rate) ==
    /\ full \in Nat \ {0} /\ full >= MinPlayerMaxHP
    /\ rate \in Nat

\* No curse takes the maximum below MinPlayerMaxHP or the rate below zero.
LEMMA NumbersOK ==
    /\ Owned => Numbers(MaxHP, Rate)
    /\ Owned' => Numbers(MaxHP', Rate')
<1>1. ASSUME NEW p \in SUBSET Items, NEW g \in 0 .. MaxQuests, NEW b \in BOOLEAN
      PROVE  LET most == SumFunction([i \in p |-> Effect[i]["maxHP"]])
                 more == SumFunction([i \in p |-> Effect[i]["regen"]])
             IN  Numbers(Max2(MinPlayerMaxHP, MaxPlayerHP + g * QuestGain + most),
                         Max2(0, RegenAmount + (more + IF b THEN Blessing["regen"] ELSE 0)))
  <2> DEFINE most == SumFunction([i \in p |-> Effect[i]["maxHP"]])
             more == SumFunction([i \in p |-> Effect[i]["regen"]])
  <2>1. most \in Int /\ more \in Int
    BY TotalsAreIntegers
  <2>2. g * QuestGain \in Nat
    BY NumbersAssumption
  <2>3. Blessing["regen"] \in Int
    BY EffectsAssumption
  <2> HIDE DEF most, more
  <2>4. Numbers(Max2(MinPlayerMaxHP, MaxPlayerHP + g * QuestGain + most),
                Max2(0, RegenAmount + (more + IF b THEN Blessing["regen"] ELSE 0)))
    BY <2>1, <2>2, <2>3, NumbersAssumption DEF Numbers, Max2
  <2> QED BY <2>4 DEF most, more
<1>2. ASSUME Owned PROVE Numbers(MaxHP, Rate)
  BY <1>1, <1>2 DEF Owned, MaxHP, Rate, Total, ItemTotal
<1>3. ASSUME Owned' PROVE Numbers(MaxHP', Rate')
  BY <1>1, <1>3 DEF Owned, MaxHP, Rate, Total, ItemTotal
<1> QED BY <1>2, <1>3

\* A finite set of numbers has a greatest.
LEMMA GreatestExists ==
    ASSUME NEW A, A \subseteq Nat, IsFiniteSet(A), A # {}
    PROVE  Max(A) \in A /\ \A k \in A : Max(A) >= k
<1> DEFINE P == {s \in SUBSET A : s = {} \/ \E m \in s : \A k \in s : m >= k}
<1>1. {} \in P
  OBVIOUS
<1>2. ASSUME NEW s \in SUBSET A, NEW x \in A, s \in P PROVE s \cup {x} \in P
  <2>1. CASE s = {}
    BY <2>1
  <2>2. CASE s # {}
    <3>1. PICK m \in s : \A k \in s : m >= k
      BY <1>2, <2>2
    <3>2. CASE m >= x
      BY <3>1, <3>2
    <3>3. CASE x > m
      <4>1. \A k \in s : x >= k
        BY <3>1, <3>3
      <4> QED BY <4>1
    <3> QED BY <3>2, <3>3
  <2> QED BY <2>1, <2>2
<1>3. A \in P
  <2> HIDE DEF P
  <2> QED BY <1>1, <1>2, FiniteSetsGrow
<1> QED BY <1>3 DEF Max

\* What a counter costs, whatever protects the player.
LEMMA CounterCosts ==
    ASSUME NEW c \in Counters, NEW percent \in Int
    PROVE  ReduceCounter(c, percent)
               \in 1 .. (Max(Counters) * (100 + MaxIncrease)) \div 100
<1> DEFINE p == Max2(-MaxIncrease, Min2(percent, MaxReduction))
           m == Max(Counters)
<1>1. c \in Nat \ {0} /\ m \in Nat \ {0} /\ m >= c
  BY NumbersAssumption, GreatestExists
<1>2. p \in -MaxIncrease .. MaxReduction /\ 100 - p \in 1 .. 100 + MaxIncrease
  BY NumbersAssumption DEF Max2, Min2
<1>3. MaxIncrease \in Nat
  BY NumbersAssumption
<1>4. ReduceCounter(c, percent) =
          IF p = 0 THEN c ELSE Max2(1, (c * (100 - p)) \div 100)
  BY DEF ReduceCounter
<1> HIDE DEF p, m
<1>5. c * (100 - p) \in Nat /\ c * (100 - p) <= m * (100 + MaxIncrease)
  <2>1. \A a, b, d \in Nat : a <= d => a * b <= d * b /\ b * a <= b * d /\ a * b \in Nat
    OBVIOUS
  <2> DEFINE x == 100 - p
             y == 100 + MaxIncrease
  <2>2. x \in Nat /\ y \in Nat /\ x <= y /\ c \in Nat /\ m \in Nat /\ c <= m
    BY <1>1, <1>2, <1>3
  <2> HIDE DEF x, y
  <2>3. c * x <= m * x /\ m * x <= m * y /\ c * x \in Nat /\ m * x \in Nat /\ m * y \in Nat
    BY <2>1, <2>2
  <2>4. c * x <= m * y
    BY <2>3
  <2> QED BY <2>3, <2>4 DEF x, y
<1>6. m * (100 + MaxIncrease) \in Nat /\ m * (100 + MaxIncrease) >= m * 100
  BY <1>1, <1>3
<1> DEFINE u == c * (100 - p)
           v == m * (100 + MaxIncrease)
<1>7. /\ u \in Nat /\ v \in Nat /\ u <= v /\ v >= m * 100
  BY <1>5, <1>6
<1> HIDE DEF u, v
<1>8. u \div 100 \in Nat /\ v \div 100 \in Nat /\ u \div 100 <= v \div 100 /\ m <= v \div 100
  BY <1>1, <1>7
<1>9. (IF p = 0 THEN c ELSE Max2(1, u \div 100)) \in 1 .. v \div 100
  BY <1>1, <1>8 DEF Max2
<1> QED BY <1>4, <1>9 DEF u, v, m

-------------------------------------------------------------------------------
(* The history of a player.                                                *)

\* Nothing is due twice or lost, and nobody is left dead.
VitalsInv == TypeOK /\ hp >= 1 /\ LooksDoNotMatter

\* What a look at the player finds.
LEMMA NowResult ==
    ASSUME VitalsInv
    PROVE  /\ Now = [hp |-> Now.hp, since |-> Now.since]
           /\ Now = Settles(MaxHP, Rate, hp, since)
           /\ Now = Settles(MaxHP, Rate, ideal.hp, ideal.since)
           /\ Now.hp \in 1 .. MaxHP /\ Now.since \in 0 .. MaxIdle
<1>1. Numbers(MaxHP, Rate)
  BY NumbersOK DEF VitalsInv, TypeOK, Owned
<1>2. hp \in Int /\ hp >= 1 /\ since \in 0 .. MaxIdle
  BY DEF VitalsInv, TypeOK
<1>3. Now = Settles(MaxHP, Rate, hp, since)
  BY RegenSettles DEF Now
<1>4. Now = Settles(MaxHP, Rate, ideal.hp, ideal.since)
  BY RegenSettles DEF VitalsInv, LooksDoNotMatter
<1>5. /\ Now = [hp |-> Now.hp, since |-> Now.since]
      /\ Now.hp \in Int /\ Now.hp <= MaxHP /\ (hp >= 1 => Now.hp >= 1)
      /\ Now.since \in 0 .. since
  <2>1. since \in Nat
    BY <1>2, NumbersAssumption
  <2> HIDE DEF Now
  <2> QED BY <1>1, <1>2, <1>3, <2>1, SettledResult DEF Numbers
<1> HIDE DEF Now
<1> QED BY <1>1, <1>2, <1>3, <1>4, <1>5, NumbersAssumption DEF Numbers

\* A command that settles what is due, and leaves a living player, changes the
\* player and its ideal in the same way.
LEMMA BecomesKeeps ==
    ASSUME VitalsInv, NEW f, Becomes(f), f[Now.hp] \in Nat \ {0},
           Owned'
    PROVE  VitalsInv'
<1>1. /\ Now = [hp |-> Now.hp, since |-> Now.since]
      /\ Now.since \in 0 .. MaxIdle
  BY NowResult
<1>2. hp' = f[Now.hp] /\ since' = Now.since
  BY DEF Becomes
<1>3. ideal' = [hp |-> hp', since |-> since']
  <2>1. Regen(ideal.hp, ideal.since) = Now
    BY DEF VitalsInv, LooksDoNotMatter
  <2>2. ideal' = [Now EXCEPT !.hp = f[@]]
    BY <2>1 DEF Becomes
  <2> HIDE DEF Now
  <2> QED BY <1>1, <1>2, <2>2
<1> HIDE DEF Now
<1>4. TypeOK' /\ hp' >= 1
  BY <1>1, <1>2, <1>3, NumbersAssumption DEF TypeOK, Owned
<1>5. LooksDoNotMatter'
  BY <1>3 DEF LooksDoNotMatter, Now
<1> QED BY <1>4, <1>5 DEF VitalsInv

\* A player who is full needs nothing, however long ago it was settled.
LEMMA FullStaysFull ==
    ASSUME NEW full \in Nat \ {0}, NEW rate \in Nat, NEW t \in Nat
    PROVE  Settles(full, rate, full, t) = [hp |-> full, since |-> 0]
BY DEF Settles, Min2

LEMMA InitVitals == Init => VitalsInv
<1> SUFFICES ASSUME Init PROVE VitalsInv
  OBVIOUS
<1>1. TypeOK /\ hp >= 1
  <2>1. MaxPlayerHP \in Nat \ {0} /\ MaxIdle \in Nat /\ MaxQuests \in Nat
    BY NumbersAssumption
  <2>2. ideal \in [hp : Int, since : Nat]
    BY <2>1 DEF Init
  <2>3. /\ hp \in Int /\ hp >= 1 /\ since \in 0 .. MaxIdle
        /\ gained \in 0 .. MaxQuests
    BY <2>1 DEF Init
  <2>4. pack \subseteq Items /\ blessed \in BOOLEAN
    BY DEF Init
  <2> QED BY <2>2, <2>3, <2>4 DEF TypeOK
<1>2. LooksDoNotMatter
  BY DEF Init, LooksDoNotMatter, Now
<1> QED BY <1>1, <1>2 DEF VitalsInv

\* What a command may leave a player with, other than a counter.
LEMMA RespawnedLives ==
    ASSUME VitalsInv
    PROVE  /\ Settled[Now.hp] \in Nat \ {0}
           /\ Respawned[Now.hp] \in Nat \ {0}
           /\ Owned' => Filled[Now.hp] \in Nat \ {0}
BY NowResult, NumbersOK, NumbersAssumption
   DEF Settled, Respawned, Filled, VitalsInv, TypeOK, Owned, Numbers

LEMMA LookKeeps == VitalsInv /\ Look => VitalsInv'
<1> SUFFICES ASSUME VitalsInv, Look PROVE VitalsInv'
  OBVIOUS
<1> QED BY RespawnedLives, BecomesKeeps DEF Look, VitalsInv, TypeOK, Owned

LEMMA DieKeeps == VitalsInv /\ Die => VitalsInv'
<1> SUFFICES ASSUME VitalsInv, Die PROVE VitalsInv'
  OBVIOUS
<1> QED BY RespawnedLives, BecomesKeeps DEF Die, VitalsInv, TypeOK, Owned

\* A counter that does not kill costs something, and not too much.
LEMMA CounteredKeeps ==
    ASSUME VitalsInv, NEW c \in Counters, NEW percent \in Int, Countered(c, percent)
    PROVE  /\ VitalsInv'
           /\ \/ hp' = RespawnHP
              \/ Now.hp - hp' \in 1 .. (Max(Counters) * (100 + MaxIncrease)) \div 100
<1> DEFINE damage == ReduceCounter(c, percent)
           most == (Max(Counters) * (100 + MaxIncrease)) \div 100
           hit == [h \in Int |-> IF h - damage <= 0 THEN RespawnHP ELSE h - damage]
<1>1. damage \in 1 .. most
  BY CounterCosts
<1>2. Now.hp \in 1 .. MaxHP /\ MaxHP \in Nat
  BY NowResult, NumbersOK DEF VitalsInv, TypeOK, Owned, Numbers
<1>3. /\ Becomes(hit)
      /\ pack' \in {pack, pack \cap Trophies} /\ UNCHANGED <<blessed, gained>>
  BY DEF Countered
<1>4. hp' = hit[Now.hp]
  BY <1>3 DEF Becomes
<1> HIDE DEF damage, most
<1>5. hit[Now.hp] = IF Now.hp - damage <= 0 THEN RespawnHP ELSE Now.hp - damage
  BY <1>2
<1>6. most \in Int
  <2>1. Max(Counters) \in Nat
    BY NumbersAssumption, GreatestExists
  <2>2. \A a, b \in Nat : a * (100 + b) \in Nat
    OBVIOUS
  <2>3. Max(Counters) * (100 + MaxIncrease) \in Nat
    BY <2>1, <2>2, NumbersAssumption
  <2> QED BY <2>3 DEF most
<1>7. hit[Now.hp] \in Nat \ {0}
  BY <1>1, <1>2, <1>5, <1>6, NumbersAssumption
<1> HIDE DEF hit
<1>8. VitalsInv'
  BY <1>3, <1>7, BecomesKeeps DEF VitalsInv, TypeOK, Owned
<1>9. hp' = RespawnHP \/ Now.hp - hp' \in 1 .. most
  BY <1>1, <1>2, <1>4, <1>5, <1>6
<1> QED BY <1>8, <1>9 DEF most

\* Whatever protects a player adds up to a number.
LEMMA ProtectionIsInteger ==
    ASSUME TypeOK, NEW allies \in 0 .. MaxAllyBonus, NEW guarding \in BOOLEAN
    PROVE  Protection(allies, guarding) \in Int
<1>1. ItemTotal("counter") \in Int
  BY TotalsAreIntegers DEF TypeOK, ItemTotal
<1>2. Total("counter") \in Int
  BY <1>1, EffectsAssumption DEF Total
<1>3. allies * AllyReduction \in Nat
  BY NumbersAssumption
<1> QED BY <1>2, <1>3, NumbersAssumption DEF Protection

LEMMA FightKeeps ==
    ASSUME VitalsInv, Fight
    PROVE  /\ VitalsInv'
           /\ \/ hp' = RespawnHP
              \/ Now.hp - hp' \in 1 .. (Max(Counters) * (100 + MaxIncrease)) \div 100
<1>1. PICK c \in Counters, allies \in 0 .. MaxAllyBonus, guarding \in BOOLEAN :
          Countered(c, Protection(allies, guarding))
  BY DEF Fight
<1> HIDE DEF Now
<1> QED BY <1>1, CounteredKeeps, ProtectionIsInteger DEF VitalsInv

LEMMA TakeKeeps == \A i \in Items : VitalsInv /\ Take(i) => VitalsInv'
<1> SUFFICES ASSUME NEW i \in Items, VitalsInv, Take(i) PROVE VitalsInv'
  OBVIOUS
<1>1. Owned'
  BY NumbersAssumption DEF Take, VitalsInv, TypeOK, Owned, Min2
<1>2. Becomes(Settled) \/ Becomes(Filled) \/ Becomes(Respawned)
  BY DEF Take
<1> QED BY <1>1, <1>2, RespawnedLives, BecomesKeeps

LEMMA DropKeeps == \A i \in Items : VitalsInv /\ Drop(i) => VitalsInv'
<1> SUFFICES ASSUME NEW i \in Items, VitalsInv, Drop(i) PROVE VitalsInv'
  OBVIOUS
<1> QED BY RespawnedLives, BecomesKeeps DEF Drop, VitalsInv, TypeOK, Owned

LEMMA EndingKeeps == VitalsInv /\ Ending => VitalsInv'
<1> SUFFICES ASSUME VitalsInv, Ending PROVE VitalsInv'
  OBVIOUS
<1>1. Owned'
  BY EffectsAssumption DEF Ending, VitalsInv, TypeOK, Owned
<1> QED BY <1>1, RespawnedLives, BecomesKeeps DEF Ending

\* An ally's victory fills a player whom nobody looked at.
LEMMA RewardKeeps == VitalsInv /\ Reward => VitalsInv'
<1> SUFFICES ASSUME VitalsInv, Reward PROVE VitalsInv'
  OBVIOUS
<1>1. Owned'
  BY NumbersAssumption DEF Reward, VitalsInv, TypeOK, Owned
<1>2. CASE Becomes(Filled)
  BY <1>1, <1>2, RespawnedLives, BecomesKeeps
<1>3. CASE /\ hp' = MaxHP' /\ ideal' = [ideal EXCEPT !.hp = MaxHP']
           /\ UNCHANGED since
  <2>1. Numbers(MaxHP', Rate')
    BY <1>1, NumbersOK
  <2>2. ideal' = [hp |-> MaxHP', since |-> ideal.since] /\ ideal.since \in Nat
    BY <1>3 DEF VitalsInv, TypeOK
  <2>3. hp' = MaxHP' /\ since' = since /\ since \in 0 .. MaxIdle
    BY <1>3 DEF VitalsInv, TypeOK
  <2>4. /\ Settles(MaxHP', Rate', hp', since') = [hp |-> MaxHP', since |-> 0]
        /\ Settles(MaxHP', Rate', ideal'.hp, ideal'.since) = [hp |-> MaxHP', since |-> 0]
    BY <2>1, <2>2, <2>3, NumbersAssumption, FullStaysFull DEF Numbers
  <2>5. LooksDoNotMatter'
    BY <2>4 DEF LooksDoNotMatter, Now, Regen, Settles, Rest
  <2>6. TypeOK' /\ hp' >= 1
    BY <1>1, <2>1, <2>2, <2>3 DEF TypeOK, Owned, Numbers
  <2> QED BY <2>5, <2>6 DEF VitalsInv
<1> QED BY <1>2, <1>3 DEF Reward

LEMMA ReconnectKeeps == VitalsInv /\ Reconnect => VitalsInv'
<1> SUFFICES ASSUME VitalsInv, Reconnect PROVE VitalsInv'
  OBVIOUS
<1>1. TypeOK' /\ hp' >= 1
  <2>1. hp \in Int /\ hp >= 1 /\ 0 \in 0 .. MaxIdle
    BY NumbersAssumption DEF VitalsInv, TypeOK
  <2>2. ideal' \in [hp : Int, since : Nat]
    BY <2>1 DEF Reconnect
  <2> QED BY <2>1, <2>2 DEF Reconnect, VitalsInv, TypeOK
<1>2. LooksDoNotMatter'
  BY DEF Reconnect, LooksDoNotMatter, Now
<1> QED BY <1>1, <1>2 DEF VitalsInv

\* A moment passes for the player and for its ideal.
LEMMA PassKeeps == VitalsInv /\ Pass => VitalsInv'
<1> SUFFICES ASSUME VitalsInv, Pass PROVE VitalsInv'
  OBVIOUS
<1> DEFINE r == Now
           q == ideal'
<1>1. MaxHP \in Nat \ {0} /\ Rate \in Nat /\ MaxHP' = MaxHP /\ Rate' = Rate
  BY NumbersOK DEF VitalsInv, TypeOK, Owned, Numbers, Pass, MaxHP, Rate, Total, ItemTotal
<1>2. /\ hp \in Int /\ hp >= 1 /\ since \in Nat /\ since + 1 \in 0 .. MaxIdle
      /\ hp' = hp /\ since' = since + 1 /\ Owned'
      /\ ideal.hp \in Int /\ ideal.since \in Nat /\ ideal.since + 1 \in Nat
  BY NumbersAssumption DEF VitalsInv, TypeOK, Pass, Owned
<1>3. /\ r = Settles(MaxHP, Rate, hp, since)
      /\ r = Settles(MaxHP, Rate, ideal.hp, ideal.since)
  BY NowResult
<1>4. q = Settles(MaxHP, Rate, ideal.hp, ideal.since + 1)
  BY RegenSettles DEF Pass
<1> HIDE DEF r
<1>5. \A h \in Int, t \in Nat :
         r = Settles(MaxHP, Rate, h, t) =>
             Settles(MaxHP, Rate, r.hp, r.since + 1) = Settles(MaxHP, Rate, h, t + 1)
  <2> DEFINE full == MaxHP
             rate == Rate
  <2>1. full \in Nat \ {0} /\ rate \in Nat
    BY <1>1
  <2> HIDE DEF full, rate
  <2>2. \A h \in Int, t \in Nat :
           r = Settles(full, rate, h, t) =>
               Settles(full, rate, r.hp, r.since + 1) = Settles(full, rate, h, t + 1)
    BY <2>1, SettledLater
  <2> QED BY <2>2 DEF full, rate
<1>6. /\ Settles(MaxHP, Rate, r.hp, r.since + 1) = Settles(MaxHP, Rate, hp, since + 1)
      /\ Settles(MaxHP, Rate, r.hp, r.since + 1) = q
  <2> HIDE DEF q
  <2> QED BY <1>2, <1>3, <1>4, <1>5
<1>7. Settles(MaxHP, Rate, q.hp, q.since) = q
  BY <1>1, <1>2, <1>4, SettledStays
<1>8. q = [hp |-> q.hp, since |-> q.since] /\ q.hp \in Int /\ q.since \in Nat
  <2> HIDE DEF q
  <2> QED BY <1>1, <1>2, <1>4, SettledResult
<1>9. LooksDoNotMatter'
  <2>1. Settles(MaxHP', Rate', hp', since') = Settles(MaxHP', Rate', ideal'.hp, ideal'.since)
    BY <1>1, <1>2, <1>6, <1>7
  <2> QED BY <2>1 DEF LooksDoNotMatter, Now, Regen, Settles, Rest
<1>10. ideal' \in [hp : Int, since : Nat]
  <2> HIDE DEF q
  <2>1. q \in [hp : Int, since : Nat]
    BY <1>8
  <2> QED BY <2>1 DEF q
<1> QED BY <1>2, <1>9, <1>10 DEF VitalsInv, TypeOK, Owned

LEMMA NextKeeps == VitalsInv /\ [Next]_vars => VitalsInv'
<1> SUFFICES ASSUME VitalsInv, [Next]_vars PROVE VitalsInv'
  OBVIOUS
<1>1. CASE UNCHANGED vars
  <2>1. TypeOK' /\ hp' >= 1
    BY <1>1 DEF VitalsInv, TypeOK, vars
  <2>2. LooksDoNotMatter'
    BY <1>1 DEF VitalsInv, LooksDoNotMatter, Now, Regen, Rest, MaxHP, Rate, Total,
                ItemTotal, vars
  <2> QED BY <2>1, <2>2 DEF VitalsInv
<1>2. CASE Next
  BY <1>2, LookKeeps, DieKeeps, FightKeeps, TakeKeeps, DropKeeps, EndingKeeps,
     RewardKeeps, ReconnectKeeps, PassKeeps DEF Next, Command
<1> QED BY <1>1, <1>2

\* Every step of a connection is one of the player, or leaves the player alone.
LEMMA TimingRefinesVitals == TimingSpec => Init /\ [][Next]_vars
<1>1. TimingInit => Init
  BY DEF TimingInit
<1>2. [TimingNext]_timingVars => [Next]_vars
  BY DEF TimingNext, timingVars, Serve, Reopen, TimePasses, Next
<1> QED BY <1>1, <1>2, PTL DEF TimingSpec

LEMMA VitalsInvariant == TimingSpec => []VitalsInv
BY InitVitals, NextKeeps, TimingRefinesVitals, PTL

\* How often a player is looked at changes nothing: regenLocked, run now, gives
\* what it would have given had it run at every instant.
THEOREM LooksNeverMatter == TimingSpec => []LooksDoNotMatter
<1>1. VitalsInv => LooksDoNotMatter
  BY DEF VitalsInv
<1> QED BY <1>1, VitalsInvariant, PTL

\* Whoever looks finds a living player, with no more points than the maximum.
THEOREM LivingPlayersAreShown == TimingSpec => []ShowsLivingPlayer
<1>1. VitalsInv => ShowsLivingPlayer
  BY NowResult DEF ShowsLivingPlayer
<1> QED BY <1>1, VitalsInvariant, PTL

\* A counter that does not kill costs between one point and half as much again
\* as the dice can show.
THEOREM CountersAlwaysHurt == TimingSpec => CountersHurt
<1>1. VitalsInv /\ [Next]_vars =>
         [Fight => \/ hp' = RespawnHP
                   \/ Now.hp - hp' \in
                         1 .. (Max(Counters) * (100 + MaxIncrease)) \div 100]_vars
  BY FightKeeps
<1> QED BY <1>1, VitalsInvariant, TimingRefinesVitals, PTL DEF CountersHurt

-------------------------------------------------------------------------------
(* Counting commands.                                                      *)

\* How many of the first n entries of a list are a.
Occurs(s, n, a) == Cardinality({i \in 1 .. n : s[i] = a})

LEMMA OccursStep ==
    ASSUME NEW s, NEW n \in Nat, NEW a
    PROVE  /\ Occurs(s, 0, a) = 0
           /\ Occurs(s, n, a) \in Nat
           /\ Occurs(s, n + 1, a) = Occurs(s, n, a) + IF s[n + 1] = a THEN 1 ELSE 0
<1> DEFINE A == {i \in 1 .. n : s[i] = a}
           B == {i \in 1 .. n + 1 : s[i] = a}
<1>1. IsFiniteSet(A) /\ Cardinality(A) \in Nat
  <2>1. IsFiniteSet(1 .. n) /\ A \subseteq 1 .. n
    BY FS_Interval
  <2> QED BY <2>1, FS_Subset, FS_CardinalityType
<1>2. Occurs(s, 0, a) = 0
  <2>1. {i \in 1 .. 0 : s[i] = a} = {}
    OBVIOUS
  <2> QED BY <2>1, FS_EmptySet DEF Occurs
<1>3. CASE s[n + 1] = a
  <2>1. B = A \cup {n + 1} /\ n + 1 \notin A
    BY <1>3
  <2> HIDE DEF A, B
  <2>2. Cardinality(B) = Cardinality(A) + 1
    BY <1>1, <2>1, FS_AddElement
  <2> QED BY <1>1, <1>2, <1>3, <2>2 DEF Occurs, A, B
<1>4. CASE s[n + 1] # a
  <2>1. B = A
    BY <1>4
  <2> QED BY <1>1, <1>2, <1>4, <2>1 DEF Occurs
<1> QED BY <1>3, <1>4

\* One entry more.
LEMMA OccursAppend ==
    ASSUME NEW S, NEW s \in Seq(S), NEW x \in S, NEW a
    PROVE  Occurs(Append(s, x), Len(s) + 1, a) =
               Occurs(s, Len(s), a) + IF x = a THEN 1 ELSE 0
<1> DEFINE t == Append(s, x)
           n == Len(s)
<1>1. n \in Nat /\ t[n + 1] = x /\ \A i \in 1 .. n : t[i] = s[i]
  OBVIOUS
<1> HIDE DEF t, n
<1>2. {i \in 1 .. n : t[i] = a} = {i \in 1 .. n : s[i] = a}
  BY <1>1
<1>3. Occurs(t, n, a) = Occurs(s, n, a)
  BY <1>2 DEF Occurs
<1>4. Occurs(t, n + 1, a) = Occurs(t, n, a) + IF x = a THEN 1 ELSE 0
  BY <1>1, OccursStep
<1> QED BY <1>3, <1>4 DEF t, n

\* How often a recent age occurs does not change when the others are dropped.
LEMMA RecentKept ==
    ASSUME NEW s \in Seq(0 .. Window)
    PROVE  LET r == Selected(s, Recent)
           IN  /\ r \in Seq(Recent)
               /\ \A a \in Recent : Occurs(r, Len(r), a) = Occurs(s, Len(s), a)
<1> DEFINE k(n) == Kept(s, Recent, n)
           P == {n \in Nat : n <= Len(s) =>
                    \A a \in Recent : Occurs(k(n), Len(k(n)), a) = Occurs(s, n, a)}
<1>1. \A n \in Nat : n <= Len(s) => k(n) \in Seq(Recent)
  <2>1. (0 .. Window) \cap Recent = Recent
    BY TrackerAssumption DEF Recent
  <2> QED BY <2>1, KeptType
<1>2. 0 \in P
  <2>1. k(0) = <<>>
    BY KeptNothing
  <2>2. \A t, u, a : Occurs(t, 0, a) = Occurs(u, 0, a)
    BY OccursStep
  <2>3. Len(<<>>) = 0
    OBVIOUS
  <2> QED BY <2>1, <2>2, <2>3
<1>3. ASSUME NEW n \in Nat, n \in P PROVE n + 1 \in P
  <2> SUFFICES ASSUME n + 1 <= Len(s), NEW a \in Recent
               PROVE  Occurs(k(n + 1), Len(k(n + 1)), a) = Occurs(s, n + 1, a)
    OBVIOUS
  <2> DEFINE b == k(n)
             x == s[n + 1]
  <2>1. b \in Seq(Recent) /\ Occurs(b, Len(b), a) = Occurs(s, n, a)
    BY <1>1, <1>3
  <2>2. k(n + 1) = IF x \in Recent THEN Append(b, x) ELSE b
    BY KeptStep
  <2>3. /\ Occurs(s, n + 1, a) = Occurs(s, n, a) + IF x = a THEN 1 ELSE 0
        /\ Occurs(s, n, a) \in Nat
    <3> DEFINE m == n
    <3>1. m \in Nat
      OBVIOUS
    <3> HIDE DEF m
    <3>2. /\ Occurs(s, m + 1, a) = Occurs(s, m, a) + IF s[m + 1] = a THEN 1 ELSE 0
          /\ Occurs(s, m, a) \in Nat
      BY <3>1, OccursStep
    <3> QED BY <3>2 DEF m
  <2> HIDE DEF k, x, b
  <2>5. CASE x \in Recent
    <3>1. Occurs(Append(b, x), Len(b) + 1, a) = Occurs(b, Len(b), a) + IF x = a THEN 1 ELSE 0
      BY <2>1, <2>5, OccursAppend
    <3>2. Len(Append(b, x)) = Len(b) + 1
      BY <2>1, <2>5
    <3> QED BY <2>1, <2>2, <2>3, <2>5, <3>1, <3>2
  <2>6. CASE x \notin Recent
    <3>1. x # a
      BY <2>6
    <3> QED BY <2>1, <2>2, <2>3, <2>6, <3>1
  <2> QED BY <2>5, <2>6
<1>4. Len(s) \in P
  <2> HIDE DEF P
  <2> QED BY <1>2, <1>3, NaturalsGrow
<1>5. Len(s) \in Nat /\ Selected(s, Recent) = k(Len(s))
  BY SelectedIsKept
<1> QED BY <1>1, <1>4, <1>5

\* Who counts every age counts every entry.
LEMMA OccurrencesAddUp ==
    ASSUME NEW s \in Seq(Recent)
    PROVE  SumFunction([a \in Recent |-> Occurs(s, Len(s), a)]) = Len(s)
<1> DEFINE f(n) == [a \in Recent |-> Occurs(s, n, a)]
           P == {n \in Nat : n <= Len(s) => SumFunction(f(n)) = n}
<1>1. IsFiniteSet(Recent)
  BY FS_Interval, TrackerAssumption DEF Recent
<1>2. 0 \in P
  <2>1. f(0) = [a \in Recent |-> 0]
    BY OccursStep
  <2> HIDE DEF f
  <2> QED BY <1>1, <2>1, SumOfNothing
<1>3. ASSUME NEW n \in Nat, n \in P PROVE n + 1 \in P
  <2> SUFFICES ASSUME n + 1 <= Len(s) PROVE SumFunction(f(n + 1)) = n + 1
    OBVIOUS
  <2>1. s[n + 1] \in Recent
    OBVIOUS
  <2>2. \A a \in Recent :
           f(n + 1)[a] = f(n)[a] + (IF s[n + 1] = a THEN 1 ELSE 0) /\ f(n)[a] \in Nat
    BY OccursStep
  <2>3. f(n + 1) = [f(n) EXCEPT ![s[n + 1]] = @ + 1]
    BY <2>1, <2>2
  <2>4. DOMAIN f(n) = Recent /\ SumFunction(f(n)) = n
    BY <1>3
  <2> DEFINE g == f(n)
             x == s[n + 1]
  <2>5. /\ DOMAIN g = Recent /\ \A a \in DOMAIN g : g[a] \in Int
        /\ x \in DOMAIN g /\ SumFunction(g) = n
        /\ f(n + 1) = [g EXCEPT ![x] = @ + 1]
    BY <2>1, <2>2, <2>3, <2>4
  <2> HIDE DEF f, g, x
  <2>6. SumFunction([g EXCEPT ![x] = @ + 1]) = SumFunction(g) + 1
    BY <1>1, <2>5, SumOfOneMore
  <2> QED BY <2>5, <2>6
<1>4. Len(s) \in P
  <2> HIDE DEF P
  <2> QED BY <1>2, <1>3, NaturalsGrow
<1> QED BY <1>4

-------------------------------------------------------------------------------
(* The flood tracker.                                                      *)

\* The list forgets no recent command and invents none, and the zero value of
\* lastWarn stands for a warning long ago.
FloodInv ==
    /\ times \in Seq(0 .. Window)
    /\ seen \in [Recent -> Nat]
    /\ lastWarn \in 0 .. WarnInterval /\ quiet = lastWarn
    /\ \A a \in Recent : seen[a] = Occurs(times, Len(times), a)

\* A list with no entries, for the first and for every later connection.
LEMMA TrackerFresh ==
    /\ TrackerInit => FloodInv
    /\ NewTracker => FloodInv'
<1>1. \A a : Occurs(<<>>, Len(<<>>), a) = 0
  BY OccursStep
<1>2. Recent = 0 .. Window - 1
  BY DEF Recent
<1>3. ASSUME TrackerInit PROVE FloodInv
  BY <1>1, <1>2, <1>3, TrackerAssumption DEF TrackerInit, FloodInv
<1>4. ASSUME NewTracker PROVE FloodInv'
  BY <1>1, <1>2, <1>4, TrackerAssumption DEF NewTracker, FloodInv
<1> QED BY <1>3, <1>4

\* record lists exactly the commands of the last window.
LEMMA RecordCounts ==
    ASSUME FloodInv, Record
    PROVE  /\ FloodInv'
           /\ Len(Counted) = SeenInWindow'
<1> DEFINE r == Selected(times, Recent)
           t == Append(r, 0)
<1>1. r \in Seq(Recent) /\ \A a \in Recent : Occurs(r, Len(r), a) = seen[a]
  BY RecentKept DEF FloodInv
<1>2. times' = t /\ Counted = t
  BY DEF Record, Counted
<1>3. 0 \in Recent /\ Recent \subseteq 0 .. Window
  BY TrackerAssumption DEF Recent
<1> HIDE DEF r
<1>4. t \in Seq(Recent) /\ Len(t) = Len(r) + 1
  BY <1>1, <1>3
<1>5. \A a \in Recent : Occurs(t, Len(t), a) = Occurs(r, Len(r), a) + IF 0 = a THEN 1 ELSE 0
  BY <1>1, <1>3, <1>4, OccursAppend
<1>6. seen' = [a \in Recent |-> Occurs(t, Len(t), a)]
  <2>1. seen' = [seen EXCEPT ![0] = @ + 1] /\ seen \in [Recent -> Nat]
    BY DEF Record, FloodInv
  <2>2. \A a \in Recent : seen'[a] = seen[a] + IF a = 0 THEN 1 ELSE 0
    BY <1>3, <2>1
  <2>3. \A a \in Recent : seen'[a] = Occurs(t, Len(t), a)
    BY <1>1, <1>5, <2>2
  <2> HIDE DEF t
  <2> QED BY <2>1, <2>3
<1> HIDE DEF t
<1>7. SumFunction(seen') = Len(t)
  BY <1>4, <1>6, OccurrencesAddUp
<1>8. seen' \in [Recent -> Nat]
  <2>1. seen' = [seen EXCEPT ![0] = @ + 1] /\ seen \in [Recent -> Nat]
    BY DEF Record, FloodInv
  <2> QED BY <1>3, <2>1
<1>9. times' \in Seq(0 .. Window)
  <2> DEFINE S == 0 .. Window
  <2>1. t \in Seq(Recent) /\ Recent \subseteq S
    BY <1>3, <1>4
  <2> HIDE DEF S
  <2>2. t \in Seq(S)
    BY <2>1
  <2> QED BY <1>2, <2>2 DEF S
<1>10. \A a \in Recent : seen'[a] = Occurs(times', Len(times'), a)
  BY <1>2, <1>6
<1>11. lastWarn' \in 0 .. WarnInterval /\ quiet' = lastWarn'
  BY TrackerAssumption DEF Record, FloodInv
<1>12. FloodInv'
  BY <1>8, <1>9, <1>10, <1>11 DEF FloodInv, Recent
<1> QED BY <1>2, <1>7, <1>12 DEF SeenInWindow

\* All grow older together.
LEMMA ElapseCounts == FloodInv /\ Elapse => FloodInv'
<1> SUFFICES ASSUME FloodInv, Elapse PROVE FloodInv'
  OBVIOUS
<1> DEFINE n == Len(times)
<1>1. /\ n \in Nat /\ DOMAIN times = 1 .. n
      /\ \A i \in 1 .. n : times[i] \in 0 .. Window
  <2> DEFINE S == 0 .. Window
  <2>1. times \in Seq(S)
    BY DEF FloodInv
  <2> HIDE DEF S
  <2>2. n \in Nat /\ DOMAIN times = 1 .. n /\ \A i \in 1 .. n : times[i] \in S
    BY <2>1
  <2> QED BY <2>2 DEF S
<1>2. /\ times' = [i \in 1 .. n |-> Older(times[i], Window)]
      /\ seen' = [a \in Recent |-> IF a = 0 THEN 0 ELSE seen[a - 1]]
  BY <1>1 DEF Elapse, FloodInv
<1>3. \A i \in 1 .. n : times'[i] = Older(times[i], Window) /\ times'[i] \in 0 .. Window
  BY <1>1, <1>2, TrackerAssumption DEF Older
<1>4. times' \in Seq(0 .. Window) /\ Len(times') = n
  BY <1>1, <1>2, <1>3
<1>5. ASSUME NEW a \in Recent PROVE seen'[a] = Occurs(times', n, a)
  <2>1. CASE a = 0
    <3>1. {i \in 1 .. n : times'[i] = a} = {}
      BY <1>1, <1>3, <2>1, TrackerAssumption DEF Older
    <3> QED BY <1>2, <2>1, <3>1, FS_EmptySet DEF Occurs
  <2>2. CASE a # 0
    <3>1. {i \in 1 .. n : times'[i] = a} = {i \in 1 .. n : times[i] = a - 1}
      BY <1>1, <1>3, <2>2, TrackerAssumption DEF Older, Recent
    <3>2. a - 1 \in Recent
      BY <2>2, TrackerAssumption DEF Recent
    <3> QED BY <1>2, <2>2, <3>1, <3>2 DEF Occurs, FloodInv
  <2> QED BY <2>1, <2>2
<1>6. seen' \in [Recent -> Nat]
  <2>1. \A a \in Recent : a # 0 => a - 1 \in Recent
    BY TrackerAssumption DEF Recent
  <2> QED BY <1>2, <2>1 DEF FloodInv
<1>7. lastWarn' \in 0 .. WarnInterval /\ quiet' = lastWarn'
  BY TrackerAssumption DEF Elapse, FloodInv, Older
<1> QED BY <1>4, <1>5, <1>6, <1>7 DEF FloodInv, Recent

LEMMA FloodInvariant == TimingSpec => []FloodInv
<1>1. TimingInit => FloodInv
  BY TrackerFresh DEF TimingInit
<1>2. FloodInv /\ [TimingNext]_timingVars => FloodInv'
  <2> SUFFICES ASSUME FloodInv, [TimingNext]_timingVars PROVE FloodInv'
    OBVIOUS
  <2>1. CASE UNCHANGED timingVars
    BY <2>1 DEF timingVars, trackerVars, FloodInv, Recent
  <2>2. CASE TimingNext
    BY <2>2, TrackerFresh, RecordCounts, ElapseCounts
       DEF TimingNext, Serve, Reopen, TimePasses
  <2> QED BY <2>1, <2>2
<1> QED BY <1>1, <1>2, PTL DEF TimingSpec

\* record warns exactly when more commands came within a window than may, and
\* no warning was given for an interval.
THEOREM WarningsAreDue == TimingSpec => WarnsWhenDue
<1>1. FloodInv => [Record => (Warns <=> /\ SeenInWindow' > MaxPerWindow
                                        /\ quiet >= WarnInterval)]_trackerVars
  <2> SUFFICES ASSUME FloodInv, Record
               PROVE  Warns <=> SeenInWindow' > MaxPerWindow /\ quiet >= WarnInterval
    OBVIOUS
  <2>1. Len(Counted) = SeenInWindow' /\ quiet = lastWarn
    BY RecordCounts DEF FloodInv
  <2> QED BY <2>1 DEF Warns
<1> QED BY <1>1, FloodInvariant, PTL DEF WarnsWhenDue
===============================================================================
