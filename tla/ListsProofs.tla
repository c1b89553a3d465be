------------------------------ MODULE ListsProofs ------------------------------
(***************************************************************************)
(* Facts about data that several proofs rest on: induction, stated with a  *)
(* set in the place of a predicate, and the laws of Selected.              *)
(***************************************************************************)
EXTENDS Lists, Integers, FiniteSetTheorems, WellFoundedInduction, TLAPS

\* A set of naturals with 0 and with every successor is the set of all.
LEMMA NaturalsGrow ==
    ASSUME NEW P, 0 \in P, \A n \in Nat : n \in P => n + 1 \in P
    PROVE  Nat \subseteq P
<1> DEFINE T == Nat \ P
           R == OpToRel(<, Nat)
<1> SUFFICES ASSUME T # {} PROVE FALSE
  OBVIOUS
<1>1. \A x, y \in Nat : x < y => <<x, y>> \in R
  BY DEF OpToRel
<1>2. PICK n \in T : \A m \in T : ~(<<m, n>> \in R)
  <2>1. T \subseteq Nat /\ IsWellFoundedOn(R, Nat)
    BY NatLessThanWellFounded
  <2> HIDE DEF T, R
  <2> QED BY <2>1, WFMin
<1> HIDE DEF R
<1>3. n \in Nat /\ n # 0 /\ n - 1 \in Nat /\ n - 1 < n
  BY <1>2
<1>4. n - 1 \in P
  BY <1>1, <1>2, <1>3
<1> QED BY <1>2, <1>3, <1>4

\* A set of subsets of a finite set, with the empty one and with each that one
\* more element makes, is the set of all.
LEMMA FiniteSetsGrow ==
    ASSUME NEW A, IsFiniteSet(A), NEW P, {} \in P,
           \A s \in SUBSET A, x \in A : s \in P => s \cup {x} \in P
    PROVE  SUBSET A \subseteq P
<1> DEFINE T == (SUBSET A) \ P
           R == StrictSubsetOrdering(A)
<1> SUFFICES ASSUME T # {} PROVE FALSE
  OBVIOUS
<1>1. \A x, y \in SUBSET A : x \subseteq y /\ x # y => <<x, y>> \in R
  BY DEF StrictSubsetOrdering
<1>2. PICK s \in T : \A y \in T : ~(<<y, s>> \in R)
  <2>1. T \subseteq FiniteSubsetsOf(A) /\ IsWellFoundedOn(R, FiniteSubsetsOf(A))
    BY FS_StrictSubsetOrderingWellFounded, FS_Subset DEF FiniteSubsetsOf
  <2> HIDE DEF T, R
  <2> QED BY <2>1, WFMin
<1> HIDE DEF R
<1>3. PICK x \in s : TRUE
  BY <1>2
<1>4. s \ {x} \notin T
  BY <1>1, <1>2
<1>5. (s \ {x}) \cup {x} = s
  BY <1>3
<1> QED BY <1>2, <1>3, <1>4, <1>5

-------------------------------------------------------------------------------
(* Selected.                                                               *)

\* What Selected has kept of the first i elements, for i up to n.
Filters(kept, list, T, n) ==
    kept = [i \in 0 .. n |->
               IF i = 0 THEN <<>>
               ELSE IF list[i] \in T THEN Append(kept[i - 1], list[i])
               ELSE kept[i - 1]]

\* The first n elements of a list, selected.
Kept(list, T, n) == (CHOOSE kept : Filters(kept, list, T, Len(list)))[n]

LEMMA SelectedIsKept == \A list, T : Selected(list, T) = Kept(list, T, Len(list))
BY DEF Selected, Kept, Filters

LEMMA FiltersExist ==
    ASSUME NEW list, NEW T, NEW n \in Nat
    PROVE  \E kept : Filters(kept, list, T, n)
<1> DEFINE P == {m \in Nat : \E kept : Filters(kept, list, T, m)}
<1>1. 0 \in P
  <2>1. Filters([i \in 0 .. 0 |-> <<>>], list, T, 0)
    BY DEF Filters
  <2> QED BY <2>1
<1>2. ASSUME NEW m \in Nat, m \in P PROVE m + 1 \in P
  <2>1. PICK kept : Filters(kept, list, T, m)
    BY <1>2
  <2> DEFINE more == [i \in 0 .. m + 1 |->
                         IF i = 0 THEN <<>>
                         ELSE IF list[i] \in T THEN Append(kept[i - 1], list[i])
                         ELSE kept[i - 1]]
  <2>2. \A i \in 0 .. m : i \in 0 .. m + 1 /\ more[i] = kept[i]
    <3>1. \A i \in 0 .. m : kept[i] = IF i = 0 THEN <<>>
                                      ELSE IF list[i] \in T THEN Append(kept[i - 1], list[i])
                                      ELSE kept[i - 1]
      BY <2>1 DEF Filters
    <3>2. \A i \in 0 .. m : i \in 0 .. m + 1
      OBVIOUS
    <3> QED BY <3>1, <3>2
  <2>3. \A i \in 0 .. m + 1 : i # 0 => i - 1 \in 0 .. m
    OBVIOUS
  <2> HIDE DEF more
  <2>4. Filters(more, list, T, m + 1)
    <3>1. more = [i \in 0 .. m + 1 |->
                     IF i = 0 THEN <<>>
                     ELSE IF list[i] \in T THEN Append(kept[i - 1], list[i])
                     ELSE kept[i - 1]]
      BY DEF more
    <3>2. more = [i \in 0 .. m + 1 |->
                     IF i = 0 THEN <<>>
                     ELSE IF list[i] \in T THEN Append(more[i - 1], list[i])
                     ELSE more[i - 1]]
      BY <2>2, <2>3, <3>1
    <3> QED BY <3>2 DEF Filters
  <2> QED BY <2>4
<1> HIDE DEF P
<1>3. n \in P
  BY <1>1, <1>2, NaturalsGrow
<1> QED BY <1>3 DEF P

\* Nothing of no elements, and then one element more.
LEMMA KeptNothing ==
    ASSUME NEW list, NEW T, Len(list) \in Nat
    PROVE  Kept(list, T, 0) = <<>>
<1> DEFINE kept == CHOOSE kept : Filters(kept, list, T, Len(list))
<1>1. Filters(kept, list, T, Len(list))
  BY FiltersExist
<1> HIDE DEF kept
<1>2. kept[0] = <<>>
  BY <1>1 DEF Filters
<1> QED BY <1>2 DEF Kept, kept

LEMMA KeptStep ==
    ASSUME NEW list, NEW T, Len(list) \in Nat, NEW n \in Nat, n + 1 <= Len(list)
    PROVE  Kept(list, T, n + 1) = IF list[n + 1] \in T
                                  THEN Append(Kept(list, T, n), list[n + 1])
                                  ELSE Kept(list, T, n)
<1> DEFINE kept == CHOOSE kept : Filters(kept, list, T, Len(list))
<1>1. Filters(kept, list, T, Len(list))
  BY FiltersExist
<1> HIDE DEF kept
<1>2. n + 1 \in 0 .. Len(list) /\ n + 1 # 0 /\ (n + 1) - 1 = n
  OBVIOUS
<1>3. kept[n + 1] = IF list[n + 1] \in T THEN Append(kept[n], list[n + 1]) ELSE kept[n]
  BY <1>1, <1>2 DEF Filters
<1> QED BY <1>3 DEF Kept, kept

\* What is kept of the first elements depends on nothing else.
LEMMA KeptAgree ==
    ASSUME NEW s, NEW t, NEW T, Len(s) \in Nat, Len(t) \in Nat,
           NEW n \in Nat, n <= Len(s), n <= Len(t), \A i \in 1 .. n : s[i] = t[i]
    PROVE  Kept(s, T, n) = Kept(t, T, n)
<1> DEFINE P == {m \in Nat : m <= n => Kept(s, T, m) = Kept(t, T, m)}
<1>1. 0 \in P
  BY KeptNothing
<1>2. ASSUME NEW m \in Nat, m \in P PROVE m + 1 \in P
  <2> SUFFICES ASSUME m + 1 <= n PROVE Kept(s, T, m + 1) = Kept(t, T, m + 1)
    OBVIOUS
  <2>1. Kept(s, T, m) = Kept(t, T, m) /\ s[m + 1] = t[m + 1]
    BY <1>2
  <2>2. m + 1 <= Len(s) /\ m + 1 <= Len(t)
    OBVIOUS
  <2>3. Kept(s, T, m + 1) = IF s[m + 1] \in T THEN Append(Kept(s, T, m), s[m + 1])
                            ELSE Kept(s, T, m)
    BY <2>2, KeptStep
  <2>4. Kept(t, T, m + 1) = IF t[m + 1] \in T THEN Append(Kept(t, T, m), t[m + 1])
                            ELSE Kept(t, T, m)
    BY <2>2, KeptStep
  <2> QED BY <2>1, <2>3, <2>4
<1> HIDE DEF P
<1>3. n \in P
  BY <1>1, <1>2, NaturalsGrow
<1> QED BY <1>3 DEF P

\* Kept holds elements of the list that are in T, and not more than there were.
LEMMA KeptType ==
    ASSUME NEW S, NEW s \in Seq(S), NEW T, NEW n \in Nat, n <= Len(s)
    PROVE  Kept(s, T, n) \in Seq(S \cap T) /\ Len(Kept(s, T, n)) <= n
<1> DEFINE P == {m \in Nat : m <= Len(s) => /\ Kept(s, T, m) \in Seq(S \cap T)
                                            /\ Len(Kept(s, T, m)) <= m}
<1>1. 0 \in P
  <2>1. Kept(s, T, 0) = <<>>
    BY KeptNothing
  <2>2. <<>> \in Seq(S \cap T) /\ Len(<<>>) <= 0
    OBVIOUS
  <2>3. Kept(s, T, 0) \in Seq(S \cap T) /\ Len(Kept(s, T, 0)) <= 0
    BY <2>1, <2>2
  <2> QED BY <2>3
<1>2. ASSUME NEW m \in Nat, m \in P PROVE m + 1 \in P
  <2> SUFFICES ASSUME m + 1 <= Len(s)
               PROVE  /\ Kept(s, T, m + 1) \in Seq(S \cap T)
                      /\ Len(Kept(s, T, m + 1)) <= m + 1
    OBVIOUS
  <2>1. Kept(s, T, m) \in Seq(S \cap T) /\ Len(Kept(s, T, m)) <= m /\ s[m + 1] \in S
    BY <1>2
  <2>2. Kept(s, T, m + 1) = IF s[m + 1] \in T THEN Append(Kept(s, T, m), s[m + 1])
                            ELSE Kept(s, T, m)
    BY KeptStep
  <2>3. ASSUME NEW k \in Seq(S \cap T), NEW x \in S, Len(k) <= m
        PROVE  LET r == IF x \in T THEN Append(k, x) ELSE k
               IN  r \in Seq(S \cap T) /\ Len(r) <= m + 1
    BY <2>3
  <2> QED BY <2>1, <2>2, <2>3
<1> HIDE DEF P
<1>3. n \in P
  BY <1>1, <1>2, NaturalsGrow
<1> QED BY <1>3 DEF P

LEMMA SelectedType ==
    ASSUME NEW S, NEW s \in Seq(S), NEW T
    PROVE  Selected(s, T) \in Seq(S \cap T) /\ Len(Selected(s, T)) <= Len(s)
BY SelectedIsKept, KeptType

LEMMA SelectedNothing == ASSUME NEW T PROVE Selected(<<>>, T) = <<>>
BY SelectedIsKept, KeptNothing

\* Just the elements in T are selected.
LEMMA KeptElements ==
    ASSUME NEW S, NEW s \in Seq(S), NEW T, NEW n \in Nat, n <= Len(s)
    PROVE  \A x : (\E i \in DOMAIN Kept(s, T, n) : Kept(s, T, n)[i] = x) <=>
                     x \in T /\ \E i \in 1 .. n : s[i] = x
<1> DEFINE Has(m) == \A x : (\E i \in DOMAIN Kept(s, T, m) : Kept(s, T, m)[i] = x) <=>
                               x \in T /\ \E i \in 1 .. m : s[i] = x
           P == {m \in Nat : m <= Len(s) => Has(m)}
<1>1. 0 \in P
  <2>1. Kept(s, T, 0) = <<>>
    BY KeptNothing
  <2> QED BY <2>1
<1>2. ASSUME NEW m \in Nat, m \in P PROVE m + 1 \in P
  <2> SUFFICES ASSUME m + 1 <= Len(s) PROVE Has(m + 1)
    OBVIOUS
  <2> DEFINE b == Kept(s, T, m)
             y == s[m + 1]
  <2>1. b \in Seq(S \cap T) /\ y \in S
    BY KeptType
  <2>2. Kept(s, T, m + 1) = IF y \in T THEN Append(b, y) ELSE b
    BY KeptStep
  <2>3. \A x : (\E i \in DOMAIN b : b[i] = x) <=> x \in T /\ \E i \in 1 .. m : s[i] = x
    BY <1>2
  <2> HIDE DEF b
  <2>4. \A x : (\E i \in DOMAIN Append(b, y) : Append(b, y)[i] = x) <=>
                  (\E i \in DOMAIN b : b[i] = x) \/ x = y
    <3>1. /\ DOMAIN Append(b, y) = 1 .. Len(b) + 1 /\ DOMAIN b = 1 .. Len(b) /\ Len(b) \in Nat
          /\ Append(b, y)[Len(b) + 1] = y /\ \A i \in 1 .. Len(b) : Append(b, y)[i] = b[i]
      BY <2>1
    <3> QED BY <3>1
  <2>5. \A x : (\E i \in 1 .. m + 1 : s[i] = x) <=> (\E i \in 1 .. m : s[i] = x) \/ x = y
    <3>1. \A i : i \in 1 .. m + 1 <=> i \in 1 .. m \/ i = m + 1
      OBVIOUS
    <3> QED BY <3>1
  <2> DEFINE r == Kept(s, T, m + 1)
  <2>6. \A x : (\E i \in DOMAIN r : r[i] = x) <=> x \in T /\ \E i \in 1 .. m + 1 : s[i] = x
    <3>1. CASE y \in T
      <4>1. r = Append(b, y)
        BY <2>2, <3>1
      <4> HIDE DEF r, y
      <4> QED BY <2>3, <2>4, <2>5, <3>1, <4>1
    <3>2. CASE y \notin T
      <4>1. r = b
        BY <2>2, <3>2
      <4> HIDE DEF r, y
      <4> QED BY <2>3, <2>5, <3>2, <4>1
    <3> QED BY <3>1, <3>2
  <2> QED BY <2>6
<1>3. n \in P
  <2> HIDE DEF P
  <2> QED BY <1>1, <1>2, NaturalsGrow
<1> QED BY <1>3

LEMMA SelectedElements ==
    ASSUME NEW S, NEW s \in Seq(S), NEW T
    PROVE  \A x : (\E i \in DOMAIN Selected(s, T) : Selected(s, T)[i] = x) <=>
                     x \in T /\ \E i \in DOMAIN s : s[i] = x
<1> DEFINE n == Len(s)
<1>1. n \in Nat /\ n <= Len(s) /\ DOMAIN s = 1 .. n
  OBVIOUS
<1>2. Selected(s, T) = Kept(s, T, n)
  BY SelectedIsKept
<1> HIDE DEF n
<1>3. \A x : (\E i \in DOMAIN Kept(s, T, n) : Kept(s, T, n)[i] = x) <=>
                 x \in T /\ \E i \in 1 .. n : s[i] = x
  BY <1>1, KeptElements
<1> QED BY <1>1, <1>2, <1>3

\* An element more at the end.
LEMMA SelectedAppend ==
    ASSUME NEW S, NEW s \in Seq(S), NEW x \in S, NEW T
    PROVE  Selected(Append(s, x), T) =
               IF x \in T THEN Append(Selected(s, T), x) ELSE Selected(s, T)
<1> DEFINE t == Append(s, x)
           n == Len(s)
<1>1. n \in Nat /\ Len(t) = n + 1 /\ t[n + 1] = x /\ \A i \in 1 .. n : t[i] = s[i]
  OBVIOUS
<1> HIDE DEF t
<1>2. Kept(t, T, n) = Kept(s, T, n)
  BY <1>1, KeptAgree
<1>3. Kept(t, T, n + 1) = IF x \in T THEN Append(Kept(t, T, n), x) ELSE Kept(t, T, n)
  BY <1>1, KeptStep
<1> QED BY <1>1, <1>2, <1>3, SelectedIsKept DEF t

\* The first elements of a list, selected, come first in the list selected.
LEMMA SelectedFirst ==
    ASSUME NEW S, NEW s \in Seq(S), NEW T, NEW n \in 0 .. Len(s)
    PROVE  LET a == Selected(SubSeq(s, 1, n), T)
               b == Selected(s, T)
           IN  Len(a) <= Len(b) /\ \A i \in 1 .. Len(a) : a[i] = b[i]
<1> DEFINE u == SubSeq(s, 1, n)
           a == Kept(s, T, n)
           Good(m) == LET b == Kept(s, T, m)
                      IN  Len(a) <= Len(b) /\ \A i \in 1 .. Len(a) : a[i] = b[i]
           P == {k \in Nat : n + k <= Len(s) => Good(n + k)}
<1>1. Len(u) = n /\ \A i \in 1 .. n : u[i] = s[i]
  OBVIOUS
<1>2. Selected(u, T) = a
  <2> HIDE DEF u
  <2> QED BY <1>1, KeptAgree, SelectedIsKept
<1>3. \A m \in Nat : m <= Len(s) => Kept(s, T, m) \in Seq(S \cap T)
  BY KeptType
<1>4. a \in Seq(S \cap T)
  BY <1>3
<1> HIDE DEF a
<1>5. 0 \in P
  <2>1. Kept(s, T, n + 0) = a
    BY DEF a
  <2> QED BY <1>4, <2>1
<1>6. ASSUME NEW k \in Nat, k \in P PROVE k + 1 \in P
  <2> SUFFICES ASSUME n + (k + 1) <= Len(s) PROVE Good(n + (k + 1))
    OBVIOUS
  <2> DEFINE b == Kept(s, T, n + k)
             x == s[(n + k) + 1]
             r == IF x \in T THEN Append(b, x) ELSE b
  <2>1. n + k \in Nat /\ (n + k) + 1 <= Len(s) /\ n + (k + 1) = (n + k) + 1
    OBVIOUS
  <2>2. Kept(s, T, n + (k + 1)) = r
    <3> DEFINE m == n + k
    <3>1. m \in Nat /\ m + 1 <= Len(s) /\ Len(s) \in Nat
      BY <2>1
    <3> HIDE DEF m
    <3>2. Kept(s, T, m + 1) = IF s[m + 1] \in T THEN Append(Kept(s, T, m), s[m + 1])
                              ELSE Kept(s, T, m)
      BY <3>1, KeptStep
    <3> QED BY <2>1, <3>2 DEF m
  <2>3. b \in Seq(S \cap T) /\ x \in S
    BY <1>3, <2>1
  <2>4. Len(a) <= Len(b) /\ \A i \in 1 .. Len(a) : a[i] = b[i]
    BY <1>6, <2>1
  <2> HIDE DEF b, x
  <2>5. Len(a) <= Len(r) /\ \A i \in 1 .. Len(a) : a[i] = r[i]
    BY <1>4, <2>3, <2>4
  <2> QED BY <2>2, <2>5
<1>7. Len(s) - n \in P
  <2> HIDE DEF P
  <2>1. Len(s) - n \in Nat
    OBVIOUS
  <2> QED BY <1>5, <1>6, <2>1, NaturalsGrow
<1>8. n + (Len(s) - n) = Len(s)
  OBVIOUS
<1> QED BY <1>2, <1>7, <1>8, SelectedIsKept

\* An element less at the beginning.
LEMMA SelectedTail ==
    ASSUME NEW S, NEW s \in Seq(S), s # <<>>, NEW T
    PROVE  Selected(s, T) = IF Head(s) \in T THEN <<Head(s)>> \o Selected(Tail(s), T)
                            ELSE Selected(Tail(s), T)
<1> DEFINE t == Tail(s)
           first == IF Head(s) \in T THEN <<Head(s)>> ELSE <<>>
           P == {k \in Nat : k <= Len(t) => Kept(s, T, k + 1) = first \o Kept(t, T, k)}
<1>1. /\ t \in Seq(S) /\ Len(s) = Len(t) + 1 /\ Len(t) \in Nat
      /\ Head(s) = s[1] /\ Head(s) \in S
      /\ \A i \in 1 .. Len(t) : t[i] = s[i + 1]
  OBVIOUS
<1>2. first \in Seq(S \cap T)
  <2>1. <<>> \in Seq(S \cap T) /\ \A x \in S \cap T : <<x>> \in Seq(S \cap T)
    OBVIOUS
  <2> QED BY <1>1, <2>1
<1> HIDE DEF t
<1>3. 0 \in P
  <2>1. Kept(t, T, 0) = <<>> /\ Kept(s, T, 0) = <<>>
    BY <1>1, KeptNothing
  <2>2. Kept(s, T, 0 + 1) = IF s[0 + 1] \in T THEN Append(Kept(s, T, 0), s[0 + 1])
                            ELSE Kept(s, T, 0)
    <3> DEFINE m == 0
    <3>1. m \in Nat /\ m + 1 <= Len(s) /\ Len(s) \in Nat
      BY <1>1
    <3> HIDE DEF m
    <3>2. Kept(s, T, m + 1) = IF s[m + 1] \in T THEN Append(Kept(s, T, m), s[m + 1])
                              ELSE Kept(s, T, m)
      BY <3>1, KeptStep
    <3> QED BY <3>2 DEF m
  <2>3. Kept(s, T, 0 + 1) = first
    <3>1. s[0 + 1] = Head(s) /\ Append(<<>>, Head(s)) = <<Head(s)>>
      BY <1>1
    <3> QED BY <2>1, <2>2, <3>1
  <2>4. first \o <<>> = first
    <3> HIDE DEF first
    <3> QED BY <1>2
  <2> QED BY <2>1, <2>3, <2>4
<1>4. ASSUME NEW k \in Nat, k \in P PROVE k + 1 \in P
  <2> SUFFICES ASSUME k + 1 <= Len(t)
               PROVE  Kept(s, T, (k + 1) + 1) = first \o Kept(t, T, k + 1)
    OBVIOUS
  <2> DEFINE b == Kept(t, T, k)
             x == t[k + 1]
  <2>1. b \in Seq(S \cap T) /\ x \in S
    BY <1>1, KeptType
  <2>2. Kept(s, T, k + 1) = first \o b
    BY <1>1, <1>4
  <2>3. Kept(t, T, k + 1) = IF x \in T THEN Append(b, x) ELSE b
    BY <1>1, KeptStep
  <2>4. Kept(s, T, (k + 1) + 1) = IF x \in T THEN Append(first \o b, x) ELSE first \o b
    <3> DEFINE m == k + 1
    <3>1. m \in Nat /\ m + 1 <= Len(s) /\ Len(s) \in Nat /\ s[m + 1] = x
      BY <1>1
    <3> HIDE DEF m
    <3>2. Kept(s, T, m + 1) = IF s[m + 1] \in T THEN Append(Kept(s, T, m), s[m + 1])
                              ELSE Kept(s, T, m)
      BY <3>1, KeptStep
    <3> QED BY <2>2, <3>1, <3>2 DEF m
  <2> HIDE DEF b, x, first
  <2>5. Append(first \o b, x) = first \o Append(b, x) \/ x \notin T
    BY <1>2, <2>1, SMTT(30)
  <2> QED BY <2>3, <2>4, <2>5
<1>5. Len(t) \in P
  <2> HIDE DEF P
  <2> QED BY <1>1, <1>3, <1>4, NaturalsGrow
<1>6. Selected(s, T) = first \o Selected(t, T)
  BY <1>1, <1>5, SelectedIsKept
<1>7. Selected(t, T) \in Seq(S \cap T)
  BY <1>1, SelectedType
<1> QED BY <1>6, <1>7 DEF t

-------------------------------------------------------------------------------
(* Queues of which the first part is under way.                            *)

LEMMA Associative ==
    ASSUME NEW S, NEW a \in Seq(S), NEW b \in Seq(S), NEW c \in Seq(S)
    PROVE  a \o b \o c = a \o (b \o c)
OBVIOUS

LEMMA LastComes ==
    ASSUME NEW S, NEW a \in Seq(S), NEW b \in Seq(S), NEW x \in S
    PROVE  Append(a \o b \o <<>>, x) = a \o b \o <<x>>
<1>1. a \o b \in Seq(S)
  OBVIOUS
<1> QED BY <1>1

LEMMA LastMoves ==
    ASSUME NEW S, NEW a \in Seq(S), NEW b \in Seq(S), NEW x \in S
    PROVE  a \o b \o <<x>> = a \o Append(b, x) \o <<>>
<1>1. a \o b \in Seq(S) /\ Append(b, x) \in Seq(S)
  OBVIOUS
<1>2. a \o Append(b, x) \in Seq(S) /\ a \o Append(b, x) = a \o b \o <<x>>
  BY <1>1
<1> QED BY <1>2

LEMMA FirstMoves ==
    ASSUME NEW S, NEW a \in Seq(S), NEW b \in Seq(S), b # <<>>, NEW c \in Seq(S)
    PROVE  a \o b \o c = Append(a, Head(b)) \o Tail(b) \o c
OBVIOUS

LEMMA FirstGoes ==
    ASSUME NEW S, NEW a \in Seq(S), NEW b \in Seq(S), NEW c \in Seq(S), NEW x \in S
    PROVE  Tail((<<x>> \o a) \o b \o c) = a \o b \o c
OBVIOUS

LEMMA FirstIs ==
    ASSUME NEW S, NEW a \in Seq(S), NEW b \in Seq(S), NEW c \in Seq(S), NEW x \in S
    PROVE  (<<x>> \o a) \o b \o c # <<>> /\ Head((<<x>> \o a) \o b \o c) = x
OBVIOUS

LEMMA LastAppends ==
    ASSUME NEW S, NEW a \in Seq(S), NEW b \in Seq(S), NEW c \in Seq(S), NEW x \in S
    PROVE  a \o b \o Append(c, x) = Append(a \o b \o c, x)
<1>1. a \o b \in Seq(S)
  OBVIOUS
<1> QED BY <1>1

\* In three parts, the first comes first.
LEMMA PartsAreFirst ==
    ASSUME NEW S, NEW a \in Seq(S), NEW b \in Seq(S), NEW c \in Seq(S)
    PROVE  /\ Len(a) <= Len(a \o b \o c)
           /\ \A i \in 1 .. Len(a) : a[i] = (a \o b \o c)[i]
OBVIOUS

\* Who takes the first answer, and the first command, stays in step.
LEMMA BothGo ==
    ASSUME NEW S, NEW a \in Seq(S), NEW p \in Seq(S), NEW x \in S,
           Len(<<x>> \o a) <= Len(p),
           \A i \in 1 .. Len(<<x>> \o a) : (<<x>> \o a)[i] = p[i]
    PROVE  /\ p # <<>> /\ Head(p) = x
           /\ Tail(p) \in Seq(S) /\ Len(Tail(p)) <= Len(p)
           /\ Len(a) <= Len(Tail(p)) /\ \A i \in 1 .. Len(a) : a[i] = Tail(p)[i]
<1>1. Len(<<x>> \o a) = Len(a) + 1 /\ Len(a) \in Nat /\ (<<x>> \o a)[1] = x
  OBVIOUS
<1>2. p # <<>> /\ Tail(p) \in Seq(S) /\ Len(Tail(p)) = Len(p) - 1 /\ Head(p) = p[1]
  BY <1>1
<1>3. ASSUME NEW i \in 1 .. Len(a) PROVE a[i] = Tail(p)[i]
  <2>1. i + 1 \in 1 .. Len(<<x>> \o a) /\ (<<x>> \o a)[i + 1] = a[i] /\ Tail(p)[i] = p[i + 1]
    BY <1>1, <1>2
  <2> QED BY <2>1
<1> QED BY <1>1, <1>2, <1>3
===============================================================================
