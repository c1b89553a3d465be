---------------------------- MODULE CliClientProofs ----------------------------
(***************************************************************************)
(* The terminal client, for any number of typed lines and any buffers.     *)
(* The answers under way are always the first that the client waits for,   *)
(* also when a server that goes away takes some of them with it: so the    *)
(* head of the client's list is the command that a line answers.           *)
(***************************************************************************)
EXTENDS CliClient, ListsProofs

-------------------------------------------------------------------------------
(* Which commands the lines under way answer.                              *)

\* BOOLEAN, as a set like any other.
Flag == BOOLEAN

AnswerLines == {l \in Lines : l.to # "nothing"}

\* For each of some answers: is it QUIT that it answers?
Flags(list) == [i \in DOMAIN list |-> list[i].to = "quit"]

LEMMA FlagsType ==
    ASSUME NEW S, NEW list \in Seq(S)
    PROVE  /\ Flags(list) \in Seq(BOOLEAN) /\ Len(Flags(list)) = Len(list)
           /\ \A i \in 1 .. Len(list) : Flags(list)[i] = (list[i].to = "quit")
<1>1. Flags(list) \in Seq(BOOLEAN) /\ Len(Flags(list)) = Len(list)
  <2>1. Flags(list) \in [DOMAIN list -> BOOLEAN]
    BY Zenon DEF Flags
  <2>2. \A B, f : f \in [DOMAIN list -> B] => f \in Seq(B) /\ Len(f) = Len(list)
    OBVIOUS
  <2> QED BY <2>1, <2>2
<1>2. DOMAIN list = 1 .. Len(list)
  OBVIOUS
<1>3. \A i \in DOMAIN list : Flags(list)[i] = (list[i].to = "quit")
  BY Zenon DEF Flags
<1> QED BY <1>1, <1>2, <1>3

LEMMA FlagsAppend ==
    ASSUME NEW S, NEW list \in Seq(S), NEW l \in S
    PROVE  Flags(Append(list, l)) = Append(Flags(list), l.to = "quit")
BY FlagsType DEF Flags

LEMMA FlagsFirst ==
    ASSUME NEW S, NEW list \in Seq(S), NEW l \in S
    PROVE  Flags(<<l>> \o list) = <<l.to = "quit">> \o Flags(list)
BY FlagsType DEF Flags

-------------------------------------------------------------------------------
(* The invariant.                                                          *)

Waited == Flags(Answers)

\* The answers under way are the first ones the client waits for.
AnswersFirst ==
    /\ Len(Waited) <= Len(pending)
    /\ \A i \in 1 .. Len(Waited) : Waited[i] = pending[i]

\* An event answers nothing, and only a session that has ended says so to QUIT.
LinesOK ==
    \A i \in DOMAIN down :
        /\ down[i].text = "evt" <=> down[i].to = "nothing"
        /\ down[i].text = "bye" /\ down[i].to = "quit" => server = "quit"

EndsWhenTold == acknowledged \/ left => server = "quit"

\* Only typed lines are waited for.
Typed == Len(pending) <= typed

IInv == TypeOK /\ Typed /\ PendingInOrder /\ AnswersFirst /\ LinesOK /\ EndsWhenTold

\* While the server runs the list is in three parts.
LEMMA PendingParts ==
    ASSUME TypeOK
    PROVE  /\ Waited \in Seq(Flag) /\ Len(Waited) = Len(Answers)
           /\ Answers \in Seq(AnswerLines)
           /\ up \in Seq(Flag) /\ Unsent \in Seq(Flag) /\ pending \in Seq(Flag)
           /\ PendingInOrder <=> (server = "open" => pending = Waited \o up \o Unsent)
<1>1. Answers \in Seq(AnswerLines)
  <2>1. down \in Seq(Lines) /\ Lines \cap AnswerLines = AnswerLines
    BY DEF TypeOK, AnswerLines
  <2> QED BY <2>1, SelectedType DEF Answers, AnswerLines
<1>2. Waited \in Seq(BOOLEAN) /\ Len(Waited) = Len(Answers)
  BY <1>1, FlagsType DEF Waited
<1>3. Unsent \in Seq(BOOLEAN)
  <2>1. \A B, x : x \in B => <<x>> \in Seq(B) /\ <<>> \in Seq(B)
    OBVIOUS
  <2> QED BY <2>1 DEF TypeOK, Unsent
<1>4. up \in Seq(BOOLEAN) /\ pending \in Seq(BOOLEAN)
  BY DEF TypeOK
<1>5. PendingInOrder <=> (server = "open" => pending = Waited \o up \o Unsent)
  BY DEF PendingInOrder, Waited, Flags
<1> QED BY <1>1, <1>2, <1>3, <1>4, <1>5 DEF Flag

LEMMA InitInv == Init => IInv
<1> SUFFICES ASSUME Init PROVE IInv
  OBVIOUS
<1>1. TypeOK /\ Typed
  <2>1. \A B : <<>> \in Seq(B) /\ Len(<<>>) = 0
    OBVIOUS
  <2>2. 0 <= 0 /\ 0 <= MaxTyped /\ 0 \in 0 .. MaxTyped
    BY BoundsAssumption
  <2> QED BY <2>1, <2>2 DEF Init, TypeOK, Typed
<1>2. Answers = <<>> /\ Waited = <<>>
  BY SelectedNothing DEF Init, Answers, Waited, Flags
<1>3. PendingInOrder
  <2>1. Waited \o up \o Unsent = <<>>
    BY <1>2 DEF Init, Unsent
  <2> QED BY <1>1, <2>1, PendingParts DEF Init
<1>4. AnswersFirst
  BY <1>2 DEF AnswersFirst, Init
<1>5. LinesOK /\ EndsWhenTold
  BY DEF Init, LinesOK, EndsWhenTold
<1> QED BY <1>1, <1>3, <1>4, <1>5 DEF IInv

-------------------------------------------------------------------------------
(* The main loop.                                                          *)

\* The types, of what the main loop changes and of what the others do.
LEMMA MainTypes ==
    ASSUME TypeOK, Typed, Main \/ EndOfInput
    PROVE  TypeOK' /\ Typed'
<1>1. ASSUME NEW isQuit \in BOOLEAN, Type(isQuit) PROVE TypeOK' /\ Typed'
  <2>1. pending' = Append(pending, isQuit) /\ typed' = typed + 1 /\ typed < MaxTyped
    BY <1>1 DEF Type, Listed
  <2>2. \A B, s, x : s \in Seq(B) /\ x \in B =>
           Append(s, x) \in Seq(B) /\ Len(Append(s, x)) = Len(s) + 1 /\ Len(s) \in Nat
    OBVIOUS
  <2>3. pending' \in Seq(BOOLEAN) /\ Len(pending') = Len(pending) + 1 /\ Len(pending) \in Nat
    BY <2>1, <2>2 DEF TypeOK
  <2>4. typed' \in 0 .. MaxTyped /\ Len(pending') <= typed'
    BY <2>1, <2>3, BoundsAssumption DEF TypeOK, Typed
  <2>5. Len(pending') <= MaxTyped
    BY <2>3, <2>4, BoundsAssumption
  <2> QED BY <1>1, <2>3, <2>4, <2>5 DEF Type, TypeOK, Typed
<1>2. ASSUME Send PROVE TypeOK' /\ Typed'
  <2>1. \A B, s, x : s \in Seq(B) /\ x \in B => Append(s, x) \in Seq(B)
    OBVIOUS
  <2>2. up' \in Seq(BOOLEAN)
    BY <1>2, <2>1 DEF Send, TypeOK
  <2> QED BY <1>2, <2>2 DEF Send, TypeOK, Typed
<1>3. ASSUME SendFails \/ EndOfInput \/ CloseWrite \/ Acknowledged \/ Rejected \/ Disconnected
      PROVE  TypeOK' /\ Typed'
  <2>1. CASE SendFails
    BY <2>1 DEF SendFails, TypeOK, Typed
  <2>2. CASE EndOfInput
    BY <2>2 DEF EndOfInput, TypeOK, Typed
  <2>3. CASE CloseWrite
    <3>1. upOpen' \in BOOLEAN /\ input' \in {"open", "ended", "nil"} /\ main' \in {"select", "ended"}
      BY <2>3 DEF CloseWrite, HalfClosed, TypeOK
    <3>2. UNCHANGED <<typed, line, pending, acknowledged, rejected, serverDone,
                      reader, up, down, server, left>>
      BY <2>3 DEF CloseWrite
    <3> QED BY <3>1, <3>2 DEF TypeOK, Typed
  <2>4. CASE Acknowledged
    BY <2>4 DEF Acknowledged, TypeOK, Typed
  <2>5. CASE Rejected
    BY <2>5 DEF Rejected, TypeOK, Typed
  <2>6. CASE Disconnected
    BY <2>6 DEF Disconnected, TypeOK, Typed
  <2> QED BY <1>3, <2>1, <2>2, <2>3, <2>4, <2>5, <2>6
<1> QED BY <1>1, <1>2, <1>3 DEF Main

\* A step that neither sends, reads nor answers.
LEMMA QueuesStay ==
    ASSUME IInv, TypeOK', Typed', EndsWhenTold', UNCHANGED <<pending, up, down>>,
           server' = server \/ (server' = "closed" /\ server = "open"),
           server' = "open" => Unsent' = Unsent
    PROVE  IInv'
<1>1. Answers' = Answers /\ Waited' = Waited
  BY DEF Answers, Waited, Flags
<1>2. PendingInOrder'
  BY <1>1 DEF PendingInOrder, IInv
<1>3. AnswersFirst'
  BY <1>1 DEF AnswersFirst, IInv
<1>4. LinesOK'
  BY DEF LinesOK, IInv
<1> QED BY <1>2, <1>3, <1>4 DEF IInv

LEMMA TypeKeeps ==
    ASSUME IInv, NEW isQuit, isQuit \in Flag, Type(isQuit)
    PROVE  IInv'
<1>1. TypeOK /\ TypeOK' /\ Typed'
  BY MainTypes DEF IInv, Main, Flag
<1>2. Answers' = Answers /\ Waited' = Waited /\ up' = up /\ server' = server
  BY DEF Type, Answers, Waited, Flags
<1>3. pending' = Append(pending, isQuit) /\ Unsent = <<>> /\ Unsent' = <<isQuit>>
  BY DEF Type, Listed, Unsent
<1>4. PendingInOrder'
  <2>1. server = "open" => pending = Waited \o up \o <<>>
    BY <1>1, <1>3, PendingParts DEF IInv
  <2>2. server = "open" => pending' = Waited \o up \o <<isQuit>>
    <3>1. Waited \in Seq(Flag) /\ up \in Seq(Flag)
      BY <1>1, PendingParts
    <3>2. Append(Waited \o up \o <<>>, isQuit) = Waited \o up \o <<isQuit>>
      BY <3>1, LastComes
    <3> QED BY <1>3, <2>1, <3>2
  <2> QED BY <1>2, <1>3, <2>2 DEF PendingInOrder, Waited, Flags
<1>5. AnswersFirst'
  <2>1. \A B, s, x : s \in Seq(B) /\ x \in B =>
           /\ Len(Append(s, x)) = Len(s) + 1 /\ Len(s) \in Nat
           /\ \A i \in 1 .. Len(s) : Append(s, x)[i] = s[i]
    OBVIOUS
  <2>2. /\ Len(pending') = Len(pending) + 1 /\ Len(pending) \in Nat /\ Len(Waited) \in Nat
        /\ \A i \in 1 .. Len(pending) : pending'[i] = pending[i]
    BY <1>1, <1>3, <2>1, PendingParts
  <2>3. /\ Len(Waited) <= Len(pending)
        /\ \A i \in 1 .. Len(Waited) : Waited[i] = pending[i]
    BY DEF IInv, AnswersFirst
  <2>4. Len(Waited) <= Len(pending')
    BY <2>2, <2>3
  <2>5. \A i \in 1 .. Len(Waited) : Waited[i] = pending'[i]
    <3>1. \A i \in 1 .. Len(Waited) : i \in 1 .. Len(pending)
      BY <2>2, <2>3
    <3> QED BY <2>2, <2>3, <3>1
  <2> QED BY <1>2, <2>4, <2>5 DEF AnswersFirst
<1>6. LinesOK' /\ EndsWhenTold'
  BY DEF Type, IInv, LinesOK, EndsWhenTold
<1> QED BY <1>1, <1>4, <1>5, <1>6 DEF IInv

LEMMA SendKeeps == IInv /\ Send => IInv'
<1> SUFFICES ASSUME IInv, Send PROVE IInv'
  OBVIOUS
<1>1. TypeOK /\ TypeOK' /\ Typed'
  BY MainTypes DEF IInv, Main
<1>2. Answers' = Answers /\ Waited' = Waited /\ pending' = pending /\ server' = server
  BY DEF Send, Answers, Waited, Flags
<1>3. up' = Append(up, line) /\ Unsent = <<line>> /\ Unsent' = <<>> /\ line \in BOOLEAN
  BY DEF Send, Unsent, IInv, TypeOK
<1>4. PendingInOrder'
  <2>1. server = "open" => pending = Waited \o up \o <<line>>
    BY <1>1, <1>3, PendingParts DEF IInv
  <2>2. Waited \in Seq(Flag) /\ up \in Seq(Flag) /\ line \in Flag
    BY <1>1, PendingParts DEF TypeOK, Flag
  <2>3. Waited \o up \o <<line>> = Waited \o Append(up, line) \o <<>>
    BY <2>2, LastMoves
  <2> QED BY <1>2, <1>3, <2>1, <2>3 DEF PendingInOrder, Waited, Flags
<1>5. AnswersFirst'
  BY <1>2 DEF AnswersFirst, IInv
<1>6. LinesOK' /\ EndsWhenTold'
  BY DEF Send, IInv, LinesOK, EndsWhenTold
<1> QED BY <1>1, <1>4, <1>5, <1>6 DEF IInv

LEMMA LoopKeeps ==
    IInv /\ (SendFails \/ EndOfInput \/ CloseWrite \/ Acknowledged \/ Rejected \/ Disconnected)
        => IInv'
<1> SUFFICES ASSUME IInv, SendFails \/ EndOfInput \/ CloseWrite \/ Acknowledged
                          \/ Rejected \/ Disconnected
             PROVE  IInv'
  OBVIOUS
<1>1. TypeOK' /\ Typed'
  BY MainTypes DEF IInv, Main
<1>2. EndsWhenTold'
  BY DEF IInv, EndsWhenTold, SendFails, EndOfInput, CloseWrite, Acknowledged, Rejected,
         Disconnected
<1>3. UNCHANGED <<pending, up, down, server>>
  BY DEF SendFails, EndOfInput, CloseWrite, Acknowledged, Rejected, Disconnected
<1>4. server' = "open" => Unsent' = Unsent
  BY DEF Unsent, SendFails, EndOfInput, CloseWrite, Acknowledged, Rejected, Disconnected
<1>5. server' = server
  BY <1>3
<1> QED BY <1>1, <1>2, <1>3, <1>4, <1>5, QueuesStay

-------------------------------------------------------------------------------
(* The goroutine that reads.                                               *)

\* The first line under way.
LEMMA FirstLine ==
    ASSUME IInv, down # <<>>, NEW l, l = Head(down)
    PROVE  /\ l \in Lines /\ Tail(down) \in Seq(Lines)
           /\ l.text = "evt" <=> l.to = "nothing"
           /\ l.text = "bye" /\ l.to = "quit" => server = "quit"
           /\ \A i \in DOMAIN Tail(down) :
                 i + 1 \in DOMAIN down /\ Tail(down)[i] = down[i + 1]
<1>1. down \in Seq(Lines)
  BY DEF IInv, TypeOK
<1>2. 1 \in DOMAIN down /\ l = down[1]
  BY <1>1
<1>3. l \in Lines /\ Tail(down) \in Seq(Lines)
  BY <1>1
<1>4. \A i \in DOMAIN Tail(down) : i + 1 \in DOMAIN down /\ Tail(down)[i] = down[i + 1]
  BY <1>1
<1> QED BY <1>2, <1>3, <1>4 DEF IInv, LinesOK

LEMMA ReadKeeps == IInv /\ Read => IInv'
<1> SUFFICES ASSUME IInv, Read PROVE IInv'
  OBVIOUS
<1> DEFINE l == Head(down)
<1>1. /\ down # <<>> /\ down' = Tail(down) /\ server' = server /\ up' = up /\ left' = left
      /\ Unsent' = Unsent /\ typed' = typed
  BY DEF Read, Unsent
<1>2. /\ l \in Lines /\ down' \in Seq(Lines)
      /\ l.text = "evt" <=> l.to = "nothing"
      /\ l.text = "bye" /\ l.to = "quit" => server = "quit"
      /\ \A i \in DOMAIN down' : i + 1 \in DOMAIN down /\ down'[i] = down[i + 1]
  BY <1>1, FirstLine
<1>3. LinesOK'
  BY <1>1, <1>2 DEF IInv, LinesOK
<1>4. Answers = IF l \in AnswerLines THEN <<l>> \o Answers' ELSE Answers'
  BY <1>1, SelectedTail DEF Answers, AnswerLines, IInv, TypeOK
<1>5. Answers' \in Seq(AnswerLines)
  <2>1. Lines \cap AnswerLines = AnswerLines
    BY DEF AnswerLines
  <2> QED BY <1>2, <2>1, SelectedType DEF Answers, AnswerLines
<1>6. Waited' \in Seq(Flag) /\ Len(Waited') = Len(Answers')
  BY <1>5, FlagsType DEF Waited, Flag
<1>7. TypeOK /\ Typed /\ PendingInOrder /\ AnswersFirst
  BY DEF IInv
<1>8. CASE l.text = "evt"
  <2>1. Answers' = Answers /\ Waited' = Waited
    BY <1>2, <1>4, <1>8 DEF AnswerLines, Waited, Flags
  <2>2. UNCHANGED <<pending, acknowledged, rejected>>
    BY <1>8 DEF Read, IsResponse
  <2>3. TypeOK' /\ Typed' /\ EndsWhenTold'
    BY <1>1, <1>2, <2>2 DEF Read, IInv, TypeOK, Typed, EndsWhenTold
  <2>4. PendingInOrder'
    BY <1>1, <1>7, <2>1, <2>2 DEF PendingInOrder
  <2>5. AnswersFirst'
    BY <1>7, <2>1, <2>2 DEF AnswersFirst
  <2> QED BY <1>3, <2>3, <2>4, <2>5 DEF IInv
<1>9. CASE l.text # "evt"
  <2>1. l \in AnswerLines /\ Answers = <<l>> \o Answers'
    BY <1>2, <1>4, <1>9 DEF AnswerLines
  <2> DEFINE f == l.to = "quit"
  <2>2. Waited = <<f>> \o Waited' /\ f \in Flag
    BY <1>5, <2>1, FlagsFirst DEF Waited, Flag
  <2>3. /\ pending' = IF pending = <<>> THEN pending ELSE Tail(pending)
        /\ acknowledged' = (acknowledged \/ (IsQuit /\ l.text = "bye"))
        /\ rejected' \in BOOLEAN
    BY <1>9 DEF Read, IsResponse
  <2>4. pending \in Seq(Flag) /\ up \in Seq(Flag) /\ Unsent \in Seq(Flag)
    BY <1>7, PendingParts
  <2> HIDE DEF f
  <2>5. /\ Len(<<f>> \o Waited') <= Len(pending)
        /\ \A i \in 1 .. Len(<<f>> \o Waited') : (<<f>> \o Waited')[i] = pending[i]
    BY <1>7, <2>2 DEF AnswersFirst
  <2>6. /\ pending # <<>> /\ Head(pending) = f
        /\ Tail(pending) \in Seq(Flag) /\ Len(Tail(pending)) <= Len(pending)
        /\ Len(Waited') <= Len(Tail(pending))
        /\ \A i \in 1 .. Len(Waited') : Waited'[i] = Tail(pending)[i]
    BY <1>6, <2>2, <2>4, <2>5, BothGo
  <2>7. pending' = Tail(pending)
    BY <2>3, <2>6
  <2>8. TypeOK' /\ Typed'
    <3>1. Len(pending') \in Nat /\ Len(pending) \in Nat
      BY <2>4, <2>6, <2>7
    <3>2. Len(pending') <= MaxTyped /\ Len(pending') <= typed'
      BY <1>1, <1>7, <2>6, <2>7, <3>1, BoundsAssumption DEF TypeOK, Typed
    <3>3. pending' \in Seq(BOOLEAN) /\ acknowledged' \in BOOLEAN
      BY <2>3, <2>6, <2>7 DEF Flag
    <3> QED BY <1>1, <1>2, <1>7, <2>3, <3>2, <3>3 DEF Read, TypeOK, Typed
  <2>9. PendingInOrder'
    <3>1. server = "open" => pending = (<<f>> \o Waited') \o up \o Unsent
      BY <1>7, <2>2, PendingParts
    <3> DEFINE w == Waited'
    <3>2. w \in Seq(Flag)
      BY <1>6
    <3> HIDE DEF w
    <3>3. Tail((<<f>> \o w) \o up \o Unsent) = w \o up \o Unsent
      <4>1. f \in Flag
        BY <2>2
      <4>2. up \in Seq(Flag) /\ Unsent \in Seq(Flag)
        BY <2>4
      <4> QED BY <4>1, <4>2, <3>2, FirstGoes, SMTT(30)
    <3> QED BY <1>1, <2>7, <3>1, <3>3 DEF PendingInOrder, Waited, Flags, w
  <2>10. AnswersFirst'
    BY <2>6, <2>7 DEF AnswersFirst
  <2>11. EndsWhenTold'
    <3>1. IsQuit /\ l.text = "bye" => server = "quit"
      BY <1>2, <2>6 DEF IsQuit, f
    <3> QED BY <1>1, <2>3, <3>1 DEF IInv, EndsWhenTold
  <2> QED BY <1>3, <2>8, <2>9, <2>10, <2>11 DEF IInv
<1> QED BY <1>8, <1>9

LEMMA ReaderEndsKeeps == IInv /\ ReaderEnds => IInv'
<1> SUFFICES ASSUME IInv, ReaderEnds PROVE IInv'
  OBVIOUS
<1>1. TypeOK' /\ Typed' /\ EndsWhenTold'
  BY DEF ReaderEnds, IInv, TypeOK, Typed, EndsWhenTold
<1>2. UNCHANGED <<pending, up, down>> /\ server' = server /\ Unsent' = Unsent
  BY DEF ReaderEnds, Unsent
<1> QED BY <1>1, <1>2, QueuesStay

-------------------------------------------------------------------------------
(* The server.                                                             *)

\* A line more under way.
LEMMA LineMore ==
    ASSUME IInv, NEW l \in Lines, down' = Append(down, l)
    PROVE  /\ down' \in Seq(Lines)
           /\ Answers' = IF l \in AnswerLines THEN Append(Answers, l) ELSE Answers
           /\ \A i \in DOMAIN down' : (i \in DOMAIN down /\ down'[i] = down[i]) \/ down'[i] = l
<1>1. down \in Seq(Lines)
  BY DEF IInv, TypeOK
<1>2. Answers' = IF l \in AnswerLines THEN Append(Answers, l) ELSE Answers
  BY <1>1, SelectedAppend DEF Answers, AnswerLines
<1> QED BY <1>1, <1>2

LEMMA AnswerKeeps == IInv /\ Answer => IInv'
<1> SUFFICES ASSUME IInv, Answer PROVE IInv'
  OBVIOUS
<1>1. /\ server = "open" /\ up # <<>> /\ up' = Tail(up) /\ pending' = pending
      /\ Unsent' = Unsent
  BY DEF Answer, Unsent
<1>2. PICK l \in Lines :
         /\ down' = Append(down, l)
         /\ l.to = (IF Head(up) THEN "quit" ELSE "command")
         /\ l.text # "evt"
         /\ server' \in {"open", "quit"}
         /\ l.text = "bye" /\ l.to = "quit" => server' = "quit"
  <2>1. PICK text \in {"bye", "ok", "err"}, to \in {"quit", "command"} :
           /\ down' = Append(down, [text |-> text, to |-> to])
           /\ to = (IF Head(up) THEN "quit" ELSE "command")
           /\ server' \in {"open", "quit"}
           /\ text = "bye" /\ to = "quit" => server' = "quit"
    <3>1. CASE Head(up)
      BY <1>1, <3>1 DEF Answer
    <3>2. CASE ~Head(up)
      BY <1>1, <3>2 DEF Answer
    <3> QED BY <3>1, <3>2
  <2> DEFINE l == [text |-> text, to |-> to]
  <2>2. l \in Lines /\ l.text = text /\ l.to = to
    BY DEF Lines
  <2> HIDE DEF l
  <2>3. down' = Append(down, l)
    BY <2>1 DEF l
  <2>4. l.text # "evt"
    BY <2>2
  <2> QED BY <2>1, <2>2, <2>3, <2>4
<1>3. /\ down' \in Seq(Lines) /\ Answers' = Append(Answers, l)
      /\ \A i \in DOMAIN down' : (i \in DOMAIN down /\ down'[i] = down[i]) \/ down'[i] = l
  <2>1. l \in AnswerLines
    BY <1>2 DEF AnswerLines
  <2> QED BY <1>2, <2>1, LineMore
<1>4. TypeOK /\ Typed /\ PendingInOrder
  BY DEF IInv
<1>5. /\ Waited \in Seq(Flag) /\ up \in Seq(Flag) /\ Unsent \in Seq(Flag)
      /\ Answers \in Seq(AnswerLines) /\ pending = Waited \o up \o Unsent
  BY <1>1, <1>4, PendingParts
<1>6. Head(up) \in Flag /\ Tail(up) \in Seq(Flag)
  BY <1>1, <1>5
<1>7. Waited' = Append(Waited, Head(up))
  <2>1. l \in AnswerLines
    BY <1>2 DEF AnswerLines
  <2>2. Waited' = Append(Waited, l.to = "quit")
    BY <1>3, <1>5, <2>1, FlagsAppend DEF Waited
  <2>3. (l.to = "quit") = Head(up)
    BY <1>2, <1>6 DEF Flag
  <2> QED BY <2>2, <2>3
<1>8. pending' = Waited' \o up' \o Unsent'
  BY <1>1, <1>5, <1>7, FirstMoves, SMTT(30)
<1>9. TypeOK' /\ Typed'
  <2>1. UNCHANGED <<typed, input, main, line, pending, acknowledged, rejected,
                    serverDone, reader, upOpen, left>>
    BY <1>1 DEF Answer
  <2>2. up' \in Seq(BOOLEAN) /\ down' \in Seq(Lines) /\ server' \in {"open", "quit", "closed"}
    BY <1>1, <1>2, <1>3, <1>6 DEF Flag
  <2> QED BY <1>4, <2>1, <2>2 DEF TypeOK, Typed
<1>10. PendingInOrder'
  BY <1>8 DEF PendingInOrder, Waited, Flags
<1>11. AnswersFirst'
  <2>1. Waited' \in Seq(Flag) /\ up' \in Seq(Flag) /\ Unsent' \in Seq(Flag)
    BY <1>1, <1>5, <1>6, <1>7
  <2>2. \A a, b, c \in Seq(Flag) :
           /\ Len(a) <= Len(a \o b \o c)
           /\ \A i \in 1 .. Len(a) : a[i] = (a \o b \o c)[i]
    BY PartsAreFirst
  <2> QED BY <1>8, <2>1, <2>2 DEF AnswersFirst
<1>12. LinesOK' /\ EndsWhenTold'
  <2>1. LinesOK'
    BY <1>1, <1>2, <1>3 DEF IInv, LinesOK
  <2>2. acknowledged' = acknowledged /\ left' = left
    BY DEF Answer
  <2> QED BY <1>1, <2>1, <2>2 DEF IInv, EndsWhenTold
<1> QED BY <1>9, <1>10, <1>11, <1>12 DEF IInv

LEMMA EventKeeps == IInv /\ Event => IInv'
<1> SUFFICES ASSUME IInv, Event PROVE IInv'
  OBVIOUS
<1> DEFINE l == [text |-> "evt", to |-> "nothing"]
<1>1. l \in Lines /\ down' = Append(down, l) /\ l \notin AnswerLines
  BY DEF Event, Lines, AnswerLines
<1>2. /\ down' \in Seq(Lines) /\ Answers' = Answers
      /\ \A i \in DOMAIN down' : (i \in DOMAIN down /\ down'[i] = down[i]) \/ down'[i] = l
  BY <1>1, LineMore
<1>3. Waited' = Waited
  BY <1>2 DEF Waited, Flags
<1>4. TypeOK' /\ Typed' /\ EndsWhenTold'
  BY <1>2 DEF Event, IInv, TypeOK, Typed, EndsWhenTold
<1>5. PendingInOrder' /\ AnswersFirst'
  BY <1>2, <1>3 DEF Event, IInv, PendingInOrder, AnswersFirst, Unsent
<1>6. LinesOK'
  BY <1>2 DEF Event, IInv, LinesOK
<1> QED BY <1>4, <1>5, <1>6 DEF IInv

LEMMA ServerSeesEndKeeps == IInv /\ ServerSeesEnd => IInv'
<1> SUFFICES ASSUME IInv, ServerSeesEnd PROVE IInv'
  OBVIOUS
<1>1. TypeOK' /\ Typed' /\ EndsWhenTold'
  BY DEF ServerSeesEnd, IInv, TypeOK, Typed, EndsWhenTold
<1>2. UNCHANGED <<pending, up, down>> /\ server' = "closed" /\ server = "open"
  BY DEF ServerSeesEnd
<1> QED BY <1>1, <1>2, QueuesStay

\* Whatever is lost, the answers that arrive are the first.
LEMMA ServerGoneKeeps == IInv /\ ServerGone => IInv'
<1> SUFFICES ASSUME IInv, ServerGone PROVE IInv'
  OBVIOUS
<1>1. PICK n \in 0 .. Len(down) : down' = SubSeq(down, 1, n)
  BY DEF ServerGone
<1>2. server = "open" /\ server' = "closed" /\ pending' = pending
  BY DEF ServerGone
<1>3. down \in Seq(Lines)
  BY DEF IInv, TypeOK
<1>4. /\ down' \in Seq(Lines)
      /\ \A i \in DOMAIN down' : i \in DOMAIN down /\ down'[i] = down[i]
  BY <1>1, <1>3
<1>5. /\ Len(Answers') <= Len(Answers)
      /\ \A i \in 1 .. Len(Answers') : Answers'[i] = Answers[i]
  BY <1>1, <1>3, SelectedFirst DEF Answers
<1>6. Answers \in Seq(AnswerLines) /\ Answers' \in Seq(AnswerLines)
  <2>1. Lines \cap AnswerLines = AnswerLines
    BY DEF AnswerLines
  <2> QED BY <1>3, <1>4, <2>1, SelectedType DEF Answers, AnswerLines
<1>7. TypeOK' /\ Typed'
  BY <1>4 DEF ServerGone, IInv, TypeOK, Typed
<1>8. PendingInOrder'
  BY <1>2 DEF PendingInOrder
<1>9. AnswersFirst'
  <2>1. /\ Len(Waited) = Len(Answers) /\ Len(Waited') = Len(Answers')
        /\ \A i \in 1 .. Len(Answers) : Waited[i] = (Answers[i].to = "quit")
        /\ \A i \in 1 .. Len(Answers') : Waited'[i] = (Answers'[i].to = "quit")
    BY <1>6, FlagsType DEF Waited
  <2>2. Len(Answers') \in Nat /\ Len(Answers) \in Nat /\ Len(pending) \in Nat
    BY <1>6 DEF IInv, TypeOK
  <2>3. \A i \in 1 .. Len(Answers') : i \in 1 .. Len(Answers)
    BY <1>5, <2>2
  <2>4. \A i \in 1 .. Len(Answers') : Waited'[i] = Waited[i]
    BY <1>5, <2>1, <2>3
  <2>5. /\ Len(Waited) <= Len(pending)
        /\ \A i \in 1 .. Len(Waited) : Waited[i] = pending[i]
    BY DEF IInv, AnswersFirst
  <2>6. Len(Waited') <= Len(pending')
    BY <1>2, <1>5, <2>1, <2>2, <2>5
  <2>7. \A i \in 1 .. Len(Waited') : Waited'[i] = pending'[i]
    BY <1>2, <2>1, <2>3, <2>4, <2>5
  <2> QED BY <2>6, <2>7 DEF AnswersFirst
<1>10. LinesOK'
  BY <1>2, <1>4 DEF IInv, LinesOK
<1>11. EndsWhenTold'
  BY <1>2 DEF ServerGone, IInv, EndsWhenTold
<1> QED BY <1>7, <1>8, <1>9, <1>10, <1>11 DEF IInv

-------------------------------------------------------------------------------

LEMMA NextKeeps == IInv /\ [Next]_vars => IInv'
<1> SUFFICES ASSUME IInv, [Next]_vars PROVE IInv'
  OBVIOUS
<1>1. CASE UNCHANGED vars
  <2>1. UNCHANGED <<pending, up, down>> /\ server' = server /\ Unsent' = Unsent
    BY <1>1 DEF vars, Unsent
  <2>2. TypeOK' /\ Typed' /\ EndsWhenTold'
    BY <1>1 DEF vars, IInv, TypeOK, Typed, EndsWhenTold
  <2> QED BY <2>1, <2>2, QueuesStay
<1>2. CASE Main
  <2>1. \A isQuit \in BOOLEAN : Type(isQuit) => IInv'
    BY TypeKeeps DEF Flag
  <2> QED BY <1>2, <2>1, SendKeeps, LoopKeeps DEF Main
<1>3. CASE EndOfInput
  BY <1>3, LoopKeeps
<1>4. CASE Reader
  BY <1>4, ReadKeeps, ReaderEndsKeeps DEF Reader
<1>5. CASE Answer \/ Event \/ ServerSeesEnd \/ ServerGone
  BY <1>5, AnswerKeeps, EventKeeps, ServerSeesEndKeeps, ServerGoneKeeps
<1> QED BY <1>1, <1>2, <1>3, <1>4, <1>5 DEF Next

LEMMA Invariant == Spec => []IInv
BY InitInv, NextKeeps, PTL DEF Spec

\* While the connection stands, the list of pending commands is what is still
\* to be answered, in order.
THEOREM PendingIsInOrder == Spec => []PendingInOrder
<1>1. IInv => PendingInOrder
  BY DEF IInv
<1> QED BY <1>1, Invariant, PTL

\* A client that leaves on an answer was told that its session has ended.
THEOREM LeavesOnlyWhenTold == Spec => []LeavesWhenTold
<1>1. IInv => LeavesWhenTold
  BY DEF IInv, EndsWhenTold, LeavesWhenTold
<1> QED BY <1>1, Invariant, PTL
===============================================================================
