--------------------------- MODULE ClientConnProofs ---------------------------
(***************************************************************************)
(* A connection keeps the order of its lines and answers truthfully, for   *)
(* every capacity of the queue.  Lines are numbered as they are accepted;  *)
(* as long as the writer runs, the accepted lines are those written, the   *)
(* one being written and those in the queue, in this order.                *)
(***************************************************************************)
EXTENDS ClientConn, SequenceTheorems, TLAPS

\* Lines carry their numbers, and what was written is what was accepted first.
Written ==
    /\ \A k \in 1 .. Len(accepted) : accepted[k].id = k
    /\ Len(sent) <= Len(accepted)
    /\ \A k \in 1 .. Len(sent) : sent[k] = accepted[k]

\* A writer that has not failed has the rest.
Ahead ==
    loop \in {"select", "write"} =>
        /\ Len(accepted) = Len(sent) + Len(writing) + Len(out)
        /\ \A k \in 1 .. Len(writing) : writing[k] = accepted[Len(sent) + k]
        /\ \A k \in 1 .. Len(out) : out[k] = accepted[Len(sent) + Len(writing) + k]

\* A handler waits for one line at most, and hears of success once it is written.
Reported ==
    /\ handler # "wait" => awaited = 0 /\ result = "none"
    /\ result = "ok" => awaited \in 1 .. Len(sent)
    /\ answered \subseteq 1 .. Len(sent)

\* The bound leaves room for a handler that is inside Write.
Budgeted ==
    /\ Len(accepted) <= MaxLines
    /\ handler = "send" => Len(accepted) < MaxLines /\ reply \in Replies

ConnInv == TypeOK /\ Written /\ Ahead /\ Reported /\ Budgeted

USE CapAssumption, MaxLinesAssumption

LEMMA InitConn == Init => ConnInv
<1> SUFFICES ASSUME Init PROVE ConnInv
  OBVIOUS
<1> USE DEF Init
<1>1. /\ <<>> \in Seq(Lines) /\ Len(<<>>) = 0
      /\ "hello" \in Replies /\ 0 \in 0 .. MaxLines
  BY DEF Replies, Spoken
<1>2. TypeOK
  <2>1. /\ out \in Seq(Lines) /\ Len(out) <= Cap
        /\ accepted \in Seq(Lines) /\ sent \in Seq(Lines)
        /\ writing \in Seq(Lines) /\ Len(writing) = 0
    BY <1>1
  <2>2. answered \subseteq 1 .. MaxLines /\ awaited \in 0 .. MaxLines
    BY <1>1
  <2> QED BY <1>1, <2>1, <2>2 DEF TypeOK
<1>3. Written /\ Ahead
  BY <1>1 DEF Written, Ahead
<1>4. Reported /\ Budgeted
  BY <1>1 DEF Reported, Budgeted
<1> QED BY <1>2, <1>3, <1>4 DEF ConnInv

\* A line that is accepted gets the next number and goes to the end.
LEMMA EnqueueInv ==
    ASSUME ConnInv, NEW kind \in Replies \cup {"event"}, Enqueue(kind),
           Len(accepted) < MaxLines, UNCHANGED <<writer, loop>>
    PROVE  /\ out' \in Seq(Lines) /\ Len(out') <= Cap
           /\ accepted' \in Seq(Lines) /\ Len(accepted') = Len(accepted) + 1
           /\ accepted'[Len(accepted')].id = NextId
           /\ Written' /\ Ahead'
<1> DEFINE line == [id |-> NextId, kind |-> kind]
<1> USE DEF ConnInv, TypeOK, Enqueue, Full, NextId, writer
<1>1. line \in Lines
  BY DEF Lines
<1>2. /\ accepted' = Append(accepted, line) /\ out' = Append(out, line)
      /\ Len(out) < Cap
      /\ UNCHANGED <<sent, writing, loop>>
  OBVIOUS
<1>3. line.id = Len(accepted) + 1
  OBVIOUS
<1> HIDE DEF line, Enqueue
<1>4. /\ out' \in Seq(Lines) /\ Len(out') <= Cap
      /\ accepted' \in Seq(Lines) /\ Len(accepted') = Len(accepted) + 1
      /\ accepted'[Len(accepted')] = line
  BY <1>1, <1>2
<1>5. Written'
  BY <1>1, <1>2, <1>3, <1>4 DEF Written
<1>6. Ahead'
  <2>1. CASE loop \in {"select", "write"}
    <3>1. /\ Len(accepted) = Len(sent) + Len(writing) + Len(out)
          /\ \A k \in 1 .. Len(writing) : writing[k] = accepted[Len(sent) + k]
          /\ \A k \in 1 .. Len(out) : out[k] = accepted[Len(sent) + Len(writing) + k]
      BY <2>1 DEF Ahead
    <3>2. /\ out \in Seq(Lines) /\ accepted \in Seq(Lines)
          /\ sent \in Seq(Lines) /\ writing \in Seq(Lines)
      OBVIOUS
    <3>3. /\ Len(accepted) \in Nat /\ Len(out) \in Nat
          /\ Len(sent) \in Nat /\ Len(writing) \in Nat
          /\ Len(out') = Len(out) + 1 /\ Len(accepted') = Len(accepted) + 1
          /\ \A k \in 1 .. Len(accepted) : accepted'[k] = accepted[k]
          /\ \A k \in 1 .. Len(out) : out'[k] = out[k]
          /\ accepted'[Len(accepted) + 1] = line /\ out'[Len(out) + 1] = line
      BY <1>1, <1>2, <3>2
    <3> HIDE DEF ConnInv, TypeOK, Enqueue, Full, NextId, writer
    <3>4. ASSUME NEW k \in 1 .. Len(writing)
          PROVE  writing[k] = accepted'[Len(sent) + k]
      <4>1. Len(sent) + k \in 1 .. Len(accepted)
        BY <3>1, <3>3
      <4> QED BY <3>1, <3>3, <4>1
    <3>5. ASSUME NEW k \in 1 .. Len(out) + 1
          PROVE  out'[k] = accepted'[Len(sent) + Len(writing) + k]
      <4>1. CASE k = Len(out) + 1
        <5>1. Len(sent) + Len(writing) + k = Len(accepted) + 1
          BY <3>1, <3>3, <4>1
        <5> QED BY <3>3, <4>1, <5>1
      <4>2. CASE k \in 1 .. Len(out)
        <5>1. Len(sent) + Len(writing) + k \in 1 .. Len(accepted)
          BY <3>1, <3>3, <4>2
        <5> QED BY <3>1, <3>3, <4>2, <5>1
      <4> QED BY <3>3, <4>1, <4>2
    <3>6. UNCHANGED <<sent, writing>>
      BY <1>2
    <3> QED BY <3>1, <3>3, <3>4, <3>5, <3>6 DEF Ahead
  <2>2. CASE loop \notin {"select", "write"}
    BY <1>2, <2>2 DEF Ahead
  <2> QED BY <2>1, <2>2
<1> QED BY <1>3, <1>4, <1>5, <1>6

\* Other goroutines' events.
LEMMA EventInv == ASSUME ConnInv, Event PROVE ConnInv'
<1> USE DEF Event, Budget, writer, waiting
<1>1. Len(accepted) < MaxLines
  BY DEF ConnInv, TypeOK
<1>2. /\ out' \in Seq(Lines) /\ Len(out') <= Cap
      /\ accepted' \in Seq(Lines) /\ Len(accepted') = Len(accepted) + 1
      /\ Written' /\ Ahead'
  BY <1>1, EnqueueInv
<1>3. TypeOK'
  BY <1>2 DEF ConnInv, TypeOK
<1>4. Reported' /\ Budgeted'
  BY <1>2 DEF ConnInv, TypeOK, Reported, Budgeted
<1> QED BY <1>2, <1>3, <1>4 DEF ConnInv

\* The steps of writeLoop.
LEMMA WriteLoopInv == ASSUME ConnInv, WriteLoop PROVE ConnInv'
<1> USE DEF ConnInv, queue, waiting
<1>1. CASE TakeLine
  <2> USE <1>1 DEF TakeLine
  <2>1. TypeOK'
    BY DEF TypeOK
  <2>2. /\ Len(writing) = 0 /\ Len(writing') = 1 /\ writing'[1] = out[1]
        /\ Len(out') = Len(out) - 1
        /\ \A k \in 1 .. Len(out') : out'[k] = out[k + 1]
        /\ UNCHANGED <<accepted, sent>>
    BY DEF TypeOK
  <2>3. Ahead'
    <3>1. /\ Len(accepted) = Len(sent) + Len(out)
          /\ \A k \in 1 .. Len(out) : out[k] = accepted[Len(sent) + k]
      BY <2>2 DEF TypeOK, Ahead
    <3>2. Len(out) \in Nat /\ Len(out) >= 1 /\ Len(sent) \in Nat
      BY DEF TypeOK
    <3>3. ASSUME NEW k \in 1 .. Len(out')
          PROVE  out'[k] = accepted'[Len(sent') + Len(writing') + k]
      <4>1. out'[k] = out[k + 1] /\ k + 1 \in 1 .. Len(out)
        BY <2>2, <3>2
      <4>2. out[k + 1] = accepted[Len(sent) + (k + 1)]
        BY <3>1, <4>1
      <4> QED BY <2>2, <3>2, <4>1, <4>2
    <3> QED BY <2>2, <3>1, <3>2, <3>3 DEF Ahead
  <2>4. Written' /\ Reported' /\ Budgeted'
    BY DEF TypeOK, Written, Reported, Budgeted
  <2> QED BY <2>1, <2>3, <2>4
<1>2. CASE WriteLine
  <2> USE <1>2 DEF WriteLine
  <2>1. /\ Len(writing) = 1 /\ Head(writing) \in Lines
        /\ Head(writing) = accepted[Len(sent) + 1]
        /\ Len(accepted) = Len(sent) + 1 + Len(out)
    BY DEF TypeOK, Ahead
  <2>2. Head(writing).id = Len(sent) + 1
    BY <2>1 DEF TypeOK, Written
  <2>3. /\ sent' \in Seq(Lines) /\ Len(sent') = Len(sent) + 1
        /\ sent'[Len(sent) + 1] = Head(writing)
        /\ \A k \in 1 .. Len(sent) : sent'[k] = sent[k]
    BY <2>1 DEF TypeOK
  <2>4. TypeOK'
    BY <2>3 DEF TypeOK, Report
  <2>5. Written'
    <3>1. ASSUME NEW k \in 1 .. Len(sent') PROVE sent'[k] = accepted'[k]
      <4>1. CASE k = Len(sent) + 1
        BY <2>1, <2>3, <4>1
      <4>2. CASE k \in 1 .. Len(sent)
        BY <2>3, <4>2 DEF Written
      <4> QED BY <2>3, <4>1, <4>2 DEF TypeOK
    <3>2. Len(sent') <= Len(accepted')
      BY <2>1, <2>3 DEF TypeOK
    <3> QED BY <3>1, <3>2 DEF Written
  <2>6. Ahead'
    BY <2>1, <2>3 DEF TypeOK, Ahead
  <2>7. Reported' /\ Budgeted'
    BY <2>2, <2>3 DEF TypeOK, Reported, Budgeted, Report
  <2> QED BY <2>4, <2>5, <2>6, <2>7
<1>3. CASE WriteFails
  <2> USE <1>3 DEF WriteFails
  <2>1. TypeOK' /\ Written' /\ Ahead' /\ Budgeted'
    BY DEF TypeOK, Written, Ahead, Budgeted, Report
  <2>2. Head(writing) \in Lines /\ Head(writing).id >= 1
    <3>1. writing \in Seq(Lines) /\ Len(writing) = 1
      BY DEF TypeOK
    <3>2. Head(writing) \in Lines
      BY <3>1
    <3> QED BY <3>2 DEF Lines
  <2>3. Reported'
    BY <2>2 DEF TypeOK, Reported, Report
  <2> QED BY <2>1, <2>3
<1>4. CASE LoopFails \/ LoopEnds
  BY <1>4 DEF LoopFails, LoopEnds, CloseAfterFailure, Close, TypeOK, Written, Ahead,
              Reported, Budgeted
<1> QED BY <1>1, <1>2, <1>3, <1>4 DEF WriteLoop

\* The steps of handleClient that accept a line.
LEMMA SendInv == ASSUME ConnInv, Respond \/ SendLine PROVE ConnInv'
<1> USE DEF Budget, writer
<1>1. PICK kind \in Replies :
          /\ Enqueue(kind) /\ Len(accepted) < MaxLines
          /\ reply' = kind
          /\ handler' = "wait" /\ awaited' = NextId /\ handler # "wait"
          /\ UNCHANGED <<result, writer, closed, socket, refused, answered>>
  BY DEF Respond, SendLine, Awaiting, ConnInv, TypeOK, Budgeted, Replies, Spoken
<1>2. /\ out' \in Seq(Lines) /\ Len(out') <= Cap
      /\ accepted' \in Seq(Lines) /\ Len(accepted') = Len(accepted) + 1
      /\ Written' /\ Ahead'
  BY <1>1, EnqueueInv
<1>3. TypeOK'
  BY <1>1, <1>2 DEF ConnInv, TypeOK, NextId
<1>4. Reported' /\ Budgeted'
  BY <1>1, <1>2 DEF ConnInv, TypeOK, Reported, Budgeted
<1> QED BY <1>2, <1>3, <1>4 DEF ConnInv

\* The other steps.
LEMMA RestInv ==
    ASSUME ConnInv,
           \/ RespondFails \/ Say("error") \/ Say("bye") \/ SendFails
           \/ WaitSucceeds \/ WaitFails \/ EndOfInput \/ HandlerEnds
           \/ EventOverflows \/ SocketCloses \/ UNCHANGED vars
    PROVE  ConnInv'
<1> USE DEF ConnInv, queue, writer, waiting, Stop, After, Close, Overflow, vars
<1>1. UNCHANGED <<queue, writer>>
  BY DEF RespondFails, Say, SendFails, WaitSucceeds, WaitFails, EndOfInput,
         HandlerEnds, EventOverflows, SocketCloses
<1>2. Written' /\ Ahead'
  BY <1>1 DEF Written, Ahead
<1>3. TypeOK'
  <2>1. CASE Say("error") \/ Say("bye")
    BY <1>1, <2>1 DEF TypeOK, Say, Replies, Spoken
  <2>2. CASE SendFails \/ WaitSucceeds \/ WaitFails
    <3>1. CASE WaitSucceeds
      <4>1. awaited \in 1 .. MaxLines
        BY <3>1 DEF TypeOK, Reported, Written, Budgeted, WaitSucceeds, Succeeded
      <4> QED BY <1>1, <3>1, <4>1 DEF TypeOK, WaitSucceeds, NoReply
    <3>2. CASE SendFails
      BY <1>1, <3>2 DEF TypeOK, SendFails, NoReply
    <3>3. CASE WaitFails
      BY <1>1, <3>3 DEF TypeOK, WaitFails, NoReply
    <3> QED BY <2>2, <3>1, <3>2, <3>3
  <2>3. CASE \/ RespondFails \/ EndOfInput \/ HandlerEnds
             \/ EventOverflows \/ SocketCloses \/ UNCHANGED vars
    <3>1. CASE RespondFails
      BY <1>1, <3>1 DEF TypeOK, RespondFails
    <3>2. CASE EndOfInput \/ HandlerEnds
      BY <1>1, <3>2 DEF TypeOK, EndOfInput, HandlerEnds
    <3>3. CASE EventOverflows \/ SocketCloses
      BY <1>1, <3>3 DEF TypeOK, EventOverflows, SocketCloses
    <3>4. CASE UNCHANGED vars
      BY <1>1, <3>4 DEF TypeOK
    <3> QED BY <2>3, <3>1, <3>2, <3>3, <3>4
  <2> QED BY <2>1, <2>2, <2>3
<1>4. Reported'
  BY <1>1 DEF TypeOK, Reported, RespondFails, Say, SendFails, WaitSucceeds, WaitFails,
              EndOfInput, HandlerEnds, EventOverflows, SocketCloses, Succeeded
<1>5. Budgeted'
  BY <1>1 DEF TypeOK, Budgeted, RespondFails, Say, SendFails, WaitSucceeds, WaitFails,
              EndOfInput, HandlerEnds, EventOverflows, SocketCloses, Budget, Replies,
              Spoken
<1> QED BY <1>2, <1>3, <1>4, <1>5

LEMMA NextConn == ConnInv /\ [Next]_vars => ConnInv'
BY EventInv, WriteLoopInv, SendInv, RestInv DEF Next, Handler

\* Where the lines are that the queue accepted: until the writer fails, those
\* written, the one being written and those in the queue make them up, in this
\* order; afterwards those written are still the first of them.  The queue never
\* holds more than its capacity.
LinesAccountedFor ==
    /\ Len(out) <= Cap
    /\ loop \in {"select", "write"} => accepted = (sent \o writing) \o out
    /\ Len(sent) <= Len(accepted) /\ sent = SubSeq(accepted, 1, Len(sent))

\* For every capacity: enqueueResponse, enqueueEvent, Write and writeLoop between
\* them lose no line, write none twice and change no order, whoever closes the
\* connection; only a writer that has failed leaves accepted lines behind.
THEOREM NoLineIsLost == Spec => []LinesAccountedFor
<1>1. ASSUME ConnInv PROVE LinesAccountedFor
  <2>1. /\ out \in Seq(Lines) /\ accepted \in Seq(Lines)
        /\ sent \in Seq(Lines) /\ writing \in Seq(Lines)
        /\ Len(out) \in Nat /\ Len(accepted) \in Nat
        /\ Len(sent) \in Nat /\ Len(writing) \in Nat
    BY <1>1 DEF ConnInv, TypeOK
  <2>2. Len(out) <= Cap
    BY <1>1 DEF ConnInv, TypeOK
  <2>3. ASSUME loop \in {"select", "write"} PROVE accepted = (sent \o writing) \o out
    <3>1. /\ Len(accepted) = Len(sent) + Len(writing) + Len(out)
          /\ \A k \in 1 .. Len(sent) : sent[k] = accepted[k]
          /\ \A k \in 1 .. Len(writing) : writing[k] = accepted[Len(sent) + k]
          /\ \A k \in 1 .. Len(out) : out[k] = accepted[Len(sent) + Len(writing) + k]
      BY <1>1, <2>3 DEF ConnInv, Written, Ahead
    <3> DEFINE begun == sent \o writing
    <3>2. /\ begun \in Seq(Lines) /\ Len(begun) = Len(sent) + Len(writing)
          /\ \A k \in 1 .. Len(sent) + Len(writing) :
                begun[k] = IF k <= Len(sent) THEN sent[k] ELSE writing[k - Len(sent)]
      BY <2>1, ConcatProperties
    <3>3. \A k \in 1 .. Len(begun) : begun[k] = accepted[k]
      <4>1. ASSUME NEW k \in 1 .. Len(begun) PROVE begun[k] = accepted[k]
        <5>1. CASE k <= Len(sent)
          BY <2>1, <3>1, <3>2, <5>1
        <5>2. CASE ~(k <= Len(sent))
          <6>1. k - Len(sent) \in 1 .. Len(writing) /\ Len(sent) + (k - Len(sent)) = k
            BY <2>1, <3>2, <5>2
          <6>2. writing[k - Len(sent)] = accepted[Len(sent) + (k - Len(sent))]
            BY <3>1, <6>1
          <6> QED BY <2>1, <3>2, <5>2, <6>1, <6>2
        <5> QED BY <5>1, <5>2
      <4> QED BY <4>1
    <3> HIDE DEF begun
    <3>4. /\ begun \o out \in Seq(Lines) /\ Len(begun \o out) = Len(begun) + Len(out)
          /\ \A k \in 1 .. Len(begun) + Len(out) :
                (begun \o out)[k] = IF k <= Len(begun) THEN begun[k] ELSE out[k - Len(begun)]
      <4>1. begun \in Seq(Lines) /\ out \in Seq(Lines)
        BY <2>1, <3>2
      <4> QED BY <4>1, ConcatProperties
    <3>5. ASSUME NEW k \in 1 .. Len(accepted) PROVE accepted[k] = (begun \o out)[k]
      <4>1. k \in 1 .. Len(begun) + Len(out)
        BY <2>1, <3>1, <3>2
      <4>2. CASE k <= Len(begun)
        BY <2>1, <3>2, <3>3, <3>4, <4>1, <4>2
      <4>3. CASE ~(k <= Len(begun))
        <5>1. k - Len(begun) \in 1 .. Len(out) /\ Len(begun) + (k - Len(begun)) = k
          BY <2>1, <3>2, <4>1, <4>3
        <5>2. out[k - Len(begun)] = accepted[Len(begun) + (k - Len(begun))]
          BY <3>1, <3>2, <5>1
        <5> QED BY <2>1, <3>4, <4>1, <4>3, <5>1, <5>2
      <4> QED BY <4>2, <4>3
    <3>6. Len(accepted) = Len(begun \o out)
      BY <2>1, <3>1, <3>2, <3>4
    <3>7. accepted = begun \o out
      BY <2>1, <3>4, <3>5, <3>6, SeqEqual
    <3> QED BY <3>7 DEF begun
  <2>4. Len(sent) <= Len(accepted) /\ \A k \in 1 .. Len(sent) : sent[k] = accepted[k]
    BY <1>1 DEF ConnInv, Written
  <2>5. sent = SubSeq(accepted, 1, Len(sent))
    <3> DEFINE first == SubSeq(accepted, 1, Len(sent))
    <3>1. \A k \in 1 .. Len(sent) : accepted[k] \in Lines
      BY <2>1, <2>4
    <3>2. /\ first \in Seq(Lines) /\ Len(first) = Len(sent)
          /\ \A k \in 1 .. Len(sent) : first[k] = accepted[k]
      BY <2>1, <3>1, SubSeqProperties
    <3> HIDE DEF first
    <3>3. \A k \in 1 .. Len(sent) : sent[k] = first[k]
      BY <2>4, <3>2
    <3>4. sent = first
      BY <2>1, <3>2, <3>3, SeqEqual
    <3> QED BY <3>4 DEF first
  <2> QED BY <2>2, <2>3, <2>4, <2>5 DEF LinesAccountedFor
<1> QED BY <1>1, InitConn, NextConn, PTL DEF Spec

\* Whoever was told that its line is written can rely on it.
THEOREM AnswersAreTrue == Spec => []AnsweredWasSent
<1>1. ConnInv => AnsweredWasSent
  <2> SUFFICES ASSUME ConnInv, NEW i \in answered
               PROVE  \E k \in DOMAIN sent : sent[k].id = i
    BY DEF AnsweredWasSent
  <2>1. i \in 1 .. Len(sent) /\ i \in DOMAIN sent
    BY DEF ConnInv, TypeOK, Reported
  <2>2. sent[i].id = i
    BY <2>1 DEF ConnInv, TypeOK, Written
  <2> QED BY <2>1, <2>2
<1> QED BY <1>1, InitConn, NextConn, PTL DEF Spec

\* Each step is one of the abstract channel, or changes nothing there.
LEMMA StepOfChannel ==
    ASSUME ConnInv, [Next]_vars PROVE [Channel!Next]_(Channel!vars)
<1> USE DEF Channel!Next, Channel!vars, Channel!Accept, Channel!Deliver,
            Channel!Refuse, Channel!End, queue, writer, waiting
<1>1. CASE Event
  <2>1. [id |-> NextId, kind |-> "event"] \in Lines
    BY <1>1 DEF Event, Budget, NextId, Lines, ConnInv, TypeOK
  <2> QED BY <1>1, <2>1 DEF Event, Enqueue
<1>2. CASE Respond \/ SendLine
  <2>1. PICK kind \in Replies : Enqueue(kind) /\ Len(accepted) < MaxLines
    BY <1>2 DEF Respond, SendLine, Budget, ConnInv, TypeOK, Budgeted, Replies, Spoken
  <2>2. [id |-> NextId, kind |-> kind] \in Lines
    BY <2>1 DEF NextId, Lines, ConnInv, TypeOK
  <2> QED BY <1>2, <2>1, <2>2 DEF Respond, SendLine, Enqueue, Awaiting
<1>3. CASE WriteLine
  <2>1. /\ Len(sent) < Len(accepted)
        /\ Head(writing) = accepted[Len(sent) + 1]
    BY <1>3 DEF WriteLine, ConnInv, TypeOK, Ahead
  <2> QED BY <1>3, <2>1 DEF WriteLine, Report
<1>4. CASE RespondFails \/ EventOverflows \/ SendFails
  BY <1>4 DEF RespondFails, EventOverflows, Overflow, SendFails, Close, Stop, ConnInv,
              TypeOK
<1>5. CASE HandlerEnds \/ EndOfInput \/ LoopFails
  BY <1>5 DEF HandlerEnds, EndOfInput, LoopFails, CloseAfterFailure, Close
<1>6. CASE WaitSucceeds \/ WaitFails
  BY <1>6 DEF WaitSucceeds, WaitFails, Stop, After
<1>7. CASE \/ TakeLine \/ WriteFails \/ LoopEnds \/ SocketCloses
           \/ Say("error") \/ Say("bye") \/ UNCHANGED vars
  BY <1>7 DEF TakeLine, WriteFails, Report, LoopEnds, SocketCloses, Say, vars
<1> QED BY <1>1, <1>2, <1>3, <1>4, <1>5, <1>6, <1>7 DEF Next, Handler, WriteLoop

\* A client is sent what was accepted for it, in order and without a gap, unless
\* its connection ends: the implementation of EventChannel.
THEOREM ChannelImplemented == Spec => DeliversInOrder
<1>1. Init => Channel!Init
  BY DEF Init, Channel!Init
<1>2. ConnInv /\ [Next]_vars => [Channel!Next]_(Channel!vars)
  BY StepOfChannel
<1> QED BY <1>1, <1>2, InitConn, NextConn, PTL DEF Spec, DeliversInOrder, Channel!Spec
===============================================================================
