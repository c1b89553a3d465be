---------------------------- MODULE GuiClientProofs ----------------------------
(***************************************************************************)
(* The graphical client, for any number of connections, any queues and any *)
(* number of commands.  Each connection keeps the promise of the terminal  *)
(* client: the answers under way are the first that the client waits for.  *)
(* What the UI thread has still to hear, what is not yet answered and what *)
(* is not yet sent are one list for the present connection, in which       *)
(* CONNECT and QUIT occur at most once: so the client always knows whether *)
(* it should poll.                                                         *)
(***************************************************************************)
EXTENDS GuiClient, ListsProofs

-------------------------------------------------------------------------------
(* Types.                                                                  *)

Messages ==
    [does : {"message"}, client : Sessions, line : Lines, request : Requests \cup {""}]
Disconnections == [does : {"disconnect"}, client : Sessions]
Polls == [does : {"poll"}, poller : Nat]
Dials == [does : {"dialed"}, ok : BOOLEAN]

Tasks == Messages \cup Disconnections \cup Polls \cup Dials

Connections ==
    [done : BOOLEAN, reading : BOOLEAN, outgoing : Seq(Requests),
     writing : Requests \cup {""}, pending : Seq(Requests), up : Seq(Requests),
     down : Seq(Lines), server : {"open", "playing", "closed"}, refused : BOOLEAN]

Screens ==
    [client : 0 .. MaxSessions, dialing : BOOLEAN, connected : BOOLEAN, pollStop : Nat,
     quit : BOOLEAN, view : 0 .. MaxVersion]

Pollers == [client : 0 .. MaxSessions, stopped : BOOLEAN]

Types ==
    /\ ui \in Screens /\ todo \in Seq(Tasks) /\ pollers \in Seq(Pollers)
    /\ net \in [Sessions -> Connections]
    /\ opened \in 0 .. MaxSessions /\ version \in 1 .. MaxVersion /\ typed \in 0 .. MaxTyped

-------------------------------------------------------------------------------
(* A connection.                                                           *)

AnswerLines == {l \in Lines : l.kind = "answer"}

\* The answers under way, and the commands that they answer.
Arriving(n) == Selected(n.down, AnswerLines)
Requested(list) == [i \in DOMAIN list |-> list[i].to]

\* Taken from outgoing, not yet written.
Unsent(n) == IF n.writing = "" THEN <<>> ELSE <<n.writing>>

\* As long as the server runs, pending is what is under way either way.
InOrder(n) ==
    n.server # "closed" => n.pending = Requested(Arriving(n)) \o n.up \o Unsent(n)

AnswersFirst(n) ==
    /\ Len(Arriving(n)) <= Len(n.pending)
    /\ \A i \in 1 .. Len(Arriving(n)) : Arriving(n)[i].to = n.pending[i]

\* What a line says of the connection that it came from.
LineOK(n, l) ==
    /\ l.kind = "answer" <=> l.to # ""
    /\ l.to = "QUIT" /\ l.ok => n.server = "closed"
    /\ l.to = "CONNECT" /\ ~l.ok => n.refused

ConnectionOK(n) ==
    /\ InOrder(n) /\ AnswersFirst(n)
    /\ \A i \in DOMAIN n.down : LineOK(n, n.down[i])
    /\ n.done => n.server = "closed"

ConnectionsOK == \A s \in Sessions : ConnectionOK(net[s])

-------------------------------------------------------------------------------
(* The UI thread.                                                          *)

\* The connections that goroutines may work for.
Started(s) == s < opened \/ (s = opened /\ ~ui.dialing)

\* What a callback says of the connection that it came from.
TaskOK(c) ==
    /\ c.does = "message" =>
          Started(c.client) /\ LineOK(net[c.client], c.line) /\ c.request = c.line.to
    /\ c.does = "disconnect" => Started(c.client) /\ net[c.client].server = "closed"
    /\ c.does = "dialed" => ui.dialing

TasksOK == \A i \in DOMAIN todo : TaskOK(todo[i])

\* One connection at a time.
Dialing ==
    /\ ui.dialing => ui.client = None /\ opened # 0
    /\ \A i, j \in DOMAIN todo : todo[i].does = "dialed" /\ todo[j].does = "dialed" => i = j
    /\ ui.client <= opened
    /\ \A s \in Sessions : net[s].reading => Started(s)

\* Answers that the UI thread has still to hear of.
Heard(s) == {c \in Messages : c.client = s /\ c.line.kind = "answer"}
Told(list) == [i \in DOMAIN list |-> list[i].request]

\* Commands of which the UI thread does not know the answer.
Due(s) == Told(Selected(todo, Heard(s))) \o net[s].pending \o net[s].outgoing

Never(list, r) == \A i \in DOMAIN list : list[i] # r
Once(list, r) == \A i, j \in DOMAIN list : list[i] = r /\ list[j] = r => i = j

\* CONNECT, then one QUIT at a time, and polling while there is none.
Polling ==
    /\ ui.client = None => ~ui.connected
    /\ ui.quit <=> ui.pollStop # None
    /\ ui.quit => ui.connected
    /\ ui.client # None =>
          LET due == Due(ui.client)
          IN  /\ Once(due, "CONNECT") /\ Once(due, "QUIT")
              /\ ui.connected => Never(due, "CONNECT")
              /\ Never(due, "QUIT") <=> ui.quit \/ ~ui.connected
    /\ ui.pollStop \in 0 .. Len(pollers)
    /\ \A p \in DOMAIN pollers : pollers[p].stopped <=> p # ui.pollStop
    /\ ui.pollStop # None => pollers[ui.pollStop].client = ui.client

IInv == Types /\ ConnectionsOK /\ TasksOK /\ Dialing /\ Polling

-------------------------------------------------------------------------------
(* Lists of commands.                                                      *)

Words == Requests \cup {""}

LEMMA RequestedType ==
    ASSUME NEW list \in Seq(AnswerLines)
    PROVE  /\ Requested(list) \in Seq(Words) /\ Len(Requested(list)) = Len(list)
           /\ \A i \in 1 .. Len(list) : Requested(list)[i] = list[i].to
<1>1. \A l \in AnswerLines : l.to \in Words
  BY DEF AnswerLines, Lines, Words
<1>2. list \in [1 .. Len(list) -> AnswerLines] /\ DOMAIN list = 1 .. Len(list)
  OBVIOUS
<1>3. Requested(list) \in [1 .. Len(list) -> Words]
  BY <1>1, <1>2 DEF Requested
<1>4. \A B, f : f \in [1 .. Len(list) -> B] => f \in Seq(B) /\ Len(f) = Len(list)
  OBVIOUS
<1> QED BY <1>2, <1>3, <1>4 DEF Requested

LEMMA RequestedAppend ==
    ASSUME NEW list \in Seq(AnswerLines), NEW l \in AnswerLines
    PROVE  Requested(Append(list, l)) = Append(Requested(list), l.to)
BY RequestedType DEF Requested

LEMMA RequestedFirst ==
    ASSUME NEW list \in Seq(AnswerLines), NEW l \in AnswerLines
    PROVE  Requested(<<l>> \o list) = <<l.to>> \o Requested(list)
BY RequestedType DEF Requested

LEMMA ArrivingType ==
    ASSUME NEW n, n.down \in Seq(Lines)
    PROVE  Arriving(n) \in Seq(AnswerLines)
<1>1. Lines \cap AnswerLines = AnswerLines
  BY DEF AnswerLines
<1> QED BY <1>1, SelectedType DEF Arriving

LEMMA Fields ==
    ASSUME NEW n \in Connections
    PROVE  /\ n.pending \in Seq(Words) /\ n.up \in Seq(Words) /\ n.down \in Seq(Lines)
           /\ n.writing \in Words /\ Unsent(n) \in Seq(Words)
           /\ Arriving(n) \in Seq(AnswerLines)
           /\ Requested(Arriving(n)) \in Seq(Words)
<1>1. n.pending \in Seq(Requests) /\ n.up \in Seq(Requests) /\ n.down \in Seq(Lines)
  BY DEF Connections
<1>2. n.writing \in Words
  BY DEF Connections, Words
<1>3. \A A, B, q : A \subseteq B /\ q \in Seq(A) => q \in Seq(B)
  OBVIOUS
<1>4. Requests \subseteq Words
  BY DEF Words
<1>5. Unsent(n) \in Seq(Words)
  <2>1. \A B, x : x \in B => <<x>> \in Seq(B) /\ <<>> \in Seq(B)
    OBVIOUS
  <2> QED BY <1>2, <2>1 DEF Unsent
<1>6. Arriving(n) \in Seq(AnswerLines)
  BY <1>1, ArrivingType
<1>7. n.pending \in Seq(Words) /\ n.up \in Seq(Words)
  BY <1>1, <1>3, <1>4
<1> QED BY <1>1, <1>2, <1>5, <1>6, <1>7, RequestedType

\* The two ways of saying that the answers come first.
LEMMA FirstRequested ==
    ASSUME NEW n \in Connections
    PROVE  AnswersFirst(n) <=>
              LET w == Requested(Arriving(n))
              IN  Len(w) <= Len(n.pending) /\ \A i \in 1 .. Len(w) : w[i] = n.pending[i]
BY Fields, RequestedType DEF AnswersFirst

-------------------------------------------------------------------------------
(* What can happen to a connection.                                        *)

\* It ends once, and is refused once.
Ages(n, m) ==
    /\ n.server = "closed" => m.server = "closed"
    /\ n.refused => m.refused

LEMMA LinesAge ==
    ASSUME NEW n, NEW m, Ages(n, m), NEW l, LineOK(n, l)
    PROVE  LineOK(m, l)
BY DEF LineOK, Ages

\* Something is queued.
LEMMA Queueing ==
    ASSUME NEW n \in Connections, ConnectionOK(n), NEW m,
           m.pending = n.pending, m.writing = n.writing, m.up = n.up, m.down = n.down,
           m.server = n.server, m.refused = n.refused, m.done = n.done
    PROVE  ConnectionOK(m) /\ Ages(n, m)
<1>1. Arriving(m) = Arriving(n) /\ Unsent(m) = Unsent(n)
  BY DEF Arriving, Unsent
<1>2. InOrder(m) /\ AnswersFirst(m)
  BY <1>1 DEF ConnectionOK, InOrder, AnswersFirst
<1>3. (\A i \in DOMAIN m.down : LineOK(m, m.down[i])) /\ (m.done => m.server = "closed")
  BY DEF ConnectionOK, LineOK
<1> QED BY <1>2, <1>3 DEF ConnectionOK, Ages

\* It ends, and some of what was under way is lost.
LEMMA Ending ==
    ASSUME NEW n \in Connections, ConnectionOK(n), NEW m \in Connections,
           m.pending = n.pending, m.server = "closed", m.refused = n.refused,
           NEW k \in 0 .. Len(n.down), m.down = SubSeq(n.down, 1, k)
    PROVE  ConnectionOK(m) /\ Ages(n, m)
<1>1. n.down \in Seq(Lines) /\ Arriving(n) \in Seq(AnswerLines) /\ n.pending \in Seq(Words)
      /\ Arriving(m) \in Seq(AnswerLines)
  BY Fields
<1>2. /\ Len(Arriving(m)) <= Len(Arriving(n))
      /\ \A i \in 1 .. Len(Arriving(m)) : Arriving(m)[i] = Arriving(n)[i]
  BY <1>1, SelectedFirst DEF Arriving
<1>3. Len(Arriving(m)) \in Nat /\ Len(Arriving(n)) \in Nat /\ Len(n.pending) \in Nat
  BY <1>1
<1>4. \A i \in 1 .. Len(Arriving(m)) : i \in 1 .. Len(Arriving(n))
  BY <1>2, <1>3
<1>5. AnswersFirst(m)
  BY <1>2, <1>3, <1>4 DEF ConnectionOK, AnswersFirst
<1>6. \A i \in DOMAIN m.down : i \in DOMAIN n.down /\ m.down[i] = n.down[i]
  BY <1>1
<1>7. Ages(n, m)
  BY DEF Ages
<1> QED BY <1>5, <1>6, <1>7, LinesAge DEF ConnectionOK, InOrder

\* The writer takes a command: it is now waited for.
Takes(n, m, r) ==
    /\ n.writing = "" /\ m.writing = r /\ m.pending = Append(n.pending, r)
    /\ m.up = n.up /\ m.down = n.down
    /\ m.server = n.server /\ m.refused = n.refused /\ m.done = n.done

LEMMA AtTheEnd ==
    \A S, p, x : p \in Seq(S) /\ x \in S =>
       /\ Append(p, x) \in Seq(S)
       /\ Len(p) \in Nat /\ Len(Append(p, x)) = Len(p) + 1
       /\ Append(p, x)[Len(p) + 1] = x
       /\ \A i \in 1 .. Len(p) : Append(p, x)[i] = p[i]
OBVIOUS

LEMMA Taking ==
    ASSUME NEW n \in Connections, ConnectionOK(n), NEW m \in Connections, NEW r \in Requests,
           Takes(n, m, r)
    PROVE  ConnectionOK(m) /\ Ages(n, m)
<1> DEFINE w == Requested(Arriving(n))
<1>1. Arriving(m) = Arriving(n) /\ Unsent(n) = <<>> /\ Unsent(m) = <<r>>
  BY DEF Takes, Arriving, Unsent, Requests
<1>2. w \in Seq(Words) /\ n.up \in Seq(Words) /\ n.pending \in Seq(Words) /\ r \in Words
  BY Fields DEF Words
<1> HIDE DEF w
<1>3. InOrder(m)
  <2>1. n.server # "closed" => n.pending = w \o n.up \o <<>>
    BY <1>1 DEF ConnectionOK, InOrder, w
  <2>2. Append(w \o n.up \o <<>>, r) = w \o n.up \o <<r>>
    BY <1>2, LastComes
  <2>3. m.pending = Append(n.pending, r) /\ m.up = n.up /\ m.server = n.server
    BY DEF Takes
  <2> QED BY <1>1, <2>1, <2>2, <2>3 DEF InOrder, w
<1>4. AnswersFirst(m)
  <2>1. m.pending = Append(n.pending, r)
    BY DEF Takes
  <2>2. /\ Len(n.pending) \in Nat /\ Len(m.pending) = Len(n.pending) + 1
        /\ \A i \in 1 .. Len(n.pending) : m.pending[i] = n.pending[i]
    BY <1>2, <2>1, AtTheEnd
  <2>3. Len(Arriving(n)) \in Nat
    <3>1. Arriving(n) \in Seq(AnswerLines)
      BY Fields
    <3> QED BY <3>1
  <2>4. /\ Len(Arriving(n)) <= Len(n.pending)
        /\ \A i \in 1 .. Len(Arriving(n)) : Arriving(n)[i].to = n.pending[i]
    BY DEF ConnectionOK, AnswersFirst
  <2>5. \A i \in 1 .. Len(Arriving(n)) : i \in 1 .. Len(n.pending)
    BY <2>2, <2>3, <2>4
  <2>6. Len(Arriving(n)) <= Len(m.pending)
    BY <2>2, <2>3, <2>4
  <2>7. \A i \in 1 .. Len(Arriving(n)) : Arriving(n)[i].to = m.pending[i]
    BY <2>2, <2>4, <2>5
  <2> QED BY <1>1, <2>6, <2>7 DEF AnswersFirst
<1>5. Ages(n, m)
  BY DEF Ages, Takes
<1>6. \A i \in DOMAIN m.down : LineOK(m, m.down[i])
  <2>1. m.down = n.down
    BY DEF Takes
  <2> QED BY <1>5, <2>1, LinesAge DEF ConnectionOK
<1>7. m.done => m.server = "closed"
  BY DEF Takes, ConnectionOK
<1> QED BY <1>3, <1>4, <1>6, <1>5, <1>7 DEF ConnectionOK

\* The writer sends it.
Writes(n, m) ==
    /\ n.writing # "" /\ m.writing = "" /\ m.up = Append(n.up, n.writing)
    /\ m.pending = n.pending /\ m.down = n.down
    /\ m.server = n.server /\ m.refused = n.refused /\ m.done = n.done

LEMMA Writing ==
    ASSUME NEW n \in Connections, ConnectionOK(n), NEW m \in Connections, Writes(n, m)
    PROVE  ConnectionOK(m) /\ Ages(n, m)
<1> DEFINE w == Requested(Arriving(n))
           x == n.writing
<1>1. Arriving(m) = Arriving(n) /\ Unsent(n) = <<x>> /\ Unsent(m) = <<>>
  BY DEF Writes, Arriving, Unsent
<1>2. w \in Seq(Words) /\ n.up \in Seq(Words) /\ x \in Words
  BY Fields
<1>3. m.pending = n.pending /\ m.up = Append(n.up, x) /\ m.server = n.server
  BY DEF Writes
<1> HIDE DEF w, x
<1>4. InOrder(m)
  <2>1. n.server # "closed" => n.pending = w \o n.up \o <<x>>
    BY <1>1 DEF ConnectionOK, InOrder, w
  <2>2. w \o n.up \o <<x>> = w \o Append(n.up, x) \o <<>>
    BY <1>2, LastMoves
  <2> QED BY <1>1, <1>3, <2>1, <2>2 DEF InOrder, w
<1>5. AnswersFirst(m)
  BY <1>1, <1>3 DEF ConnectionOK, AnswersFirst
<1>6. Ages(n, m)
  BY DEF Ages, Writes
<1>7. \A i \in DOMAIN m.down : LineOK(m, m.down[i])
  <2>1. m.down = n.down
    BY DEF Writes
  <2> QED BY <1>6, <2>1, LinesAge DEF ConnectionOK
<1>8. m.done => m.server = "closed"
  BY DEF Writes, ConnectionOK
<1> QED BY <1>4, <1>5, <1>6, <1>7, <1>8 DEF ConnectionOK

\* The reader takes a line, and the command that it answers.
Reads(n, m) ==
    /\ n.down # <<>> /\ m.down = Tail(n.down)
    /\ m.pending = IF Head(n.down).kind = "answer" /\ n.pending # <<>>
                   THEN Tail(n.pending) ELSE n.pending
    /\ m.writing = n.writing /\ m.up = n.up
    /\ m.server = n.server /\ m.refused = n.refused /\ m.done = n.done

\* The first line under way.
LEMMA FirstLine ==
    ASSUME NEW n \in Connections, ConnectionOK(n), n.down # <<>>
    PROVE  /\ Head(n.down) \in Lines /\ LineOK(n, Head(n.down))
           /\ Tail(n.down) \in Seq(Lines)
           /\ \A i \in DOMAIN Tail(n.down) : LineOK(n, Tail(n.down)[i])
<1> DEFINE d == n.down
<1>1. d \in Seq(Lines) /\ d # <<>>
  BY Fields
<1> HIDE DEF d
<1>2. /\ Head(d) \in Lines /\ 1 \in DOMAIN d /\ Head(d) = d[1] /\ Tail(d) \in Seq(Lines)
      /\ \A i \in DOMAIN Tail(d) : i + 1 \in DOMAIN d /\ Tail(d)[i] = d[i + 1]
  BY <1>1
<1>3. \A i \in DOMAIN d : LineOK(n, d[i])
  BY DEF ConnectionOK, d
<1> QED BY <1>2, <1>3 DEF d

\* An answer is to the command at the head of the list.
LEMMA HeadIsAnswered ==
    ASSUME NEW n \in Connections, ConnectionOK(n), n.down # <<>>,
           Head(n.down).kind = "answer"
    PROVE  n.pending # <<>> /\ Head(n.pending) = Head(n.down).to
<1> DEFINE l == Head(n.down)
           p == n.pending
           a == Arriving(n)
<1>1. l \in AnswerLines
  BY FirstLine DEF AnswerLines
<1>2. n.down \in Seq(Lines) /\ p \in Seq(Words)
  BY Fields
<1>3. Tail(n.down) \in Seq(Lines)
  BY FirstLine
<1>4. a = <<l>> \o Selected(Tail(n.down), AnswerLines)
  BY <1>1, <1>2, SelectedTail DEF Arriving
<1>5. Selected(Tail(n.down), AnswerLines) \in Seq(Lines \cap AnswerLines)
  BY <1>3, SelectedType
<1>6. \A S, q, x : q \in Seq(S) => Len(<<x>> \o q) >= 1 /\ (<<x>> \o q)[1] = x
  OBVIOUS
<1>7. Len(a) >= 1 /\ a[1] = l
  BY <1>4, <1>5, <1>6
<1>8. Len(a) \in Nat /\ Len(p) \in Nat
  <2>1. a \in Seq(AnswerLines)
    BY Fields
  <2> QED BY <1>2, <2>1
<1>9. Len(a) <= Len(p) /\ \A i \in 1 .. Len(a) : a[i].to = p[i]
  BY DEF ConnectionOK, AnswersFirst
<1>10. l.to = p[1] /\ Len(p) >= 1
  BY <1>7, <1>8, <1>9
<1> HIDE DEF l, p
<1>11. p # <<>> /\ Head(p) = p[1]
  BY <1>2, <1>10
<1> QED BY <1>10, <1>11 DEF l, p

LEMMA Reading ==
    ASSUME NEW n \in Connections, ConnectionOK(n), NEW m \in Connections, Reads(n, m)
    PROVE  ConnectionOK(m) /\ Ages(n, m)
<1> DEFINE l == Head(n.down)
           w == Requested(Arriving(n))
           v == Requested(Arriving(m))
           u == Unsent(n)
<1>1. n.down # <<>> /\ m.down = Tail(n.down) /\ m.up = n.up /\ m.server = n.server
      /\ Unsent(m) = u
  BY DEF Reads, Unsent
<1>2. l \in Lines /\ LineOK(n, l)
  BY <1>1, FirstLine
<1>3. /\ w \in Seq(Words) /\ v \in Seq(Words) /\ u \in Seq(Words)
      /\ n.up \in Seq(Words) /\ n.pending \in Seq(Words)
      /\ Arriving(m) \in Seq(AnswerLines) /\ n.down \in Seq(Lines)
  BY Fields
<1>4. Arriving(n) = IF l \in AnswerLines THEN <<l>> \o Arriving(m) ELSE Arriving(m)
  BY <1>1, <1>3, SelectedTail DEF Arriving
<1>5. AnswersFirst(n) /\ InOrder(n)
  BY DEF ConnectionOK
<1>6. InOrder(m) /\ AnswersFirst(m)
  <2>1. CASE l.kind # "answer"
    <3>1. Arriving(m) = Arriving(n) /\ m.pending = n.pending
      BY <1>4, <2>1 DEF AnswerLines, Reads
    <3> QED BY <1>1, <1>5, <3>1 DEF InOrder, AnswersFirst
  <2>2. CASE l.kind = "answer"
    <3> DEFINE x == l.to
               p == n.pending
    <3>1. p # <<>> /\ Head(p) = x /\ m.pending = Tail(p)
      BY <1>1, <2>2, HeadIsAnswered DEF Reads
    <3>2. l \in AnswerLines /\ x \in Words
      BY <1>2, <2>2 DEF AnswerLines, Lines, Words
    <3>3. w = <<x>> \o v
      BY <1>3, <1>4, <3>2, RequestedFirst
    <3>4. Len(w) <= Len(p) /\ \A i \in 1 .. Len(w) : w[i] = p[i]
      BY <1>5, FirstRequested
    <3>5. n.server # "closed" => p = w \o n.up \o u
      BY <1>5 DEF InOrder
    <3> DEFINE b == n.up
    <3> HIDE DEF l, w, v, u, x, p, b
    <3>6. Tail((<<x>> \o v) \o n.up \o u) = v \o n.up \o u
      <4>1. v \in Seq(Words) /\ b \in Seq(Words) /\ u \in Seq(Words)
        BY <1>3 DEF b
      <4>2. x \in Words
        BY <3>2
      <4>3. Tail((<<x>> \o v) \o b \o u) = v \o b \o u
        BY <4>1, <4>2, FirstGoes, SMTT(30)
      <4> QED BY <4>3 DEF b
    <3>7. n.server # "closed" => m.pending = v \o n.up \o u
      BY <3>1, <3>3, <3>5, <3>6
    <3>8. InOrder(m)
      BY <1>1, <3>7 DEF InOrder, v
    <3>9. p \in Seq(Words)
      BY <1>3 DEF p
    <3>10. Len(v) <= Len(Tail(p)) /\ \A i \in 1 .. Len(v) : v[i] = Tail(p)[i]
      BY <1>3, <3>2, <3>3, <3>4, <3>9, BothGo
    <3>11. AnswersFirst(m)
      BY <3>1, <3>10, FirstRequested DEF v
    <3> QED BY <3>8, <3>11
  <2> QED BY <2>1, <2>2
<1>7. Ages(n, m)
  BY DEF Ages, Reads
<1>8. \A i \in DOMAIN m.down : LineOK(m, m.down[i])
  BY <1>1, <1>7, FirstLine, LinesAge
<1>9. m.done => m.server = "closed"
  BY DEF Reads, ConnectionOK
<1> QED BY <1>6, <1>7, <1>8, <1>9 DEF ConnectionOK

\* The server sends a line more: an answer to the first command that has reached
\* it, or an event.
Sends(n, m, l) ==
    /\ m.down = Append(n.down, l)
    /\ m.pending = n.pending /\ m.writing = n.writing /\ m.done = n.done

Replies(n, m, l) ==
    /\ Sends(n, m, l) /\ n.up # <<>> /\ m.up = Tail(n.up)
    /\ n.server # "closed" /\ l.kind = "answer" /\ l.to = Head(n.up)

Tells(n, m, l) ==
    /\ Sends(n, m, l) /\ m.up = n.up
    /\ l.kind # "answer" /\ m.server = n.server

LEMMA LinesMore ==
    ASSUME NEW n \in Connections, ConnectionOK(n), NEW m \in Connections, NEW l \in Lines,
           Sends(n, m, l), Ages(n, m), LineOK(m, l)
    PROVE  /\ Arriving(m) = IF l \in AnswerLines THEN Append(Arriving(n), l) ELSE Arriving(n)
           /\ \A i \in DOMAIN m.down : LineOK(m, m.down[i])
           /\ m.done => m.server = "closed"
<1>1. n.down \in Seq(Lines) /\ m.down = Append(n.down, l)
  BY Fields DEF Sends
<1>2. Arriving(m) = IF l \in AnswerLines THEN Append(Arriving(n), l) ELSE Arriving(n)
  <2> DEFINE d == n.down
             T == AnswerLines
  <2>1. d \in Seq(Lines) /\ m.down = Append(d, l)
    BY <1>1
  <2> HIDE DEF d, T
  <2>2. Selected(Append(d, l), T) = IF l \in T THEN Append(Selected(d, T), l)
                                    ELSE Selected(d, T)
    BY <2>1, SelectedAppend
  <2> QED BY <2>1, <2>2 DEF Arriving, d, T
<1>3. \A i \in DOMAIN m.down : (i \in DOMAIN n.down /\ m.down[i] = n.down[i]) \/ m.down[i] = l
  BY <1>1
<1>4. \A i \in DOMAIN m.down : LineOK(m, m.down[i])
  BY <1>3, LinesAge DEF ConnectionOK
<1> QED BY <1>2, <1>4 DEF ConnectionOK, Sends, Ages

LEMMA Replying ==
    ASSUME NEW n \in Connections, ConnectionOK(n), NEW m \in Connections, NEW l \in Lines,
           Replies(n, m, l), Ages(n, m), LineOK(m, l)
    PROVE  ConnectionOK(m)
<1> DEFINE w == Requested(Arriving(n))
           v == Requested(Arriving(m))
           u == Unsent(n)
<1>1. /\ n.up # <<>> /\ m.up = Tail(n.up) /\ m.pending = n.pending /\ Unsent(m) = u
      /\ l.to = Head(n.up) /\ n.server # "closed" /\ l \in AnswerLines
  BY DEF Replies, Sends, Unsent, AnswerLines
<1>2. Arriving(m) = Append(Arriving(n), l)
  BY <1>1, LinesMore DEF Replies
<1>3. /\ w \in Seq(Words) /\ v \in Seq(Words) /\ u \in Seq(Words)
      /\ n.up \in Seq(Words) /\ n.pending \in Seq(Words)
      /\ Arriving(n) \in Seq(AnswerLines)
  BY Fields
<1>4. v = Append(w, Head(n.up))
  BY <1>1, <1>2, <1>3, RequestedAppend
<1>5. n.pending = w \o n.up \o u
  BY <1>1 DEF ConnectionOK, InOrder
<1> DEFINE b == n.up
<1> HIDE DEF w, v, u, b
<1>6. n.pending = v \o m.up \o u
  <2>1. w \in Seq(Words) /\ b \in Seq(Words) /\ u \in Seq(Words) /\ b # <<>>
    BY <1>1, <1>3 DEF b
  <2>2. w \o b \o u = Append(w, Head(b)) \o Tail(b) \o u
    BY <2>1, FirstMoves
  <2> QED BY <1>1, <1>4, <1>5, <2>2 DEF b
<1>7. InOrder(m)
  BY <1>1, <1>6 DEF InOrder, v
<1>8. AnswersFirst(m)
  <2>1. v \in Seq(Words) /\ m.up \in Seq(Words) /\ u \in Seq(Words)
    BY <1>3, Fields
  <2>2. Len(v) <= Len(n.pending) /\ \A i \in 1 .. Len(v) : v[i] = n.pending[i]
    BY <1>6, <2>1, PartsAreFirst
  <2> QED BY <1>1, <2>2, FirstRequested DEF v
<1> QED BY <1>7, <1>8, LinesMore DEF ConnectionOK, Replies

LEMMA Telling ==
    ASSUME NEW n \in Connections, ConnectionOK(n), NEW m \in Connections, NEW l \in Lines,
           Tells(n, m, l), Ages(n, m), LineOK(m, l)
    PROVE  ConnectionOK(m)
<1>1. l \notin AnswerLines
  BY DEF Tells, AnswerLines
<1>2. Arriving(m) = Arriving(n) /\ Unsent(m) = Unsent(n)
  BY <1>1, LinesMore DEF Tells, Sends, Unsent
<1>3. m.pending = n.pending /\ m.up = n.up /\ m.server = n.server
  BY DEF Tells, Sends
<1>4. InOrder(m) /\ AnswersFirst(m)
  BY <1>2, <1>3 DEF ConnectionOK, InOrder, AnswersFirst
<1> QED BY <1>4, LinesMore DEF ConnectionOK, Tells

\* A new connection.
Begins(m) ==
    /\ m.pending = <<>> /\ m.up = <<>> /\ m.writing = ""
    /\ m.down \in {<<>>, <<Line("greeting", "", TRUE, 0)>>}
    /\ m.done => m.server = "closed"

LEMMA GreetingLine ==
    LET l == Line("greeting", "", TRUE, 0)
    IN  l \in Lines /\ l \notin AnswerLines /\ \A m : LineOK(m, l)
<1> DEFINE l == Line("greeting", "", TRUE, 0)
<1>1. 0 \in 0 .. MaxVersion
  BY BoundsAssumption
<1>2. l.kind = "greeting" /\ l.to = "" /\ l.ok = TRUE
  BY DEF Line
<1>3. l \in Lines
  BY <1>1 DEF Line, Lines
<1> HIDE DEF l
<1>4. l \notin AnswerLines /\ \A m : LineOK(m, l)
  BY <1>2 DEF AnswerLines, LineOK
<1> QED BY <1>3, <1>4 DEF l

LEMMA Beginning ==
    ASSUME NEW m \in Connections, Begins(m)
    PROVE  ConnectionOK(m)
<1> DEFINE l == Line("greeting", "", TRUE, 0)
<1>1. l \in Lines /\ l \notin AnswerLines /\ LineOK(m, l)
  BY GreetingLine
<1>2. m.down = <<>> \/ m.down = <<l>>
  BY DEF Begins
<1> HIDE DEF l
<1>3. Arriving(m) = <<>>
  <2> DEFINE T == AnswerLines
  <2> HIDE DEF T
  <2>1. <<>> \in Seq(Lines) /\ Append(<<>>, l) = <<l>>
    OBVIOUS
  <2>2. Selected(<<>>, T) = <<>>
    BY SelectedNothing
  <2>3. Selected(Append(<<>>, l), T) = IF l \in T THEN Append(Selected(<<>>, T), l)
                                       ELSE Selected(<<>>, T)
    BY <1>1, <2>1, SelectedAppend
  <2> QED BY <1>1, <1>2, <2>1, <2>2, <2>3 DEF Arriving, T
<1>4. InOrder(m)
  <2>1. Requested(<<>>) = <<>> /\ <<>> \o <<>> \o <<>> = <<>>
    BY DEF Requested
  <2>2. Unsent(m) = <<>> /\ m.up = <<>> /\ m.pending = <<>>
    BY DEF Begins, Unsent
  <2> QED BY <1>3, <2>1, <2>2 DEF InOrder
<1>5. AnswersFirst(m)
  <2>1. Len(<<>>) = 0 /\ 1 .. 0 = {} /\ 0 <= 0
    OBVIOUS
  <2>2. m.pending = <<>>
    BY DEF Begins
  <2> QED BY <1>3, <2>1, <2>2 DEF AnswersFirst
<1>6. \A i \in DOMAIN m.down : LineOK(m, m.down[i])
  <2>1. \A i \in DOMAIN <<l>> : <<l>>[i] = l
    OBVIOUS
  <2>2. DOMAIN <<>> = {}
    OBVIOUS
  <2> QED BY <1>1, <1>2, <2>1, <2>2
<1> QED BY <1>4, <1>5, <1>6 DEF ConnectionOK, Begins

-------------------------------------------------------------------------------
(* What is due.                                                            *)

ToldTo(s) == Told(Selected(todo, Heard(s)))

LEMMA ToldType ==
    ASSUME NEW s, NEW list \in Seq(Heard(s))
    PROVE  /\ Told(list) \in Seq(Words) /\ Len(Told(list)) = Len(list)
           /\ \A i \in 1 .. Len(list) : Told(list)[i] = list[i].request
<1>1. \A c \in Heard(s) : c.request \in Words
  BY DEF Heard, Messages, Words
<1>2. list \in [1 .. Len(list) -> Heard(s)] /\ DOMAIN list = 1 .. Len(list)
  OBVIOUS
<1>3. Told(list) \in [1 .. Len(list) -> Words]
  BY <1>1, <1>2 DEF Told
<1>4. \A B, f : f \in [1 .. Len(list) -> B] => f \in Seq(B) /\ Len(f) = Len(list)
  OBVIOUS
<1> QED BY <1>2, <1>3, <1>4 DEF Told

LEMMA ToldAppend ==
    ASSUME NEW s, NEW list \in Seq(Heard(s)), NEW c \in Heard(s)
    PROVE  Told(Append(list, c)) = Append(Told(list), c.request)
BY ToldType DEF Told

LEMMA ToldFirst ==
    ASSUME NEW s, NEW list \in Seq(Heard(s)), NEW c \in Heard(s)
    PROVE  Told(<<c>> \o list) = <<c.request>> \o Told(list)
BY ToldType DEF Told

LEMMA HeardType ==
    ASSUME NEW s, NEW list \in Seq(Tasks)
    PROVE  Selected(list, Heard(s)) \in Seq(Heard(s))
<1>1. Tasks \cap Heard(s) = Heard(s)
  BY DEF Tasks, Heard
<1> QED BY <1>1, SelectedType

LEMMA DueParts ==
    ASSUME Types, NEW s \in Sessions
    PROVE  /\ ToldTo(s) \in Seq(Words) /\ net[s].pending \in Seq(Words)
           /\ net[s].outgoing \in Seq(Words)
           /\ Due(s) \in Seq(Words)
           /\ Due(s) = ToldTo(s) \o net[s].pending \o net[s].outgoing
<1>1. ToldTo(s) \in Seq(Words)
  BY HeardType, ToldType DEF Types, ToldTo
<1>2. net[s] \in Connections
  BY DEF Types
<1>3. net[s].pending \in Seq(Words)
  BY <1>2, Fields
<1>4. net[s].outgoing \in Seq(Words)
  <2>1. net[s].outgoing \in Seq(Requests)
    BY <1>2 DEF Connections
  <2>2. \A A, B, q : A \subseteq B /\ q \in Seq(A) => q \in Seq(B)
    OBVIOUS
  <2>3. Requests \subseteq Words
    BY DEF Words
  <2> QED BY <2>1, <2>2, <2>3
<1>5. Due(s) = ToldTo(s) \o net[s].pending \o net[s].outgoing
  BY DEF Due, ToldTo
<1>6. \A a, b, c \in Seq(Words) : a \o b \o c \in Seq(Words)
  OBVIOUS
<1> QED BY <1>1, <1>3, <1>4, <1>5, <1>6

\* A callback more: an answer for s, or something else.
LEMMA ToldMore ==
    ASSUME Types, NEW s, NEW c \in Tasks, todo' = Append(todo, c)
    PROVE  ToldTo(s)' = IF c \in Heard(s) THEN Append(ToldTo(s), c.request) ELSE ToldTo(s)
<1> DEFINE T == Heard(s)
           d == todo
<1>1. d \in Seq(Tasks)
  BY DEF Types
<1>2. Selected(d, T) \in Seq(Heard(s))
  BY <1>1, HeardType
<1> HIDE DEF T, d
<1>3. Selected(Append(d, c), T) = IF c \in T THEN Append(Selected(d, T), c) ELSE Selected(d, T)
  BY <1>1, SelectedAppend
<1>4. ToldTo(s)' = Told(Selected(Append(d, c), T)) /\ ToldTo(s) = Told(Selected(d, T))
  BY DEF ToldTo, T, d, Heard
<1>5. c \in T => Told(Append(Selected(d, T), c)) = Append(Told(Selected(d, T)), c.request)
  BY <1>2, ToldAppend DEF T
<1> QED BY <1>3, <1>4, <1>5 DEF T

\* The first callback has run.
LEMMA ToldLess ==
    ASSUME Types, NEW s, todo # <<>>, todo' = Tail(todo)
    PROVE  ToldTo(s) = IF Head(todo) \in Heard(s) THEN <<Head(todo).request>> \o ToldTo(s)'
                       ELSE ToldTo(s)'
<1> DEFINE T == Heard(s)
           d == todo
           c == Head(d)
<1>1. d \in Seq(Tasks) /\ d # <<>>
  BY DEF Types
<1>2. Tail(d) \in Seq(Tasks)
  <2> HIDE DEF d
  <2> QED BY <1>1
<1>3. Selected(Tail(d), T) \in Seq(Heard(s))
  BY <1>2, HeardType
<1>4. ToldTo(s)' = Told(Selected(Tail(d), T)) /\ ToldTo(s) = Told(Selected(d, T))
  BY DEF ToldTo, Heard
<1> HIDE DEF T, d, c
<1>5. Selected(d, T) = IF c \in T THEN <<c>> \o Selected(Tail(d), T) ELSE Selected(Tail(d), T)
  BY <1>1, SelectedTail DEF c
<1>6. c \in T => Told(<<c>> \o Selected(Tail(d), T)) = <<c.request>> \o Told(Selected(Tail(d), T))
  BY <1>3, ToldFirst DEF T
<1> QED BY <1>4, <1>5, <1>6 DEF T, d, c

-------------------------------------------------------------------------------
(* How often a command is due.                                             *)

LEMMA NeverAppend ==
    ASSUME NEW d \in Seq(Words), NEW x \in Words, NEW r
    PROVE  Never(Append(d, x), r) <=> Never(d, r) /\ x # r
<1>1. /\ DOMAIN d = 1 .. Len(d) /\ DOMAIN Append(d, x) = 1 .. Len(d) + 1 /\ Len(d) \in Nat
      /\ Append(d, x)[Len(d) + 1] = x /\ \A i \in 1 .. Len(d) : Append(d, x)[i] = d[i]
  OBVIOUS
<1> QED BY <1>1 DEF Never

LEMMA OnceAppend ==
    ASSUME NEW d \in Seq(Words), NEW x \in Words, NEW r, Once(d, r), x # r \/ Never(d, r)
    PROVE  Once(Append(d, x), r)
<1>1. /\ DOMAIN d = 1 .. Len(d) /\ DOMAIN Append(d, x) = 1 .. Len(d) + 1 /\ Len(d) \in Nat
      /\ Append(d, x)[Len(d) + 1] = x /\ \A i \in 1 .. Len(d) : Append(d, x)[i] = d[i]
  OBVIOUS
<1> QED BY <1>1 DEF Never, Once

LEMMA FirstHeard ==
    ASSUME NEW d \in Seq(Words), d # <<>>, NEW r, Once(d, r)
    PROVE  /\ Once(Tail(d), r)
           /\ Never(d, r) => Never(Tail(d), r)
           /\ Head(d) = r => Never(Tail(d), r)
           /\ Head(d) # r => (Never(Tail(d), r) <=> Never(d, r))
<1>1. /\ DOMAIN d = 1 .. Len(d) /\ DOMAIN Tail(d) = 1 .. Len(d) - 1 /\ Len(d) \in Nat \ {0}
      /\ Head(d) = d[1] /\ \A i \in 1 .. Len(d) - 1 : Tail(d)[i] = d[i + 1]
  OBVIOUS
<1>2. \A i \in DOMAIN Tail(d) : i + 1 \in DOMAIN d /\ Tail(d)[i] = d[i + 1] /\ i + 1 # 1
  BY <1>1
<1>3. \A i \in DOMAIN d : i = 1 \/ (i - 1 \in DOMAIN Tail(d) /\ Tail(d)[i - 1] = d[i])
  BY <1>1
<1>4. 1 \in DOMAIN d
  BY <1>1
<1>5. Once(Tail(d), r)
  <2> SUFFICES ASSUME NEW i \in DOMAIN Tail(d), NEW j \in DOMAIN Tail(d),
                      Tail(d)[i] = r, Tail(d)[j] = r
               PROVE  i = j
    BY DEF Once
  <2>1. i + 1 = j + 1
    BY <1>2 DEF Once
  <2> QED BY <1>1, <2>1
<1>6. Never(d, r) => Never(Tail(d), r)
  BY <1>2 DEF Never
<1>7. Head(d) = r => Never(Tail(d), r)
  BY <1>1, <1>2, <1>4 DEF Never, Once
<1>8. Head(d) # r /\ Never(Tail(d), r) => Never(d, r)
  BY <1>1, <1>3 DEF Never
<1> QED BY <1>5, <1>6, <1>7, <1>8

-------------------------------------------------------------------------------
(* Steps.                                                                  *)

\* One connection changes.
LEMMA OneChanges ==
    ASSUME Types, ConnectionsOK, NEW s \in Sessions, NEW m \in Connections, ConnectionOK(m),
           net' = [net EXCEPT ![s] = m]
    PROVE  /\ net' \in [Sessions -> Connections] /\ ConnectionsOK'
           /\ \A t \in Sessions : net'[t] = IF t = s THEN m ELSE net[t]
BY DEF Types, ConnectionsOK

\* Every connection ages, and no reader starts.
NetAges ==
    \A t \in Sessions : Ages(net[t], net'[t]) /\ (net'[t].reading => net[t].reading)

LEMMA OneAges ==
    ASSUME Types, NEW s \in Sessions, NEW m,
           \A t \in Sessions : net'[t] = IF t = s THEN m ELSE net[t],
           Ages(net[s], m), m.reading => net[s].reading
    PROVE  NetAges
BY DEF NetAges, Ages

\* A callback that remains says what it said.
LEMMA TaskStays ==
    ASSUME \A t \in Sessions : Started(t) => Started(t)' /\ Ages(net[t], net'[t]),
           NEW c \in Tasks, TaskOK(c), c.does = "dialed" => ui'.dialing
    PROVE  TaskOK(c)'
<1>1. c.does \in {"message", "disconnect"} => c.client \in Sessions
  BY DEF Tasks, Messages, Disconnections, Polls, Dials
<1>2. ASSUME c.does = "message"
      PROVE  Started(c.client)' /\ LineOK(net'[c.client], c.line) /\ c.request = c.line.to
  <2>1. Started(c.client) /\ LineOK(net[c.client], c.line) /\ c.client \in Sessions
    BY <1>1, <1>2 DEF TaskOK
  <2>2. Ages(net[c.client], net'[c.client]) /\ Started(c.client)'
    BY <2>1
  <2>3. LineOK(net'[c.client], c.line)
    BY <2>1, <2>2, LinesAge
  <2> QED BY <1>2, <2>2, <2>3 DEF TaskOK
<1>3. ASSUME c.does = "disconnect"
      PROVE  Started(c.client)' /\ net'[c.client].server = "closed"
  <2>1. Started(c.client) /\ net[c.client].server = "closed" /\ c.client \in Sessions
    BY <1>1, <1>3 DEF TaskOK
  <2>2. Ages(net[c.client], net'[c.client]) /\ Started(c.client)'
    BY <2>1
  <2> QED BY <2>1, <2>2 DEF Ages
<1> QED BY <1>2, <1>3 DEF TaskOK

LEMMA TasksStay ==
    ASSUME Types, TasksOK,
           \A t \in Sessions : Started(t) => Started(t)' /\ Ages(net[t], net'[t]),
           \A i \in DOMAIN todo' :
              \/ /\ \E j \in DOMAIN todo : todo'[i] = todo[j]
                 /\ todo'[i].does = "dialed" => ui'.dialing
              \/ \E c \in Tasks : todo'[i] = c /\ TaskOK(c)'
    PROVE  TasksOK'
<1>1. ASSUME NEW i \in DOMAIN todo' PROVE \E c \in Tasks : todo'[i] = c /\ TaskOK(c)'
  <2>1. CASE \E c \in Tasks : todo'[i] = c /\ TaskOK(c)'
    BY <2>1
  <2>2. CASE /\ \E j \in DOMAIN todo : todo'[i] = todo[j]
             /\ todo'[i].does = "dialed" => ui'.dialing
    <3>1. PICK j \in DOMAIN todo : todo'[i] = todo[j]
      BY <2>2
    <3>2. todo[j] \in Tasks /\ TaskOK(todo[j])
      BY DEF Types, TasksOK
    <3>3. \A c \in Tasks : TaskOK(c) /\ (c.does = "dialed" => ui'.dialing) => TaskOK(c)'
      BY TaskStays
    <3> QED BY <2>2, <3>1, <3>2, <3>3
  <2> QED BY <1>1, <2>1, <2>2
<1>2. \A i \in DOMAIN todo' : TaskOK(todo[i])'
  <2>1. \A c : TaskOK(c)' <=>
           /\ c.does = "message" =>
                 Started(c.client)' /\ LineOK(net'[c.client], c.line) /\ c.request = c.line.to
           /\ c.does = "disconnect" => Started(c.client)' /\ net'[c.client].server = "closed"
           /\ c.does = "dialed" => ui'.dialing
    BY DEF TaskOK
  <2> QED BY <1>1, <2>1 DEF TaskOK, Started
<1> QED BY <1>2 DEF TasksOK

\* What a step leaves of the list, as far as CONNECT and QUIT go.
SameDue(d, e) ==
    \A r \in {"CONNECT", "QUIT"} :
        /\ Once(d, r) => Once(e, r)
        /\ Once(d, r) => (Never(e, r) <=> Never(d, r))

LEMMA PollingStays ==
    ASSUME Polling, ui' = [ui EXCEPT !.dialing = ui'.dialing, !.view = ui'.view],
           ui \in Screens, pollers' = pollers,
           \A s \in Sessions : ui.client = s => SameDue(Due(s), Due(s)')
    PROVE  Polling'
<1>1. /\ ui'.client = ui.client /\ ui'.connected = ui.connected /\ ui'.quit = ui.quit
      /\ ui'.pollStop = ui.pollStop
  BY DEF Screens
<1>2. ASSUME ui.client # None
      PROVE  LET due == Due(ui.client)'
             IN  /\ Once(due, "CONNECT") /\ Once(due, "QUIT")
                 /\ ui.connected => Never(due, "CONNECT")
                 /\ Never(due, "QUIT") <=> ui.quit \/ ~ui.connected
  <2> DEFINE d == Due(ui.client)
             e == Due(ui.client)'
  <2>1. ui.client \in Sessions
    BY <1>2 DEF Screens, Sessions, None
  <2>2. SameDue(d, e)
    BY <1>1, <2>1
  <2>3. /\ Once(d, "CONNECT") /\ Once(d, "QUIT")
        /\ ui.connected => Never(d, "CONNECT")
        /\ Never(d, "QUIT") <=> ui.quit \/ ~ui.connected
    BY <1>2 DEF Polling
  <2> HIDE DEF d, e
  <2>4. /\ Once(e, "CONNECT") /\ Once(e, "QUIT")
        /\ ui.connected => Never(e, "CONNECT")
        /\ Never(e, "QUIT") <=> ui.quit \/ ~ui.connected
    BY <2>2, <2>3 DEF SameDue
  <2> QED BY <2>4 DEF e
<1> QED BY <1>1, <1>2 DEF Polling

-------------------------------------------------------------------------------
(* The goroutines and the server.                                          *)

LEMMA DialingStays ==
    ASSUME Types, Dialing, ui'.dialing = ui.dialing, ui'.client \in {ui.client, None},
           opened' = opened,
           \A t \in Sessions : net'[t].reading => net[t].reading,
           \/ todo' = todo
           \/ todo # <<>> /\ todo' = Tail(todo)
           \/ \E c \in Tasks :
                 /\ todo' = Append(todo, c)
                 /\ c.does = "dialed" => \A i \in DOMAIN todo : todo[i].does # "dialed"
    PROVE  Dialing'
<1> DEFINE d == todo
<1>1. d \in Seq(Tasks)
  BY DEF Types
<1>2. \A i, j \in DOMAIN d : d[i].does = "dialed" /\ d[j].does = "dialed" => i = j
  BY DEF Dialing
<1>3. \A i, j \in DOMAIN todo' : todo'[i].does = "dialed" /\ todo'[j].does = "dialed" => i = j
  <2>1. CASE todo' = d
    BY <1>2, <2>1
  <2>2. CASE d # <<>> /\ todo' = Tail(d)
    <3> HIDE DEF d
    <3>1. \A i \in DOMAIN Tail(d) : i \in Nat /\ i + 1 \in DOMAIN d /\ Tail(d)[i] = d[i + 1]
      BY <1>1, <2>2
    <3>2. \A i, j \in Nat : i + 1 = j + 1 => i = j
      OBVIOUS
    <3> QED BY <1>2, <2>2, <3>1, <3>2
  <2>3. CASE \E c \in Tasks :
                /\ todo' = Append(d, c)
                /\ c.does = "dialed" => \A i \in DOMAIN d : d[i].does # "dialed"
    <3> HIDE DEF d
    <3>1. PICK c \in Tasks :
             /\ todo' = Append(d, c)
             /\ c.does = "dialed" => \A i \in DOMAIN d : d[i].does # "dialed"
      BY <2>3
    <3>2. \A i \in DOMAIN Append(d, c) :
             \/ i \in DOMAIN d /\ Append(d, c)[i] = d[i]
             \/ i = Len(d) + 1 /\ Append(d, c)[i] = c
      BY <1>1
    <3> QED BY <1>2, <3>1, <3>2
  <2> QED BY <2>1, <2>2, <2>3
<1>4. \A s \in Sessions : Started(s)' <=> Started(s)
  BY DEF Started
<1>5. ui'.dialing => ui'.client = None /\ opened' # 0
  BY DEF Dialing
<1>6. ui'.client <= opened'
  BY DEF Dialing, None, Types
<1>7. \A s \in Sessions : net'[s].reading => Started(s)'
  BY <1>4 DEF Dialing
<1> QED BY <1>3, <1>5, <1>6, <1>7 DEF Dialing

\* What the goroutines leave alone.
LEMMA GoroutineKeeps ==
    ASSUME IInv, Types', ConnectionsOK', UNCHANGED <<ui, pollers, opened>>, NetAges,
           \/ todo' = todo
           \/ \E c \in Tasks :
                 /\ todo' = Append(todo, c)
                 /\ TaskOK(c)'
                 /\ c.does = "dialed" => \A i \in DOMAIN todo : todo[i].does # "dialed",
           \A s \in Sessions : Due(s)' = Due(s)
    PROVE  IInv'
<1>1. Types /\ TasksOK /\ Dialing /\ Polling
  BY DEF IInv
<1>2. TasksOK'
  <2>1. \A t \in Sessions : Started(t) => Started(t)' /\ Ages(net[t], net'[t])
    BY DEF Started, NetAges
  <2>2. \A i \in DOMAIN todo :
           todo[i].does = "dialed" => ui'.dialing
    BY <1>1 DEF TasksOK, TaskOK
  <2>3. CASE todo' = todo
    BY <1>1, <2>1, <2>2, <2>3, TasksStay
  <2>4. CASE \E c \in Tasks : todo' = Append(todo, c) /\ TaskOK(c)'
    <3>1. PICK c \in Tasks : todo' = Append(todo, c) /\ TaskOK(c)'
      BY <2>4
    <3>2. \A i \in DOMAIN todo' : (i \in DOMAIN todo /\ todo'[i] = todo[i]) \/ todo'[i] = c
      BY <1>1, <3>1 DEF Types
    <3> QED BY <1>1, <2>1, <2>2, <3>1, <3>2, TasksStay
  <2> QED BY <2>3, <2>4
<1>3. Dialing'
  <2>1. ui'.dialing = ui.dialing /\ ui'.client \in {ui.client, None} /\ opened' = opened
    OBVIOUS
  <2>2. \A t \in Sessions : net'[t].reading => net[t].reading
    BY DEF NetAges
  <2> QED BY <1>1, <2>1, <2>2, DialingStays
<1>4. Polling'
  <2>1. ui' = [ui EXCEPT !.dialing = ui'.dialing, !.view = ui'.view]
    BY <1>1 DEF Types, Screens
  <2>2. \A s \in Sessions : ui.client = s => SameDue(Due(s), Due(s)')
    BY DEF SameDue
  <2> QED BY <1>1, <2>1, <2>2, PollingStays DEF Types
<1> QED BY <1>2, <1>3, <1>4 DEF IInv

LEMMA DueKept ==
    ASSUME NEW s \in Sessions, ToldTo(s)' = ToldTo(s),
           net'[s].pending = net[s].pending, net'[s].outgoing = net[s].outgoing
    PROVE  Due(s)' = Due(s)
BY DEF Due, ToldTo

\* A step that changes one connection, and gives no callback.
LEMMA ConnectionStep ==
    ASSUME IInv, NEW s \in Sessions, NEW m \in Connections,
           net' = [net EXCEPT ![s] = m], ConnectionOK(m), Ages(net[s], m),
           m.reading => net[s].reading,
           m.pending \o m.outgoing = net[s].pending \o net[s].outgoing,
           UNCHANGED <<ui, todo, pollers, opened, typed>>, version' \in 1 .. MaxVersion
    PROVE  IInv'
<1>1. Types /\ ConnectionsOK
  BY DEF IInv
<1>2. /\ net' \in [Sessions -> Connections] /\ ConnectionsOK'
      /\ \A t \in Sessions : net'[t] = IF t = s THEN m ELSE net[t]
  BY <1>1, OneChanges
<1>3. Types'
  BY <1>1, <1>2 DEF Types
<1>4. NetAges
  BY <1>1, <1>2, OneAges
<1>5. ASSUME NEW t \in Sessions PROVE Due(t)' = Due(t)
  <2>1. ToldTo(t)' = ToldTo(t)
    BY DEF ToldTo, Heard
  <2>2. CASE t # s
    BY <1>2, <2>1, <2>2, DueKept
  <2>3. CASE t = s
    <3> DEFINE a == ToldTo(t)
               b == net[s].pending
               c == net[s].outgoing
               p == m.pending
               q == m.outgoing
    <3>1. a \in Seq(Words) /\ b \in Seq(Words) /\ c \in Seq(Words)
      BY <1>1, <2>3, DueParts
    <3>2. p \in Seq(Words) /\ q \in Seq(Words)
      <4>1. p \in Seq(Requests) /\ q \in Seq(Requests)
        BY DEF Connections
      <4>2. \A A, B, x : A \subseteq B /\ x \in Seq(A) => x \in Seq(B)
        OBVIOUS
      <4>3. Requests \subseteq Words
        BY DEF Words
      <4> QED BY <4>1, <4>2, <4>3
    <3>3. Due(t) = a \o b \o c
      BY <2>3 DEF Due, ToldTo
    <3>4. Due(t)' = a \o p \o q
      BY <1>2, <2>1, <2>3 DEF Due, ToldTo
    <3>5. p \o q = b \o c
      OBVIOUS
    <3> HIDE DEF a, b, c, p, q
    <3>6. a \o b \o c = a \o (b \o c)
      BY <3>1, Associative
    <3>7. a \o p \o q = a \o (p \o q)
      BY <3>1, <3>2, Associative, SMTT(30)
    <3> QED BY <3>3, <3>4, <3>5, <3>6, <3>7
  <2> QED BY <2>2, <2>3
<1>6. UNCHANGED <<ui, pollers, opened>> /\ todo' = todo
  OBVIOUS
<1> QED BY <1>2, <1>3, <1>4, <1>5, <1>6, GoroutineKeeps

LEMMA SeqFacts ==
    \A S, q : q \in Seq(S) =>
       /\ q # <<>> => Head(q) \in S /\ Tail(q) \in Seq(S)
       /\ \A x \in S : Append(q, x) \in Seq(S)
       /\ \A k \in 0 .. Len(q) : SubSeq(q, 1, k) \in Seq(S)
OBVIOUS

LEMMA TakeLineKeeps ==
    ASSUME IInv, NEW s \in Sessions, TakeLine(s)
    PROVE  IInv'
<1> DEFINE n == net[s]
           r == Head(n.outgoing)
           m == [n EXCEPT !.outgoing = Tail(n.outgoing), !.writing = r,
                          !.pending = Append(n.pending, r)]
<1>1. n \in Connections /\ ConnectionOK(n)
  BY DEF IInv, Types, ConnectionsOK
<1>2. n.outgoing # <<>> /\ n.writing = "" /\ net' = [net EXCEPT ![s] = m]
  BY DEF TakeLine
<1>3. n.outgoing \in Seq(Requests) /\ n.pending \in Seq(Requests)
  BY <1>1 DEF Connections
<1>4. r \in Requests /\ Tail(n.outgoing) \in Seq(Requests) /\ Append(n.pending, r) \in Seq(Requests)
  BY <1>2, <1>3, SeqFacts
<1>5. m \in Connections
  <2> HIDE DEF r
  <2> QED BY <1>1, <1>4 DEF Connections
<1>6. Takes(n, m, r) /\ m.reading = n.reading
  <2> HIDE DEF r
  <2> QED BY <1>1, <1>2 DEF Takes, Connections
<1>7. m.pending \o m.outgoing = n.pending \o n.outgoing
  <2> DEFINE b == n.pending
             c == n.outgoing
  <2>1. m.pending = Append(b, Head(c)) /\ m.outgoing = Tail(c)
    BY <1>1 DEF Connections
  <2>2. b \in Seq(Requests) /\ c \in Seq(Requests) /\ c # <<>>
    BY <1>2, <1>3
  <2> HIDE DEF b, c, m
  <2>3. Append(b, Head(c)) \o Tail(c) = b \o c
    BY <2>2
  <2> QED BY <2>1, <2>3 DEF b, c
<1>8. UNCHANGED <<ui, todo, pollers, opened, typed>> /\ version' \in 1 .. MaxVersion
  BY DEF TakeLine, Same, IInv, Types
<1> HIDE DEF m, r
<1>9. ConnectionOK(m) /\ Ages(n, m)
  BY <1>1, <1>4, <1>5, <1>6, Taking
<1> QED BY <1>2, <1>5, <1>6, <1>7, <1>8, <1>9, ConnectionStep

LEMMA WriteLineKeeps ==
    ASSUME IInv, NEW s \in Sessions, WriteLine(s)
    PROVE  IInv'
<1> DEFINE n == net[s]
           m == [n EXCEPT !.up = Append(n.up, n.writing), !.writing = ""]
<1>1. n \in Connections /\ ConnectionOK(n)
  BY DEF IInv, Types, ConnectionsOK
<1>2. n.writing # "" /\ net' = [net EXCEPT ![s] = m]
  BY DEF WriteLine
<1>3. Append(n.up, n.writing) \in Seq(Requests)
  <2>1. n.up \in Seq(Requests) /\ n.writing \in Requests
    BY <1>1, <1>2 DEF Connections
  <2> QED BY <2>1, SeqFacts
<1>4. m \in Connections
  BY <1>1, <1>3 DEF Connections
<1>5. Writes(n, m) /\ m.reading = n.reading /\ m.pending = n.pending /\ m.outgoing = n.outgoing
  BY <1>1, <1>2 DEF Writes, Connections
<1>6. UNCHANGED <<ui, todo, pollers, opened, typed>> /\ version' \in 1 .. MaxVersion
  BY DEF WriteLine, Same, IInv, Types
<1> HIDE DEF m
<1>7. ConnectionOK(m) /\ Ages(n, m)
  BY <1>1, <1>4, <1>5, Writing
<1> QED BY <1>2, <1>4, <1>5, <1>6, <1>7, ConnectionStep

LEMMA BreakKeeps ==
    ASSUME IInv, NEW s \in Sessions, Break(s)
    PROVE  IInv'
<1> DEFINE n == net[s]
<1>1. PICK k \in 0 .. Len(n.down) :
         net' = [net EXCEPT ![s].server = "closed", ![s].down = SubSeq(@, 1, k)]
  BY DEF Break
<1> DEFINE m == [n EXCEPT !.server = "closed", !.down = SubSeq(n.down, 1, k)]
<1>2. n \in Connections /\ ConnectionOK(n)
  BY DEF IInv, Types, ConnectionsOK
<1>3. net' = [net EXCEPT ![s] = m]
  BY <1>1
<1>4. SubSeq(n.down, 1, k) \in Seq(Lines)
  BY <1>2, SeqFacts, Fields
<1>5. m \in Connections
  BY <1>2, <1>4 DEF Connections
<1>6. /\ m.pending = n.pending /\ m.outgoing = n.outgoing /\ m.server = "closed"
      /\ m.refused = n.refused /\ m.reading = n.reading /\ m.down = SubSeq(n.down, 1, k)
  BY <1>2 DEF Connections
<1>7. UNCHANGED <<ui, todo, pollers, opened, typed>> /\ version' \in 1 .. MaxVersion
  BY DEF Break, Same, IInv, Types
<1> HIDE DEF m
<1>8. ConnectionOK(m) /\ Ages(n, m)
  BY <1>2, <1>5, <1>6, Ending
<1> QED BY <1>3, <1>5, <1>6, <1>7, <1>8, ConnectionStep

\* An answer to the first command that has reached the server.
LEMMA AnsweredLine ==
    ASSUME Types, NEW s \in Sessions, net[s].up # <<>>, NEW ok \in BOOLEAN
    PROVE  LET l == Answered(s, ok)
           IN  /\ l \in Lines /\ l.kind = "answer" /\ l.to = Head(net[s].up) /\ l.ok = ok
               /\ l.to \in Requests
<1>1. Head(net[s].up) \in Requests
  <2>1. net[s].up \in Seq(Requests)
    BY DEF Types, Connections
  <2> QED BY <2>1, SeqFacts
<1>2. version \in 0 .. MaxVersion /\ 0 \in 0 .. MaxVersion
  BY BoundsAssumption DEF Types
<1> QED BY <1>1, <1>2 DEF Answered, Line, Lines

LEMMA RefuseKeeps ==
    ASSUME IInv, NEW s \in Sessions, Refuse(s)
    PROVE  IInv'
<1> DEFINE n == net[s]
           l == Answered(s, FALSE)
           refused == n.refused \/ Head(n.up) = "CONNECT"
           m == [n EXCEPT !.up = Tail(n.up), !.down = Append(n.down, l), !.refused = refused]
<1>1. n \in Connections /\ ConnectionOK(n) /\ Types
  BY DEF IInv, Types, ConnectionsOK
<1>2. n.up # <<>> /\ n.server # "closed" /\ net' = [net EXCEPT ![s] = m]
  BY DEF Refuse, Serves
<1>3. l \in Lines /\ l.kind = "answer" /\ l.to = Head(n.up) /\ l.ok = FALSE /\ l.to \in Requests
  BY <1>1, <1>2, AnsweredLine
<1> HIDE DEF l
<1>4. Tail(n.up) \in Seq(Requests) /\ Append(n.down, l) \in Seq(Lines)
  <2>1. n.up \in Seq(Requests) /\ n.down \in Seq(Lines)
    BY <1>1 DEF Connections
  <2> QED BY <1>2, <1>3, <2>1, SeqFacts
<1>5. m \in Connections
  BY <1>1, <1>4 DEF Connections
<1>6. /\ m.pending = n.pending /\ m.outgoing = n.outgoing /\ m.reading = n.reading
      /\ m.server = n.server /\ m.refused = refused
  BY <1>1 DEF Connections
<1>7. Replies(n, m, l)
  BY <1>1, <1>2, <1>3 DEF Replies, Sends, Connections
<1>8. UNCHANGED <<ui, todo, pollers, opened, typed>> /\ version' \in 1 .. MaxVersion
  BY DEF Refuse, Same, IInv, Types
<1>9. Ages(n, m) /\ LineOK(m, l)
  BY <1>3, <1>6 DEF Ages, LineOK, Requests
<1> HIDE DEF m
<1>10. ConnectionOK(m)
  BY <1>1, <1>3, <1>5, <1>7, <1>9, Replying
<1> QED BY <1>2, <1>5, <1>6, <1>8, <1>9, <1>10, ConnectionStep

LEMMA GrantKeeps ==
    ASSUME IInv, NEW s \in Sessions, Grant(s)
    PROVE  IInv'
<1> DEFINE n == net[s]
           r == Head(n.up)
           l == Answered(s, TRUE)
           server == CASE r = "CONNECT" -> "playing"
                       [] r = "QUIT"    -> "closed"
                       [] OTHER         -> n.server
           m == [n EXCEPT !.up = Tail(n.up), !.down = Append(n.down, l), !.server = server]
<1>1. n \in Connections /\ ConnectionOK(n) /\ Types
  BY DEF IInv, Types, ConnectionsOK
<1>2. n.up # <<>> /\ n.server # "closed" /\ net' = [net EXCEPT ![s] = m]
  BY DEF Grant, Serves
<1>3. l \in Lines /\ l.kind = "answer" /\ l.to = r /\ l.ok = TRUE /\ l.to \in Requests
  BY <1>1, <1>2, AnsweredLine
<1>4. /\ server \in {"open", "playing", "closed"}
      /\ r = "QUIT" => server = "closed"
  BY <1>1 DEF Connections
<1> HIDE DEF l, r, server
<1>5. Tail(n.up) \in Seq(Requests) /\ Append(n.down, l) \in Seq(Lines)
  <2>1. n.up \in Seq(Requests) /\ n.down \in Seq(Lines)
    BY <1>1 DEF Connections
  <2> QED BY <1>2, <1>3, <2>1, SeqFacts
<1>6. m \in Connections
  BY <1>1, <1>4, <1>5 DEF Connections
<1>7. /\ m.pending = n.pending /\ m.outgoing = n.outgoing /\ m.reading = n.reading
      /\ m.server = server /\ m.refused = n.refused
  BY <1>1 DEF Connections
<1>8. Replies(n, m, l)
  BY <1>1, <1>2, <1>3 DEF Replies, Sends, Connections, r
<1>9. UNCHANGED <<ui, todo, pollers, opened, typed>> /\ version' \in 1 .. MaxVersion
  BY BoundsAssumption DEF Grant, IInv, Types
<1>10. Ages(n, m) /\ LineOK(m, l)
  BY <1>2, <1>3, <1>4, <1>7 DEF Ages, LineOK, Requests
<1> HIDE DEF m
<1>11. ConnectionOK(m)
  BY <1>1, <1>3, <1>6, <1>8, <1>10, Replying
<1> QED BY <1>2, <1>6, <1>7, <1>9, <1>10, <1>11, ConnectionStep

LEMMA ChangeKeeps ==
    ASSUME IInv, NEW s \in Sessions, Change(s)
    PROVE  IInv'
<1> DEFINE n == net[s]
           l == Line("event", "", TRUE, 0)
<1>1. n \in Connections /\ ConnectionOK(n)
  BY DEF IInv, Types, ConnectionsOK
<1>2. UNCHANGED <<ui, todo, pollers, opened, typed>> /\ version' \in 1 .. MaxVersion
  <2>1. UNCHANGED <<ui, todo, pollers, opened, typed>>
    BY DEF Change
  <2>2. version' = version + 1 /\ version < MaxVersion
    BY DEF Change
  <2> QED BY <2>1, <2>2, BoundsAssumption DEF IInv, Types
<1>3. CASE net' = net
  <2>1. net' = [net EXCEPT ![s] = n]
    BY <1>3 DEF IInv, Types
  <2>2. Ages(n, n)
    BY DEF Ages
  <2> QED BY <1>1, <1>2, <2>1, <2>2, ConnectionStep
<1>4. CASE net' = [net EXCEPT ![s].down = Append(@, l)]
  <2> DEFINE m == [n EXCEPT !.down = Append(n.down, l)]
  <2>1. l \in Lines
    <3>1. 0 \in 0 .. MaxVersion
      BY BoundsAssumption
    <3> QED BY <3>1 DEF Line, Lines
  <2>2. l.kind = "event" /\ l.to = ""
    BY DEF Line
  <2>3. net' = [net EXCEPT ![s] = m]
    BY <1>4
  <2> HIDE DEF l
  <2>4. Append(n.down, l) \in Seq(Lines)
    <3>1. n.down \in Seq(Lines)
      BY <1>1 DEF Connections
    <3> QED BY <2>1, <3>1, SeqFacts
  <2>5. m \in Connections
    BY <1>1, <2>4 DEF Connections
  <2>6. /\ m.pending = n.pending /\ m.outgoing = n.outgoing /\ m.reading = n.reading
        /\ m.server = n.server /\ m.refused = n.refused
    BY <1>1 DEF Connections
  <2>7. Tells(n, m, l)
    BY <1>1, <2>2 DEF Tells, Sends, Connections
  <2>8. Ages(n, m) /\ LineOK(m, l)
    BY <2>2, <2>6 DEF Ages, LineOK
  <2> HIDE DEF m
  <2>9. ConnectionOK(m)
    BY <1>1, <2>1, <2>5, <2>7, <2>8, Telling
  <2> QED BY <1>2, <2>3, <2>5, <2>6, <2>8, <2>9, ConnectionStep
<1> QED BY <1>3, <1>4 DEF Change

LEMMA DeliverKeeps ==
    ASSUME IInv, NEW s \in Sessions, Deliver(s)
    PROVE  IInv'
<1> DEFINE n == net[s]
           l == Head(n.down)
           response == l.kind = "answer" /\ n.pending # <<>>
           request == IF response THEN Head(n.pending) ELSE ""
           rest == IF response THEN Tail(n.pending) ELSE n.pending
           m == [n EXCEPT !.down = Tail(n.down), !.pending = rest]
<1>1. n \in Connections /\ ConnectionOK(n) /\ Types /\ ConnectionsOK /\ Dialing
  BY DEF IInv, Types, ConnectionsOK
<1>2. /\ n.down # <<>> /\ n.reading
      /\ net' = [net EXCEPT ![s] = m] /\ todo' = Append(todo, Message(s, l, request))
      /\ UNCHANGED <<ui, pollers, opened, version, typed>>
  BY DEF Deliver, IsResponse, Same
<1>3. l \in Lines /\ LineOK(n, l)
  BY <1>1, <1>2, FirstLine
<1>4. Tail(n.down) \in Seq(Lines)
  BY <1>1, <1>2, FirstLine
<1>5. request = l.to
  BY <1>1, <1>2, <1>3, HeadIsAnswered DEF LineOK
<1>6. request \in Words /\ rest \in Seq(Requests)
  <2>1. n.pending \in Seq(Requests)
    BY <1>1 DEF Connections
  <2> QED BY <1>3, <1>5, <2>1, SeqFacts DEF Lines, Words
<1>7. response <=> l.kind = "answer"
  BY <1>1, <1>2, HeadIsAnswered
<1>8. m \in Connections
  <2> HIDE DEF rest
  <2> QED BY <1>1, <1>4, <1>6 DEF Connections
<1>9. Reads(n, m) /\ m.reading = n.reading /\ m.outgoing = n.outgoing /\ m.pending = rest
  BY <1>1, <1>2 DEF Reads, Connections
<1>10. PICK c \in Messages :
          /\ todo' = Append(todo, c)
          /\ c.does = "message" /\ c.client = s /\ c.line = l /\ c.request = request
  <2> DEFINE c == Message(s, l, request)
  <2>1. request \in Requests \cup {""}
    BY <1>6 DEF Words
  <2> HIDE DEF l, request
  <2>2. c \in Messages /\ c.does = "message" /\ c.client = s /\ c.line = l /\ c.request = request
    BY <1>3, <2>1 DEF Message, Messages
  <2>3. todo' = Append(todo, c)
    BY <1>2 DEF l, request
  <2> HIDE DEF c
  <2> QED BY <2>2, <2>3
<1>11. c \in Tasks
  BY DEF Tasks
<1> HIDE DEF m
<1>12. ConnectionOK(m) /\ Ages(n, m)
  BY <1>1, <1>8, <1>9, Reading
<1>13. /\ net' \in [Sessions -> Connections] /\ ConnectionsOK'
       /\ \A t \in Sessions : net'[t] = IF t = s THEN m ELSE net[t]
  BY <1>1, <1>2, <1>8, <1>12, OneChanges
<1>14. Types'
  <2>1. todo' \in Seq(Tasks)
    BY <1>1, <1>10, <1>11, SeqFacts DEF Types
  <2> QED BY <1>1, <1>2, <1>13, <2>1 DEF Types
<1>15. NetAges
  BY <1>1, <1>9, <1>12, <1>13, OneAges
<1>16. TaskOK(c)'
  <2>1. Started(s)'
    BY <1>1, <1>2 DEF Dialing, Started
  <2>2. LineOK(net'[s], l)
    BY <1>3, <1>12, <1>13, LinesAge
  <2> QED BY <1>5, <1>10, <2>1, <2>2 DEF TaskOK, Started
<1>17. ASSUME NEW t \in Sessions PROVE Due(t)' = Due(t)
  <2>1. ToldTo(t)' = IF c \in Heard(t) THEN Append(ToldTo(t), request) ELSE ToldTo(t)
    BY <1>1, <1>10, <1>11, ToldMore
  <2>2. c \in Heard(t) <=> t = s /\ response
    BY <1>7, <1>10 DEF Heard
  <2>3. CASE c \notin Heard(t)
    <3>1. net'[t].pending = net[t].pending /\ net'[t].outgoing = net[t].outgoing
      BY <1>9, <1>13, <2>2, <2>3
    <3> QED BY <2>1, <2>3, <3>1, DueKept
  <2>4. CASE c \in Heard(t)
    <3> DEFINE a == ToldTo(t)
               b == net[t].pending
               o == net[t].outgoing
    <3>1. a \in Seq(Words) /\ b \in Seq(Words) /\ o \in Seq(Words)
      BY <1>1, DueParts
    <3>2. b # <<>> /\ Due(t) = a \o b \o o
      BY <2>2, <2>4 DEF Due, ToldTo
    <3>3. net'[t].pending = Tail(b) /\ net'[t].outgoing = o
      BY <1>9, <1>13, <2>2, <2>4
    <3>4. ToldTo(t)' = Append(a, Head(b))
      BY <2>1, <2>2, <2>4
    <3>5. Due(t)' = Append(a, Head(b)) \o Tail(b) \o o
      BY <3>3, <3>4 DEF Due, ToldTo
    <3> HIDE DEF a, b, o
    <3>6. a \o b \o o = Append(a, Head(b)) \o Tail(b) \o o
      BY <3>1, <3>2, FirstMoves
    <3> QED BY <3>2, <3>5, <3>6
  <2> QED BY <2>3, <2>4
<1>18. UNCHANGED <<ui, pollers, opened>>
  BY <1>2
<1>19. \E d \in Tasks :
          /\ todo' = Append(todo, d)
          /\ TaskOK(d)'
          /\ d.does = "dialed" => \A i \in DOMAIN todo : todo[i].does # "dialed"
  BY <1>10, <1>11, <1>16
<1> QED BY <1>13, <1>14, <1>15, <1>17, <1>18, <1>19, GoroutineKeeps

LEMMA ReaderEndsKeeps ==
    ASSUME IInv, NEW s \in Sessions, ReaderEnds(s)
    PROVE  IInv'
<1> DEFINE n == net[s]
           m == [n EXCEPT !.reading = FALSE, !.done = TRUE, !.down = <<>>]
<1>1. n \in Connections /\ ConnectionOK(n) /\ Types /\ ConnectionsOK /\ Dialing
  BY DEF IInv, Types, ConnectionsOK
<1>2. /\ n.server = "closed" /\ n.reading
      /\ net' = [net EXCEPT ![s] = m]
      /\ UNCHANGED <<ui, pollers, opened, version, typed>>
  BY <1>1 DEF ReaderEnds, Same, ConnectionOK
<1>3. <<>> \in Seq(Lines)
  OBVIOUS
<1>4. m \in Connections
  BY <1>1, <1>3 DEF Connections
<1>5. /\ m.pending = n.pending /\ m.outgoing = n.outgoing /\ m.server = "closed"
      /\ m.refused = n.refused /\ ~m.reading /\ m.down = <<>>
  BY <1>1, <1>2 DEF Connections
<1> HIDE DEF m
<1>6. ConnectionOK(m) /\ Ages(n, m)
  <2>1. n.down \in Seq(Lines)
    BY <1>1 DEF Connections
  <2>2. 0 \in 0 .. Len(n.down) /\ SubSeq(n.down, 1, 0) = <<>>
    BY <2>1
  <2> QED BY <1>1, <1>4, <1>5, <2>2, Ending
<1>7. /\ net' \in [Sessions -> Connections] /\ ConnectionsOK'
      /\ \A t \in Sessions : net'[t] = IF t = s THEN m ELSE net[t]
  BY <1>1, <1>2, <1>4, <1>6, OneChanges
<1>8. NetAges
  BY <1>1, <1>5, <1>6, <1>7, OneAges
<1>9. \A t \in Sessions : ToldTo(t)' = ToldTo(t) => Due(t)' = Due(t)
  BY <1>5, <1>7, DueKept
<1>10. CASE todo' = todo
  <2>1. \A t \in Sessions : ToldTo(t)' = ToldTo(t)
    BY <1>10 DEF ToldTo, Heard
  <2>2. Types'
    BY <1>1, <1>2, <1>7, <1>10 DEF Types
  <2>3. UNCHANGED <<ui, pollers, opened>>
    BY <1>2
  <2> QED BY <1>7, <1>8, <1>9, <1>10, <2>1, <2>2, <2>3, GoroutineKeeps
<1>11. CASE todo' = Append(todo, Disconnection(s))
  <2>1. PICK c \in Tasks :
           todo' = Append(todo, c) /\ c.does = "disconnect" /\ c.client = s
    BY <1>11 DEF Disconnection, Tasks, Disconnections
  <2>2. \A t \in Sessions : ToldTo(t)' = ToldTo(t)
    <3>1. \A t : c \notin Heard(t)
      BY <2>1 DEF Heard, Messages
    <3> QED BY <1>1, <2>1, <3>1, ToldMore
  <2>3. Types'
    <3>1. todo' \in Seq(Tasks)
      BY <1>1, <2>1, SeqFacts DEF Types
    <3> QED BY <1>1, <1>2, <1>7, <3>1 DEF Types
  <2>4. UNCHANGED <<ui, pollers, opened>>
    BY <1>2
  <2>5. TaskOK(c)'
    <3>1. Started(s)'
      BY <1>1, <1>2 DEF Dialing, Started
    <3>2. net'[s].server = "closed"
      BY <1>5, <1>7
    <3> QED BY <2>1, <3>1, <3>2 DEF TaskOK, Started
  <2>6. \E d \in Tasks :
           /\ todo' = Append(todo, d)
           /\ TaskOK(d)'
           /\ d.does = "dialed" => \A i \in DOMAIN todo : todo[i].does # "dialed"
    BY <2>1, <2>5
  <2> QED BY <1>7, <1>8, <1>9, <2>2, <2>3, <2>4, <2>6, GoroutineKeeps
<1> QED BY <1>10, <1>11 DEF ReaderEnds

\* A callback that is no answer.
LEMMA CallbackKeeps ==
    ASSUME IInv, UNCHANGED <<ui, net, pollers, opened, version, typed>>,
           NEW c \in Tasks, todo' = Append(todo, c), c.does \in {"poll", "dialed"},
           c.does = "dialed" => ui.dialing /\ \A i \in DOMAIN todo : todo[i].does # "dialed"
    PROVE  IInv'
<1>1. Types /\ ConnectionsOK
  BY DEF IInv
<1>2. \A t \in Sessions : Due(t)' = Due(t)
  <2>1. \A t : c \notin Heard(t)
    BY DEF Heard, Messages
  <2>2. \A t : ToldTo(t)' = ToldTo(t)
    BY <1>1, <2>1, ToldMore
  <2> QED BY <2>2, DueKept
<1>3. Types'
  <2>1. todo' \in Seq(Tasks)
    BY <1>1, SeqFacts DEF Types
  <2> QED BY <1>1, <2>1 DEF Types
<1>4. ConnectionsOK' /\ NetAges
  BY <1>1 DEF ConnectionsOK, NetAges, Ages
<1>5. TaskOK(c)'
  BY DEF TaskOK
<1>6. UNCHANGED <<ui, pollers, opened>>
  OBVIOUS
<1>7. \E d \in Tasks :
         /\ todo' = Append(todo, d)
         /\ TaskOK(d)'
         /\ d.does = "dialed" => \A i \in DOMAIN todo : todo[i].does # "dialed"
  BY <1>5
<1> QED BY <1>2, <1>3, <1>4, <1>6, <1>7, GoroutineKeeps

LEMMA DialKeeps == IInv /\ Dial => IInv'
<1> SUFFICES ASSUME IInv, Dial PROVE IInv'
  OBVIOUS
<1>1. PICK ok \in BOOLEAN : todo' = Append(todo, Dialed(ok))
  BY DEF Dial
<1>2. Dialed(ok) \in Tasks /\ Dialed(ok).does = "dialed"
  BY DEF Dialed, Tasks, Dials
<1>3. /\ UNCHANGED <<ui, net, pollers, opened, version, typed>>
      /\ ui.dialing /\ \A i \in DOMAIN todo : todo[i].does # "dialed"
  BY DEF Dial, Same
<1> QED BY <1>1, <1>2, <1>3, CallbackKeeps

LEMMA TickKeeps ==
    ASSUME IInv, NEW p \in DOMAIN pollers, Tick(p)
    PROVE  IInv'
<1>1. p \in Nat
  BY DEF IInv, Types
<1>2. Poll(p) \in Tasks /\ Poll(p).does = "poll" /\ todo' = Append(todo, Poll(p))
  BY <1>1 DEF Tick, Poll, Tasks, Polls
<1>3. UNCHANGED <<ui, net, pollers, opened, version, typed>>
  BY DEF Tick, Same
<1> QED BY <1>2, <1>3, CallbackKeeps

-------------------------------------------------------------------------------
(* The UI thread.                                                          *)

\* The part of the list that a callback leaves, before it sends anything.
StillDue(s) == ToldTo(s)' \o net[s].pending \o net[s].outgoing

LEMMA ToldTyped ==
    ASSUME NEW s, todo' \in Seq(Tasks)
    PROVE  ToldTo(s)' \in Seq(Words)
<1> DEFINE d == todo'
<1>1. Selected(d, Heard(s)) \in Seq(Heard(s))
  BY HeardType
<1>2. Told(Selected(d, Heard(s))) \in Seq(Words)
  BY <1>1, ToldType
<1> QED BY <1>2 DEF ToldTo, Heard

LEMMA StillDueType ==
    ASSUME Types, NEW s \in Sessions, todo' \in Seq(Tasks)
    PROVE  StillDue(s) \in Seq(Words)
<1> DEFINE a == ToldTo(s)'
           b == net[s].pending
           c == net[s].outgoing
<1>1. a \in Seq(Words) /\ b \in Seq(Words) /\ c \in Seq(Words)
  BY DueParts, ToldTyped
<1> HIDE DEF a, b, c
<1>2. a \o b \o c \in Seq(Words)
  BY <1>1
<1> QED BY <1>2 DEF StillDue, a, b, c

\* Whether something is sent or not.
LEMMA DueNext ==
    ASSUME Types, NEW s \in Sessions, todo' \in Seq(Tasks),
           net'[s].pending = net[s].pending
    PROVE  /\ net'[s].outgoing = net[s].outgoing => Due(s)' = StillDue(s)
           /\ \A x \in Words : net'[s].outgoing = Append(net[s].outgoing, x) =>
                 Due(s)' = Append(StillDue(s), x)
<1> DEFINE a == ToldTo(s)'
           b == net[s].pending
           c == net[s].outgoing
<1>1. a \in Seq(Words) /\ b \in Seq(Words) /\ c \in Seq(Words)
  BY DueParts, ToldTyped
<1>2. Due(s)' = a \o b \o net'[s].outgoing
  BY DEF Due, ToldTo
<1>3. StillDue(s) = a \o b \o c
  BY DEF StillDue
<1> HIDE DEF a, b
<1>4. ASSUME NEW x \in Words, net'[s].outgoing = Append(c, x)
      PROVE  Due(s)' = Append(StillDue(s), x)
  <2> HIDE DEF c
  <2>1. a \o b \o Append(c, x) = Append(a \o b \o c, x)
    BY <1>1, LastAppends
  <2> QED BY <1>2, <1>3, <1>4, <2>1
<1> QED BY <1>2, <1>3, <1>4

LEMMA DueBefore ==
    ASSUME Types, NEW s \in Sessions
    PROVE  /\ todo' = todo => StillDue(s) = Due(s)
           /\ todo # <<>> /\ todo' = Tail(todo) /\ Head(todo) \notin Heard(s) =>
                 StillDue(s) = Due(s)
<1>1. todo' = todo => ToldTo(s)' = ToldTo(s)
  BY DEF ToldTo, Heard
<1>2. todo # <<>> /\ todo' = Tail(todo) /\ Head(todo) \notin Heard(s) =>
         ToldTo(s)' = ToldTo(s)
  BY ToldLess
<1> QED BY <1>1, <1>2 DEF StillDue, Due, ToldTo

LEMMA DueHeard ==
    ASSUME Types, NEW s \in Sessions, todo # <<>>, todo' = Tail(todo), Head(todo) \in Heard(s)
    PROVE  /\ Due(s) # <<>> /\ Head(Due(s)) = Head(todo).request
           /\ StillDue(s) = Tail(Due(s))
<1> DEFINE a == ToldTo(s)'
           b == net[s].pending
           c == net[s].outgoing
           x == Head(todo).request
<1>1. todo' \in Seq(Tasks)
  BY SeqFacts DEF Types
<1>2. a \in Seq(Words) /\ b \in Seq(Words) /\ c \in Seq(Words)
  BY <1>1, DueParts, ToldTyped
<1>3. x \in Words
  BY DEF Heard, Messages, Words
<1>4. Due(s) = (<<x>> \o a) \o b \o c
  <2>1. ToldTo(s) = <<x>> \o a
    BY ToldLess
  <2> QED BY <2>1 DEF Due, ToldTo
<1>5. StillDue(s) = a \o b \o c
  BY DEF StillDue
<1> HIDE DEF a, b, c, x
<1>6. Tail((<<x>> \o a) \o b \o c) = a \o b \o c
  BY <1>2, <1>3, FirstGoes, SMTT(30)
<1>7. (<<x>> \o a) \o b \o c # <<>> /\ Head((<<x>> \o a) \o b \o c) = x
  BY <1>2, <1>3, FirstIs
<1> QED BY <1>4, <1>5, <1>6, <1>7 DEF x

\* What is sent by send.
LEMMA SentNet ==
    ASSUME Types, ConnectionsOK, ui.client \in Sessions, NEW x \in Requests,
           net' = Sent(ui.client, x)
    PROVE  /\ net' \in [Sessions -> Connections] /\ ConnectionsOK' /\ NetAges
           /\ \A t \in Sessions : t # ui.client => net'[t] = net[t]
           /\ net'[ui.client].pending = net[ui.client].pending
           /\ CanSend(ui.client) => net'[ui.client].outgoing = Append(net[ui.client].outgoing, x)
           /\ ~CanSend(ui.client) => net'[ui.client].outgoing = net[ui.client].outgoing
<1>1. CASE ~CanSend(ui.client)
  BY <1>1 DEF Sent, Types, ConnectionsOK, NetAges, Ages
<1>2. CASE CanSend(ui.client)
  <2> DEFINE s == ui.client
             n == net[s]
             m == [n EXCEPT !.outgoing = Append(n.outgoing, x)]
  <2>1. n \in Connections /\ ConnectionOK(n)
    BY DEF Types, ConnectionsOK
  <2>2. net' = [net EXCEPT ![s] = m]
    BY <1>2 DEF Sent
  <2>3. Append(n.outgoing, x) \in Seq(Requests)
    <3>1. n.outgoing \in Seq(Requests)
      BY <2>1 DEF Connections
    <3> QED BY <3>1, SeqFacts
  <2>4. m \in Connections
    BY <2>1, <2>3 DEF Connections
  <2>5. /\ m.pending = n.pending /\ m.writing = n.writing /\ m.up = n.up /\ m.down = n.down
        /\ m.server = n.server /\ m.refused = n.refused /\ m.done = n.done
        /\ m.reading = n.reading /\ m.outgoing = Append(n.outgoing, x)
    BY <2>1 DEF Connections
  <2> HIDE DEF m
  <2>6. ConnectionOK(m) /\ Ages(n, m)
    BY <2>1, <2>5, Queueing
  <2>7. /\ net' \in [Sessions -> Connections] /\ ConnectionsOK'
        /\ \A t \in Sessions : net'[t] = IF t = s THEN m ELSE net[t]
    BY <2>2, <2>4, <2>6, OneChanges
  <2>8. NetAges
    BY <2>5, <2>6, <2>7, OneAges
  <2> QED BY <1>2, <2>5, <2>7, <2>8
<1> QED BY <1>1, <1>2

\* A step of the UI thread, but for what it means for polling.
LEMMA UIStep ==
    ASSUME IInv, Types', ConnectionsOK', Polling', NetAges,
           ui'.dialing = ui.dialing, ui'.client \in {ui.client, None}, opened' = opened,
           todo' = todo \/ (todo # <<>> /\ todo' = Tail(todo))
    PROVE  IInv'
<1>1. Types /\ TasksOK /\ Dialing
  BY DEF IInv
<1>2. Dialing'
  BY <1>1, DialingStays DEF NetAges
<1>3. TasksOK'
  <2>1. \A t \in Sessions : Started(t) => Started(t)' /\ Ages(net[t], net'[t])
    BY DEF Started, NetAges
  <2>2. \A i \in DOMAIN todo : todo[i].does = "dialed" => ui'.dialing
    BY <1>1 DEF TasksOK, TaskOK
  <2>3. \A i \in DOMAIN todo' : \E j \in DOMAIN todo : todo'[i] = todo[j]
    <3>1. CASE todo' = todo
      BY <3>1
    <3>2. CASE todo # <<>> /\ todo' = Tail(todo)
      <4> DEFINE d == todo
      <4>1. d \in Seq(Tasks) /\ d # <<>>
        BY <1>1, <3>2 DEF Types
      <4> HIDE DEF d
      <4>2. \A i \in DOMAIN Tail(d) : i + 1 \in DOMAIN d /\ Tail(d)[i] = d[i + 1]
        BY <4>1
      <4> QED BY <3>2, <4>2 DEF d
    <3> QED BY <3>1, <3>2
  <2> QED BY <1>1, <2>1, <2>2, <2>3, TasksStay
<1> QED BY <1>2, <1>3 DEF IInv

LEMMA SameDueFacts ==
    /\ \A d : SameDue(d, d)
    /\ \A d, e, f : SameDue(d, e) /\ SameDue(e, f) => SameDue(d, f)
    /\ \A d \in Seq(Words) : d # <<>> /\ Head(d) \notin {"CONNECT", "QUIT"} =>
          SameDue(d, Tail(d))
    /\ \A d \in Seq(Words), x \in Words : x \notin {"CONNECT", "QUIT"} =>
          SameDue(d, Append(d, x))
<1>1. \A d : SameDue(d, d)
  BY DEF SameDue
<1>2. \A d, e, f : SameDue(d, e) /\ SameDue(e, f) => SameDue(d, f)
  BY DEF SameDue
<1>3. ASSUME NEW d \in Seq(Words), d # <<>>, Head(d) \notin {"CONNECT", "QUIT"}
      PROVE  SameDue(d, Tail(d))
  BY <1>3, FirstHeard DEF SameDue
<1>4. ASSUME NEW d \in Seq(Words), NEW x \in Words, x \notin {"CONNECT", "QUIT"}
      PROVE  SameDue(d, Append(d, x))
  BY <1>4, OnceAppend, NeverAppend DEF SameDue
<1> QED BY <1>1, <1>2, <1>3, <1>4

\* The callback of an answer to the present connection.
LEMMA OwnAnswer ==
    ASSUME IInv, NEW request \in Requests, NEW ok \in BOOLEAN, Answers(request, ok)
    PROVE  /\ ui.client \in Sessions /\ todo # <<>> /\ todo' = Tail(todo)
           /\ Head(todo) \in Messages /\ Head(todo) \in Heard(ui.client)
           /\ Head(todo).request = request
           /\ LineOK(net[ui.client], Head(todo).line)
           /\ Head(todo).line.to = request /\ Head(todo).line.ok = ok
<1> DEFINE c == Head(todo)
<1>1. /\ todo # <<>> /\ todo' = Tail(todo) /\ c.does = "message" /\ c.client = ui.client
      /\ c.line.kind = "answer" /\ c.request = request /\ c.line.ok = ok
  BY DEF Answers, OwnMessage, Callback, Current
<1>2. c \in Tasks /\ TaskOK(c)
  <2>1. todo \in Seq(Tasks)
    BY DEF IInv, Types
  <2>2. 1 \in DOMAIN todo /\ c = todo[1]
    BY <1>1, <2>1
  <2> QED BY <1>1, <2>1, <2>2, SeqFacts DEF IInv, TasksOK
<1> HIDE DEF c
<1>3. c \in Messages
  BY <1>1, <1>2 DEF Tasks, Disconnections, Polls, Dials
<1>4. c.client \in Sessions
  BY <1>3 DEF Messages
<1>5. c \in Heard(ui.client)
  BY <1>1, <1>3 DEF Heard
<1> QED BY <1>1, <1>2, <1>3, <1>4, <1>5 DEF TaskOK, c

\* Steps that neither begin nor end anything.
LEMMA QuietStep ==
    ASSUME IInv,
           ui' = [ui EXCEPT !.view = ui'.view], ui'.view \in 0 .. MaxVersion,
           UNCHANGED <<pollers, opened, version>>, typed' \in 0 .. MaxTyped,
           \/ todo' = todo
           \/ /\ todo # <<>> /\ todo' = Tail(todo)
              /\ Head(todo) \in Heard(ui.client) =>
                    Head(todo).request \notin {"CONNECT", "QUIT"},
           \/ net' = net
           \/ /\ ui.client \in Sessions
              /\ \E x \in {"LOOK", "ACT"} : net' = Sent(ui.client, x)
    PROVE  IInv'
<1>1. Types /\ ConnectionsOK /\ Polling
  BY DEF IInv
<1>2. todo' \in Seq(Tasks)
  <2>1. todo \in Seq(Tasks)
    BY <1>1 DEF Types
  <2>2. todo # <<>> => Tail(todo) \in Seq(Tasks)
    BY <2>1, SeqFacts
  <2>3. todo' = todo \/ (todo # <<>> /\ todo' = Tail(todo))
    OBVIOUS
  <2> QED BY <2>1, <2>2, <2>3
<1>3. /\ net' \in [Sessions -> Connections] /\ ConnectionsOK' /\ NetAges
      /\ \A t \in Sessions : ui.client = t =>
            /\ net'[t].pending = net[t].pending
            /\ \/ net'[t].outgoing = net[t].outgoing
               \/ \E x \in {"LOOK", "ACT"} : net'[t].outgoing = Append(net[t].outgoing, x)
  <2>1. CASE net' = net
    BY <1>1, <2>1 DEF Types, ConnectionsOK, NetAges, Ages
  <2>2. CASE ui.client \in Sessions /\ \E x \in {"LOOK", "ACT"} : net' = Sent(ui.client, x)
    <3>1. PICK x \in {"LOOK", "ACT"} : net' = Sent(ui.client, x)
      BY <2>2
    <3>2. x \in Requests
      BY DEF Requests
    <3> QED BY <1>1, <2>2, <3>1, <3>2, SentNet
  <2> QED BY <2>1, <2>2
<1>4. ui \in Screens /\ ui' \in Screens /\ ui'.dialing = ui.dialing /\ ui'.client = ui.client
      /\ ui' = [ui EXCEPT !.dialing = ui'.dialing, !.view = ui'.view]
  BY <1>1 DEF Types, Screens
<1>5. Types'
  BY <1>1, <1>2, <1>3, <1>4 DEF Types
<1>6. ASSUME NEW s \in Sessions, ui.client = s PROVE SameDue(Due(s), Due(s)')
  <2> DEFINE d == Due(s)
             e == StillDue(s)
             f == Due(s)'
  <2>1. d \in Seq(Words) /\ e \in Seq(Words)
    BY <1>1, <1>2, DueParts, StillDueType
  <2>2. SameDue(d, e)
    <3>1. CASE todo' = todo
      BY <1>1, <3>1, DueBefore, SameDueFacts
    <3>2. CASE todo # <<>> /\ todo' = Tail(todo) /\ Head(todo) \notin Heard(s)
      BY <1>1, <3>2, DueBefore, SameDueFacts
    <3>3. CASE todo # <<>> /\ todo' = Tail(todo) /\ Head(todo) \in Heard(s)
               /\ Head(todo).request \notin {"CONNECT", "QUIT"}
      <4>1. d # <<>> /\ Head(d) = Head(todo).request /\ e = Tail(d)
        BY <1>1, <3>3, DueHeard
      <4> HIDE DEF d, e
      <4> QED BY <2>1, <3>3, <4>1, SameDueFacts
    <3> QED BY <1>6, <3>1, <3>2, <3>3
  <2>3. SameDue(e, f)
    <3>1. CASE net'[s].outgoing = net[s].outgoing
      BY <1>1, <1>2, <1>3, <1>6, <3>1, DueNext, SameDueFacts
    <3>2. CASE \E x \in {"LOOK", "ACT"} : net'[s].outgoing = Append(net[s].outgoing, x)
      <4>1. PICK x \in {"LOOK", "ACT"} : net'[s].outgoing = Append(net[s].outgoing, x)
        BY <3>2
      <4>2. x \in Words /\ x \notin {"CONNECT", "QUIT"}
        BY DEF Words, Requests
      <4>3. f = Append(e, x)
        BY <1>1, <1>2, <1>3, <1>6, <4>1, <4>2, DueNext
      <4> HIDE DEF e, f
      <4> QED BY <2>1, <4>2, <4>3, SameDueFacts
    <3> QED BY <1>3, <1>6, <3>1, <3>2
  <2> HIDE DEF d, e, f
  <2> QED BY <2>2, <2>3, SameDueFacts DEF d, f
<1>7. Polling'
  BY <1>1, <1>4, <1>6, PollingStays
<1> QED BY <1>3, <1>4, <1>5, <1>7, UIStep

\* The callbacks that change little.
LEMMA QuietKeeps ==
    ASSUME IInv, \/ LateMessage \/ Event \/ Greeting \/ Looked \/ Acted \/ Noted \/ PollOnce
    PROVE  IInv'
<1>1. ui \in Screens /\ typed \in 0 .. MaxTyped
  BY DEF IInv, Types
<1>2. UNCHANGED <<opened, version, typed>> /\ typed' \in 0 .. MaxTyped
  BY <1>1 DEF LateMessage, Event, Greeting, Looked, Acted, Noted, PollOnce, Same
<1>3. ui' = ui => ui' = [ui EXCEPT !.view = ui'.view] /\ ui'.view \in 0 .. MaxVersion
  BY <1>1 DEF Screens
<1>4. ui.connected => ui.client \in Sessions
  BY <1>1 DEF IInv, Polling, Screens, Sessions, None
<1>5. CASE LateMessage
  <2>1. todo # <<>> /\ todo' = Tail(todo) /\ Head(todo) \notin Heard(ui.client)
    BY <1>5 DEF LateMessage, Callback, Current, Heard
  <2>2. UNCHANGED <<ui, pollers, net>>
    BY <1>5 DEF LateMessage
  <2> QED BY <1>2, <1>3, <2>1, <2>2, QuietStep
<1>6. CASE Event \/ Greeting
  <2>1. todo # <<>> /\ todo' = Tail(todo) /\ Head(todo) \notin Heard(ui.client)
    BY <1>6 DEF Event, Greeting, OwnMessage, Callback, Heard
  <2>2. UNCHANGED <<ui, pollers>> /\ (net' = net \/ (ui.connected /\ net' = Sent(ui.client, "LOOK")))
    BY <1>6 DEF Event, Greeting
  <2> QED BY <1>2, <1>3, <1>4, <2>1, <2>2, QuietStep
<1>7. CASE PollOnce
  <2>1. todo # <<>> /\ todo' = Tail(todo) /\ Head(todo) \notin Heard(ui.client)
    BY <1>7 DEF PollOnce, Callback, Heard, Messages
  <2>2. UNCHANGED <<ui, pollers>> /\ (net' = net \/ (ui.connected /\ net' = Sent(ui.client, "LOOK")))
    BY <1>7 DEF PollOnce
  <2> QED BY <1>2, <1>3, <1>4, <2>1, <2>2, QuietStep
<1>8. CASE Looked
  <2>1. Answers("LOOK", TRUE) /\ ui' = [ui EXCEPT !.view = Head(todo).line.sees]
        /\ UNCHANGED <<pollers, net>>
    BY <1>8 DEF Looked
  <2>2. /\ todo # <<>> /\ todo' = Tail(todo) /\ Head(todo).request = "LOOK"
        /\ Head(todo) \in Messages
    BY <2>1, OwnAnswer DEF Requests
  <2>3. Head(todo).line.sees \in 0 .. MaxVersion
    BY <2>2 DEF Messages, Lines
  <2>4. ui' = [ui EXCEPT !.view = ui'.view] /\ ui'.view \in 0 .. MaxVersion
    BY <1>1, <2>1, <2>3 DEF Screens
  <2> QED BY <1>2, <2>1, <2>2, <2>4, QuietStep
<1>9. CASE Acted
  <2>1. Answers("ACT", TRUE) /\ UNCHANGED <<ui, pollers>> /\ net' = Sent(ui.client, "LOOK")
    BY <1>9 DEF Acted
  <2>2. /\ todo # <<>> /\ todo' = Tail(todo) /\ Head(todo).request = "ACT"
        /\ ui.client \in Sessions
    BY <2>1, OwnAnswer DEF Requests
  <2> QED BY <1>2, <1>3, <2>1, <2>2, QuietStep
<1>10. CASE Noted
  <2>1. UNCHANGED <<ui, pollers, net>>
    BY <1>10 DEF Noted
  <2>2. PICK request \in {"LANG", "LOOK", "ACT"}, ok \in BOOLEAN : Answers(request, ok)
    BY <1>10 DEF Noted
  <2>3. /\ todo # <<>> /\ todo' = Tail(todo) /\ Head(todo).request = request
    BY <2>2, OwnAnswer DEF Requests
  <2> QED BY <1>2, <1>3, <2>1, <2>3, QuietStep
<1> QED BY <1>5, <1>6, <1>7, <1>8, <1>9, <1>10

\* Polling stops.
LEMMA StopsPolling ==
    ASSUME Types, Polling, pollers' = Stopped
    PROVE  pollers' \in Seq(Pollers) /\ \A p \in DOMAIN pollers' : pollers'[p].stopped
<1>1. pollers \in Seq(Pollers) /\ \A p \in DOMAIN pollers : p # ui.pollStop => pollers[p].stopped
  BY DEF Types, Polling
<1>2. CASE ui.pollStop = None
  BY <1>1, <1>2 DEF Stopped, None
<1>3. CASE ui.pollStop # None
  <2> DEFINE k == ui.pollStop
             q == [pollers[k] EXCEPT !.stopped = TRUE]
  <2>1. k \in DOMAIN pollers
    BY <1>1, <1>3 DEF Polling, None
  <2>2. pollers' = [pollers EXCEPT ![k] = q]
    BY <1>3 DEF Stopped
  <2>3. q \in Pollers /\ q.stopped
    <3>1. pollers[k] \in Pollers
      BY <1>1, <2>1
    <3> QED BY <3>1 DEF Pollers
  <2> HIDE DEF q
  <2>4. pollers' \in Seq(Pollers)
    BY <1>1, <2>1, <2>2, <2>3
  <2>5. \A p \in DOMAIN pollers' : p \in DOMAIN pollers /\ pollers'[p] = IF p = k THEN q ELSE pollers[p]
    BY <2>2
  <2> QED BY <1>1, <2>3, <2>4, <2>5
<1> QED BY <1>2, <1>3

\* Polling starts.
LEMMA StartsPolling ==
    ASSUME Types, Polling, ui.pollStop = None, pollers' = Append(pollers, NewPoller)
    PROVE  /\ pollers' \in Seq(Pollers) /\ Len(pollers') \in Nat /\ Len(pollers') # None
           /\ \A p \in DOMAIN pollers' : pollers'[p].stopped <=> p # Len(pollers')
           /\ pollers'[Len(pollers')].client = ui.client
<1> DEFINE q == NewPoller
<1>1. q \in Pollers /\ ~q.stopped /\ q.client = ui.client
  BY DEF NewPoller, Pollers, Types, Screens
<1>2. pollers \in Seq(Pollers) /\ \A p \in DOMAIN pollers : pollers[p].stopped
  <2>1. \A p \in DOMAIN pollers : p # None
    BY DEF Types, None
  <2> QED BY <2>1 DEF Types, Polling
<1> HIDE DEF q
<1>3. pollers' = Append(pollers, q)
  BY DEF q
<1>4. /\ pollers' \in Seq(Pollers) /\ Len(pollers') \in Nat /\ Len(pollers') # 0
      /\ pollers'[Len(pollers')] = q
      /\ \A p \in DOMAIN pollers' :
            p = Len(pollers') \/ (p # Len(pollers') /\ p \in DOMAIN pollers /\ pollers'[p] = pollers[p])
  <2> DEFINE d == pollers
             e == Append(d, q)
  <2>1. d \in Seq(Pollers)
    BY <1>2
  <2> HIDE DEF d
  <2>2. e \in Seq(Pollers) /\ Len(e) = Len(d) + 1 /\ Len(d) \in Nat /\ e[Len(d) + 1] = q
        /\ \A i \in 1 .. Len(d) : e[i] = d[i]
    BY <1>1, <2>1, AtTheEnd
  <2>3. DOMAIN e = 1 .. Len(e) /\ DOMAIN d = 1 .. Len(d)
    BY <2>1, <2>2
  <2>4. pollers' = e
    BY <1>3 DEF d
  <2> HIDE DEF e
  <2>5. \A p \in DOMAIN e : p = Len(e) \/ (p # Len(e) /\ p \in DOMAIN d /\ e[p] = d[p])
    BY <2>2, <2>3
  <2>6. Len(e) \in Nat /\ Len(e) # 0 /\ e[Len(e)] = q
    BY <2>2
  <2> QED BY <2>2, <2>4, <2>5, <2>6 DEF d
<1>5. \A p \in DOMAIN pollers' : pollers'[p].stopped <=> p # Len(pollers')
  BY <1>1, <1>2, <1>4
<1> QED BY <1>1, <1>4, <1>5 DEF None

LEMMA DisconnectKeeps ==
    ASSUME IInv, ui.client \in Sessions, Disconnect, Same, todo # <<>>, todo' = Tail(todo)
    PROVE  IInv'
<1> DEFINE s == ui.client
           n == net[s]
           m == [n EXCEPT !.done = TRUE, !.outgoing = <<>>, !.writing = "", !.up = <<>>,
                          !.server = "closed"]
<1>1. Types /\ ConnectionsOK /\ Polling /\ Dialing /\ n \in Connections /\ ConnectionOK(n)
  BY DEF IInv, Types, ConnectionsOK
<1>2. ui' = Idle /\ pollers' = Stopped /\ UNCHANGED <<opened, version, typed>>
  BY DEF Disconnect, Same
<1>3. net' = [net EXCEPT ![s] = m]
  BY DEF Disconnect, Closed
<1>4. m \in Connections
  <2>1. <<>> \in Seq(Requests)
    OBVIOUS
  <2> QED BY <1>1, <2>1 DEF Connections
<1>5. /\ m.pending = n.pending /\ m.server = "closed" /\ m.refused = n.refused
      /\ m.reading = n.reading /\ m.down = n.down
  BY <1>1 DEF Connections
<1> HIDE DEF m
<1>6. ConnectionOK(m) /\ Ages(n, m)
  <2>1. n.down \in Seq(Lines)
    BY <1>1 DEF Connections
  <2>2. Len(n.down) \in 0 .. Len(n.down) /\ SubSeq(n.down, 1, Len(n.down)) = n.down
    BY <2>1
  <2> QED BY <1>1, <1>4, <1>5, <2>2, Ending
<1>7. /\ net' \in [Sessions -> Connections] /\ ConnectionsOK'
      /\ \A t \in Sessions : net'[t] = IF t = s THEN m ELSE net[t]
  BY <1>1, <1>3, <1>4, <1>6, OneChanges
<1>8. NetAges
  BY <1>1, <1>5, <1>6, <1>7, OneAges
<1>9. pollers' \in Seq(Pollers) /\ \A p \in DOMAIN pollers' : pollers'[p].stopped
  BY <1>1, <1>2, StopsPolling
<1>10. Types'
  <2>1. todo' \in Seq(Tasks)
    <3>1. todo \in Seq(Tasks)
      BY <1>1 DEF Types
    <3> QED BY <3>1, SeqFacts
  <2>2. Idle \in Screens
    BY BoundsAssumption DEF Idle, Screens, None
  <2> QED BY <1>1, <1>2, <1>7, <1>9, <2>1, <2>2 DEF Types
<1>11. Polling'
  <2>1. /\ ui'.client = None /\ ~ui'.connected /\ ui'.pollStop = None /\ ~ui'.quit
    BY <1>2 DEF Idle
  <2>2. None \in 0 .. Len(pollers') /\ \A p \in DOMAIN pollers' : p # None
    BY <1>9 DEF None
  <2> QED BY <1>9, <2>1, <2>2 DEF Polling
<1>12. ui'.dialing = ui.dialing /\ ui'.client \in {ui.client, None}
  <2>1. ui.client # None
    BY DEF Sessions, None
  <2>2. ui.dialing = FALSE
    BY <1>1, <2>1 DEF Dialing, Types, Screens
  <2>3. ui'.dialing = FALSE /\ ui'.client = None
    BY <1>2 DEF Idle
  <2> QED BY <2>2, <2>3
<1> QED BY <1>2, <1>7, <1>8, <1>10, <1>11, <1>12, UIStep

LEMMA LeavesKeep ==
    ASSUME IInv, Lost \/ Left \/ ConnectRefused
    PROVE  IInv'
<1>1. CASE Lost
  <2>1. /\ todo # <<>> /\ todo' = Tail(todo) /\ Head(todo).does = "disconnect"
        /\ Head(todo).client = ui.client /\ Disconnect /\ Same
    BY <1>1 DEF Lost, Callback, Current
  <2>2. Head(todo) \in Tasks
    BY <2>1, SeqFacts DEF IInv, Types
  <2>3. Head(todo).client \in Sessions
    BY <2>1, <2>2 DEF Tasks, Messages, Disconnections, Polls, Dials
  <2> QED BY <2>1, <2>3, DisconnectKeeps
<1>2. CASE Left \/ ConnectRefused
  <2>1. Disconnect /\ Same /\ (Answers("QUIT", TRUE) \/ Answers("CONNECT", FALSE))
    BY <1>2 DEF Left, ConnectRefused
  <2>2. ui.client \in Sessions /\ todo # <<>> /\ todo' = Tail(todo)
    BY <2>1, OwnAnswer DEF Requests
  <2> QED BY <2>1, <2>2, DisconnectKeeps
<1> QED BY <1>1, <1>2

\* Commands of the user.
LEMMA TypeKeeps ==
    ASSUME IInv, NEW request \in {"LOOK", "ACT", "QUIT"}, Type(request)
    PROVE  IInv'
<1>1. Types /\ ConnectionsOK /\ Polling /\ ui \in Screens
  BY DEF IInv, Types
<1>2. /\ ui.connected /\ typed < MaxTyped /\ typed' = typed + 1
      /\ net' = Sent(ui.client, request)
      /\ UNCHANGED <<todo, opened, version>>
      /\ request = "QUIT" => ui.quit
  BY DEF Type
<1>3. typed' \in 0 .. MaxTyped
  BY <1>1, <1>2, BoundsAssumption DEF Types
<1>4. ui.client \in Sessions
  BY <1>1, <1>2 DEF Polling, Screens, Sessions, None
<1>5. CASE request # "QUIT" \/ ~CanSend(ui.client)
  <2>1. ui' = [ui EXCEPT !.view = ui'.view] /\ ui'.view \in 0 .. MaxVersion
        /\ pollers' = pollers
    BY <1>1, <1>5 DEF Type, Screens
  <2>2. net' = net \/ \E x \in {"LOOK", "ACT"} : net' = Sent(ui.client, x)
    BY <1>2, <1>5 DEF Sent
  <2> QED BY <1>2, <1>3, <1>4, <2>1, <2>2, QuietStep
<1>6. CASE request = "QUIT" /\ CanSend(ui.client)
  <2>1. pollers' = Stopped /\ ui' = [ui EXCEPT !.pollStop = None, !.quit = FALSE]
    BY <1>6 DEF Type
  <2>2. pollers' \in Seq(Pollers) /\ \A p \in DOMAIN pollers' : pollers'[p].stopped
    BY <1>1, <2>1, StopsPolling
  <2>3. /\ ui' \in Screens /\ ui'.client = ui.client /\ ui'.connected /\ ui'.pollStop = None
        /\ ~ui'.quit /\ ui'.dialing = ui.dialing
    BY <1>1, <1>2, <2>1 DEF Screens, None
  <2>4. "QUIT" \in Requests /\ "QUIT" \in Words
    BY DEF Requests, Words
  <2>5. /\ net' \in [Sessions -> Connections] /\ ConnectionsOK' /\ NetAges
        /\ net'[ui.client].pending = net[ui.client].pending
        /\ net'[ui.client].outgoing = Append(net[ui.client].outgoing, "QUIT")
    BY <1>1, <1>2, <1>4, <1>6, <2>4, SentNet
  <2>6. Types'
    BY <1>1, <1>2, <1>3, <2>2, <2>3, <2>5 DEF Types
  <2> DEFINE s == ui.client
             d == Due(s)
             e == Due(s)'
  <2>7. e = Append(d, "QUIT") /\ d \in Seq(Words)
    <3>1. todo' \in Seq(Tasks) /\ todo' = todo
      BY <1>1, <1>2 DEF Types
    <3>2. Due(s)' = Append(StillDue(s), "QUIT")
      <4>1. \A t \in Sessions : t = ui.client => Due(t)' = Append(StillDue(t), "QUIT")
        BY <1>1, <2>4, <2>5, <3>1, DueNext
      <4> QED BY <1>4, <2>3, <4>1
    <3>3. StillDue(s) = Due(s)
      <4>1. \A t \in Sessions : StillDue(t) = Due(t)
        BY <1>1, <3>1, DueBefore
      <4> QED BY <1>4, <4>1
    <3> QED BY <1>1, <1>4, <3>2, <3>3, DueParts
  <2>8. Once(d, "CONNECT") /\ Once(d, "QUIT") /\ Never(d, "CONNECT") /\ Never(d, "QUIT")
    BY <1>1, <1>2, <1>4, <1>6 DEF Polling, Sessions, None
  <2>9. /\ Once(e, "CONNECT") /\ Once(e, "QUIT") /\ Never(e, "CONNECT") /\ ~Never(e, "QUIT")
    <3> HIDE DEF d, e
    <3>1. Once(Append(d, "QUIT"), "CONNECT") /\ Once(Append(d, "QUIT"), "QUIT")
      BY <2>4, <2>7, <2>8, OnceAppend
    <3>2. Never(Append(d, "QUIT"), "CONNECT") /\ ~Never(Append(d, "QUIT"), "QUIT")
      BY <2>4, <2>7, <2>8, NeverAppend
    <3> QED BY <2>7, <3>1, <3>2
  <2>10. Polling'
    <3>1. e = Due(ui.client)'
      BY <2>3
    <3>2. None \in 0 .. Len(pollers') /\ \A p \in DOMAIN pollers' : p # None
      BY <2>2 DEF None
    <3> HIDE DEF d, e
    <3>3. LET due == Due(ui.client)'
          IN  /\ Once(due, "CONNECT") /\ Once(due, "QUIT")
              /\ ui'.connected => Never(due, "CONNECT")
              /\ Never(due, "QUIT") <=> ui'.quit \/ ~ui'.connected
      BY <2>3, <2>9, <3>1
    <3>4. ui'.client # None
      BY <1>4, <2>3 DEF Sessions, None
    <3> QED BY <2>2, <2>3, <3>2, <3>3, <3>4 DEF Polling
  <2> QED BY <1>2, <2>3, <2>5, <2>6, <2>10, UIStep
<1> QED BY <1>5, <1>6

\* Polling begins, or goes on after a refused QUIT.
LEMMA PlaysOn ==
    ASSUME Types, Polling, ui.client \in Sessions, ui.pollStop = None,
           pollers' = Append(pollers, NewPoller),
           ui' = [ui EXCEPT !.connected = TRUE, !.quit = TRUE, !.pollStop = Len(pollers')],
           \A s \in Sessions : s = ui.client =>
              Never(Due(s)', "CONNECT") /\ Never(Due(s)', "QUIT")
    PROVE  /\ Polling' /\ pollers' \in Seq(Pollers) /\ ui' \in Screens
           /\ ui'.client = ui.client /\ ui'.dialing = ui.dialing
<1>1. /\ pollers' \in Seq(Pollers) /\ Len(pollers') \in Nat /\ Len(pollers') # None
      /\ \A p \in DOMAIN pollers' : pollers'[p].stopped <=> p # Len(pollers')
      /\ pollers'[Len(pollers')].client = ui.client
  BY StartsPolling
<1>2. /\ ui' \in Screens /\ ui'.client = ui.client /\ ui'.connected /\ ui'.quit
      /\ ui'.pollStop = Len(pollers') /\ ui'.dialing = ui.dialing
  BY <1>1 DEF Types, Screens
<1> DEFINE e == Due(ui.client)'
<1>3. Never(e, "CONNECT") /\ Never(e, "QUIT")
  BY <1>2
<1> HIDE DEF e
<1>4. Once(e, "CONNECT") /\ Once(e, "QUIT")
  BY <1>3 DEF Once, Never
<1>5. ui'.client # None
  BY <1>2 DEF Sessions, None
<1>6. Len(pollers') \in 0 .. Len(pollers')
  BY <1>1
<1>7. Polling'
  <2>1. e = Due(ui.client)'
    BY DEF e
  <2> QED BY <1>1, <1>2, <1>3, <1>4, <1>5, <1>6, <2>1 DEF Polling
<1> QED BY <1>1, <1>2, <1>7

LEMMA AcceptedKeeps == IInv /\ Accepted => IInv'
<1> SUFFICES ASSUME IInv, Accepted PROVE IInv'
  OBVIOUS
<1>1. Types /\ ConnectionsOK /\ Polling
  BY DEF IInv
<1>2. /\ Answers("CONNECT", TRUE) /\ pollers' = Append(pollers, NewPoller)
      /\ ui' = [ui EXCEPT !.connected = TRUE, !.quit = TRUE, !.pollStop = Len(pollers')]
      /\ net' = Sent(ui.client, "LOOK") /\ UNCHANGED <<opened, version, typed>>
  BY DEF Accepted, Same
<1>3. /\ ui.client \in Sessions /\ todo # <<>> /\ todo' = Tail(todo)
      /\ Head(todo) \in Heard(ui.client) /\ Head(todo).request = "CONNECT"
  BY <1>2, OwnAnswer DEF Requests
<1>4. todo' \in Seq(Tasks)
  <2>1. todo \in Seq(Tasks)
    BY <1>1 DEF Types
  <2> QED BY <1>3, <2>1, SeqFacts
<1>5. "LOOK" \in Requests /\ "LOOK" \in Words
  BY DEF Requests, Words
<1>6. /\ net' \in [Sessions -> Connections] /\ ConnectionsOK' /\ NetAges
      /\ net'[ui.client].pending = net[ui.client].pending
      /\ \/ net'[ui.client].outgoing = Append(net[ui.client].outgoing, "LOOK")
         \/ net'[ui.client].outgoing = net[ui.client].outgoing
  BY <1>1, <1>2, <1>3, <1>5, SentNet
<1>7. ui.pollStop = None /\ Never(Tail(Due(ui.client)), "CONNECT")
      /\ Never(Tail(Due(ui.client)), "QUIT")
  <2> DEFINE d == Due(ui.client)
  <2>1. d \in Seq(Words) /\ d # <<>> /\ Head(d) = "CONNECT"
    BY <1>1, <1>3, DueParts, DueHeard
  <2>2. /\ Once(d, "CONNECT") /\ Once(d, "QUIT")
        /\ ui.connected => Never(d, "CONNECT")
        /\ Never(d, "QUIT") <=> ui.quit \/ ~ui.connected
    BY <1>1, <1>3 DEF Polling, Sessions, None
  <2> HIDE DEF d
  <2>3. ~Never(d, "CONNECT")
    <3>1. 1 \in DOMAIN d /\ d[1] = Head(d)
      BY <2>1
    <3> QED BY <2>1, <3>1 DEF Never
  <2>4. ~ui.connected /\ Never(d, "QUIT")
    BY <2>2, <2>3
  <2>5. Never(Tail(d), "CONNECT") /\ Never(Tail(d), "QUIT")
    BY <2>1, <2>2, <2>4, FirstHeard
  <2>6. ui.pollStop = None
    BY <1>1, <2>4 DEF Polling
  <2> QED BY <2>5, <2>6 DEF d
<1>8. ASSUME NEW s \in Sessions, s = ui.client
      PROVE  Never(Due(s)', "CONNECT") /\ Never(Due(s)', "QUIT")
  <2> DEFINE e == StillDue(s)
  <2>1. e = Tail(Due(s)) /\ e \in Seq(Words)
    BY <1>1, <1>3, <1>4, <1>8, DueHeard, StillDueType
  <2>2. Due(s)' = e \/ Due(s)' = Append(e, "LOOK")
    BY <1>1, <1>4, <1>5, <1>6, <1>8, DueNext
  <2>3. Never(e, "CONNECT") /\ Never(e, "QUIT")
    BY <1>7, <1>8, <2>1
  <2> HIDE DEF e
  <2>4. Never(Append(e, "LOOK"), "CONNECT") /\ Never(Append(e, "LOOK"), "QUIT")
    BY <1>5, <2>1, <2>3, NeverAppend
  <2> QED BY <2>2, <2>3, <2>4
<1>9. /\ Polling' /\ pollers' \in Seq(Pollers) /\ ui' \in Screens
      /\ ui'.client = ui.client /\ ui'.dialing = ui.dialing
  BY <1>1, <1>2, <1>3, <1>7, <1>8, PlaysOn
<1>10. Types'
  BY <1>1, <1>2, <1>4, <1>6, <1>9 DEF Types
<1> QED BY <1>2, <1>3, <1>6, <1>9, <1>10, UIStep

LEMMA QuitRefusedKeeps == IInv /\ QuitRefused => IInv'
<1> SUFFICES ASSUME IInv, QuitRefused PROVE IInv'
  OBVIOUS
<1>1. Types /\ ConnectionsOK /\ Polling /\ ui \in Screens
  BY DEF IInv, Types
<1>2. /\ Answers("QUIT", FALSE) /\ net' = net /\ UNCHANGED <<opened, version, typed>>
      /\ pollers' = IF ui.pollStop = None THEN Append(pollers, NewPoller) ELSE pollers
      /\ ui' = [ui EXCEPT !.quit = TRUE,
                          !.pollStop = IF ui.pollStop = None THEN Len(pollers') ELSE ui.pollStop]
  BY DEF QuitRefused, Same
<1>3. /\ ui.client \in Sessions /\ todo # <<>> /\ todo' = Tail(todo)
      /\ Head(todo) \in Heard(ui.client) /\ Head(todo).request = "QUIT"
  BY <1>2, OwnAnswer DEF Requests
<1>4. todo' \in Seq(Tasks)
  <2>1. todo \in Seq(Tasks)
    BY <1>1 DEF Types
  <2> QED BY <1>3, <2>1, SeqFacts
<1>5. ConnectionsOK' /\ NetAges
  BY <1>1, <1>2 DEF ConnectionsOK, NetAges, Ages
<1>6. /\ ui.pollStop = None /\ ui.connected
      /\ Never(Tail(Due(ui.client)), "CONNECT") /\ Never(Tail(Due(ui.client)), "QUIT")
  <2> DEFINE d == Due(ui.client)
  <2>1. d \in Seq(Words) /\ d # <<>> /\ Head(d) = "QUIT"
    BY <1>1, <1>3, DueParts, DueHeard
  <2>2. /\ Once(d, "CONNECT") /\ Once(d, "QUIT")
        /\ ui.connected => Never(d, "CONNECT")
        /\ Never(d, "QUIT") <=> ui.quit \/ ~ui.connected
    BY <1>1, <1>3 DEF Polling, Sessions, None
  <2> HIDE DEF d
  <2>3. ~Never(d, "QUIT")
    <3>1. 1 \in DOMAIN d /\ d[1] = Head(d)
      BY <2>1
    <3> QED BY <2>1, <3>1 DEF Never
  <2>4. ui.connected /\ ~ui.quit /\ Never(d, "CONNECT")
    BY <2>2, <2>3
  <2>5. Never(Tail(d), "CONNECT") /\ Never(Tail(d), "QUIT")
    BY <2>1, <2>2, <2>4, FirstHeard
  <2>6. ui.pollStop = None
    BY <1>1, <2>4 DEF Polling
  <2> QED BY <2>4, <2>5, <2>6 DEF d
<1>7. ASSUME NEW s \in Sessions, s = ui.client
      PROVE  Never(Due(s)', "CONNECT") /\ Never(Due(s)', "QUIT")
  <2>1. StillDue(s) = Tail(Due(s))
    BY <1>1, <1>3, <1>7, DueHeard
  <2>2. Due(s)' = StillDue(s)
    BY <1>1, <1>2, <1>4, DueNext
  <2> QED BY <1>6, <1>7, <2>1, <2>2
<1>8. /\ pollers' = Append(pollers, NewPoller)
      /\ ui' = [ui EXCEPT !.connected = TRUE, !.quit = TRUE, !.pollStop = Len(pollers')]
  <2>1. ui.connected = TRUE
    BY <1>1, <1>6 DEF Screens
  <2> QED BY <1>1, <1>2, <1>6, <2>1 DEF Screens
<1>9. /\ Polling' /\ pollers' \in Seq(Pollers) /\ ui' \in Screens
      /\ ui'.client = ui.client /\ ui'.dialing = ui.dialing
  BY <1>1, <1>3, <1>6, <1>7, <1>8, PlaysOn
<1>10. Types'
  BY <1>1, <1>2, <1>4, <1>9 DEF Types
<1> QED BY <1>2, <1>3, <1>5, <1>9, <1>10, UIStep

-------------------------------------------------------------------------------
(* A new connection.                                                       *)

LEMMA ConnectKeeps == IInv /\ Connect => IInv'
<1> SUFFICES ASSUME IInv, Connect PROVE IInv'
  OBVIOUS
<1>1. Types /\ ConnectionsOK /\ TasksOK /\ Dialing /\ Polling /\ ui \in Screens
  BY DEF IInv, Types
<1>2. /\ ui.client = None /\ ~ui.dialing /\ opened < MaxSessions /\ opened' = opened + 1
      /\ ui' = [ui EXCEPT !.dialing = TRUE]
      /\ UNCHANGED <<todo, pollers, net, version, typed>>
  BY DEF Connect
<1>3. ui' \in Screens /\ ui'.dialing /\ ui'.client = None
      /\ ui' = [ui EXCEPT !.dialing = ui'.dialing, !.view = ui'.view]
  BY <1>1, <1>2 DEF Screens
<1>4. opened \in Nat /\ opened' \in 0 .. MaxSessions /\ opened' # 0
  BY <1>1, <1>2, BoundsAssumption DEF Types
<1>5. Types'
  BY <1>1, <1>2, <1>3, <1>4 DEF Types
<1>6. ConnectionsOK'
  BY <1>1, <1>2 DEF ConnectionsOK
<1>7. \A t \in Sessions : Started(t) => Started(t)'
  BY <1>2, <1>4 DEF Started, Sessions
<1>8. TasksOK'
  <2>1. \A t \in Sessions : Started(t) => Started(t)' /\ Ages(net[t], net'[t])
    BY <1>2, <1>7 DEF Ages
  <2>2. \A i \in DOMAIN todo' : \E j \in DOMAIN todo : todo'[i] = todo[j]
    BY <1>2
  <2> QED BY <1>1, <1>3, <2>1, <2>2, TasksStay
<1>9. Dialing'
  <2>1. \A i, j \in DOMAIN todo' : todo'[i].does = "dialed" /\ todo'[j].does = "dialed" => i = j
    BY <1>1, <1>2 DEF Dialing
  <2>2. \A t \in Sessions : net'[t].reading => Started(t)'
    BY <1>1, <1>2, <1>7 DEF Dialing
  <2>3. ui'.client <= opened'
    BY <1>3, <1>4 DEF None
  <2> QED BY <1>3, <1>4, <2>1, <2>2, <2>3 DEF Dialing
<1>10. Polling'
  <2>1. \A s \in Sessions : ui.client = s => SameDue(Due(s), Due(s)')
    BY <1>2 DEF Sessions, None
  <2> QED BY <1>1, <1>2, <1>3, <2>1, PollingStays
<1> QED BY <1>5, <1>6, <1>8, <1>9, <1>10 DEF IInv

\* The connection that is dialed is new to everyone.
LEMMA DialedFacts ==
    ASSUME IInv, Callback("dialed")
    PROVE  /\ ui.dialing /\ ui.client = None /\ opened \in Sessions
           /\ todo' \in Seq(Tasks)
           /\ \A i \in DOMAIN todo' :
                 /\ \E j \in DOMAIN todo : todo'[i] = todo[j]
                 /\ todo'[i].does # "dialed"
<1> DEFINE d == todo
<1>1. d \in Seq(Tasks) /\ d # <<>> /\ Head(d).does = "dialed" /\ todo' = Tail(d)
  BY DEF IInv, Types, Callback
<1>2. /\ 1 \in DOMAIN d /\ d[1].does = "dialed" /\ Tail(d) \in Seq(Tasks)
      /\ \A i \in DOMAIN Tail(d) : i + 1 \in DOMAIN d /\ i + 1 # 1 /\ Tail(d)[i] = d[i + 1]
  <2> HIDE DEF d
  <2> QED BY <1>1
<1>3. ui.dialing
  BY <1>2 DEF IInv, TasksOK, TaskOK
<1>4. ui.client = None /\ opened \in Sessions
  BY <1>3, BoundsAssumption DEF IInv, Dialing, Types, Sessions
<1>5. \A i, j \in DOMAIN d : d[i].does = "dialed" /\ d[j].does = "dialed" => i = j
  BY DEF IInv, Dialing
<1>6. \A i \in DOMAIN Tail(d) : Tail(d)[i].does # "dialed"
  BY <1>2, <1>5
<1> QED BY <1>1, <1>2, <1>3, <1>4, <1>6

LEMMA DialStep ==
    ASSUME IInv, Callback("dialed"), Same, pollers' = pollers,
           ui' \in Screens, ~ui'.dialing, ui'.client \in {None, opened},
           net' \in [Sessions -> Connections], ConnectionsOK', Polling',
           \A t \in Sessions : t # opened => net'[t] = net[t]
    PROVE  IInv'
<1>1. Types /\ TasksOK /\ Dialing
  BY DEF IInv
<1>2. /\ ui.dialing /\ ui.client = None /\ opened \in Sessions
      /\ todo' \in Seq(Tasks)
      /\ \A i \in DOMAIN todo' :
            /\ \E j \in DOMAIN todo : todo'[i] = todo[j]
            /\ todo'[i].does # "dialed"
  BY DialedFacts
<1>3. UNCHANGED <<opened, version, typed>> /\ opened \in Nat
  BY <1>1 DEF Same, Types
<1>4. Types'
  BY <1>1, <1>2, <1>3 DEF Types
<1>5. \A t \in Sessions : Started(t) => t # opened /\ Started(t)'
  BY <1>2, <1>3 DEF Started, Sessions
<1>6. TasksOK'
  <2>1. \A t \in Sessions : Started(t) => Started(t)' /\ Ages(net[t], net'[t])
    BY <1>5 DEF Ages
  <2> QED BY <1>1, <1>2, <2>1, TasksStay
<1>7. Dialing'
  <2>1. \A t \in Sessions : net'[t].reading => Started(t)'
    <3>1. \A t \in Sessions : t # opened /\ net'[t].reading => Started(t)'
      BY <1>1, <1>5 DEF Dialing
    <3>2. Started(opened)'
      BY <1>3 DEF Started
    <3> QED BY <1>3, <3>1, <3>2 DEF Started
  <2>2. ui'.client <= opened'
    BY <1>3 DEF None
  <2> QED BY <1>2, <2>1, <2>2 DEF Dialing
<1> QED BY <1>4, <1>6, <1>7 DEF IInv

LEMMA FreshType ==
    /\ Fresh \in Connections /\ Fresh.pending = <<>> /\ Fresh.up = <<>> /\ Fresh.writing = ""
    /\ Fresh.down = <<Line("greeting", "", TRUE, 0)>>
<1> DEFINE l == Line("greeting", "", TRUE, 0)
<1>1. l \in Lines
  BY GreetingLine
<1> HIDE DEF l
<1>2. <<>> \in Seq(Requests) /\ <<l>> \in Seq(Lines)
  BY <1>1
<1>3. Fresh = [done |-> FALSE, reading |-> TRUE, outgoing |-> <<>>, writing |-> "",
               pending |-> <<>>, up |-> <<>>, down |-> <<l>>, server |-> "open",
               refused |-> FALSE]
  BY DEF Fresh, l
<1> QED BY <1>2, <1>3 DEF Connections, l

LEMMA NewConnection ==
    ASSUME IInv, opened \in Sessions,
           NEW q \in Seq(Requests), NEW done \in BOOLEAN, NEW server \in {"open", "closed"},
           done => server = "closed",
           NEW m, m = [Fresh EXCEPT !.outgoing = q, !.done = done, !.server = server],
           net' = [net EXCEPT ![opened] = m]
    PROVE  /\ net' \in [Sessions -> Connections] /\ ConnectionsOK'
           /\ \A t \in Sessions : t # opened => net'[t] = net[t]
           /\ net'[opened].pending = <<>> /\ net'[opened].outgoing = q
<1>1. Types /\ ConnectionsOK
  BY DEF IInv
<1>2. m \in Connections
  BY FreshType DEF Connections
<1>3. /\ m.pending = <<>> /\ m.up = <<>> /\ m.writing = "" /\ m.outgoing = q
      /\ m.down = <<Line("greeting", "", TRUE, 0)>> /\ m.done = done /\ m.server = server
  BY FreshType DEF Connections
<1>4. ConnectionOK(m)
  BY <1>2, <1>3, Beginning DEF Begins
<1>5. /\ net' \in [Sessions -> Connections] /\ ConnectionsOK'
      /\ \A t \in Sessions : net'[t] = IF t = opened THEN m ELSE net[t]
  BY <1>1, <1>2, <1>4, OneChanges
<1> QED BY <1>3, <1>5

\* Nobody waits for answers of a connection that is new.
LEMMA NothingTold ==
    ASSUME IInv, Callback("dialed")
    PROVE  \A s \in Sessions : s = opened => ToldTo(s)' = <<>>
<1> SUFFICES ASSUME NEW s \in Sessions, s = opened PROVE ToldTo(s)' = <<>>
  OBVIOUS
<1> DEFINE d == todo'
           S == {c \in Tasks : c \notin Heard(s)}
<1>1. /\ ui.dialing /\ d \in Seq(Tasks)
      /\ \A i \in DOMAIN d : \E j \in DOMAIN todo : d[i] = todo[j]
  BY DialedFacts
<1>2. \A j \in DOMAIN todo : todo[j] \notin Heard(s)
  <2>1. \A c : TaskOK(c) => c \notin Heard(s)
    <3> SUFFICES ASSUME NEW c, TaskOK(c), c \in Heard(s) PROVE FALSE
      OBVIOUS
    <3>1. c.does = "message" /\ c.client = s
      BY DEF Heard, Messages
    <3>2. Started(s)
      BY <3>1 DEF TaskOK
    <3>3. opened \in Nat
      BY DEF IInv, Types
    <3> QED BY <1>1, <3>2, <3>3 DEF Started
  <2> QED BY <2>1 DEF IInv, TasksOK
<1>3. \A i \in DOMAIN d : d[i] \in S
  BY <1>1, <1>2
<1> HIDE DEF d
<1>4. d \in Seq(S)
  <2> HIDE DEF S
  <2> QED BY <1>1, <1>3
<1>5. Selected(d, Heard(s)) \in Seq(S \cap Heard(s))
  BY <1>4, SelectedType
<1>6. S \cap Heard(s) = {}
  OBVIOUS
<1>7. \A q \in Seq({}) : q = <<>>
  OBVIOUS
<1>8. Selected(d, Heard(s)) = <<>>
  BY <1>5, <1>6, <1>7
<1>9. Told(<<>>) = <<>>
  BY DEF Told
<1>10. ToldTo(s)' = Told(Selected(d, Heard(s)))
  BY DEF ToldTo, Heard, d
<1> QED BY <1>8, <1>9, <1>10

LEMMA DialFailedKeeps == IInv /\ DialFailed => IInv'
<1> SUFFICES ASSUME IInv, DialFailed PROVE IInv'
  OBVIOUS
<1>1. Types /\ ConnectionsOK /\ Polling /\ ui \in Screens
  BY DEF IInv, Types
<1>2. /\ Callback("dialed") /\ Same /\ pollers' = pollers /\ net' = net
      /\ ui' = [ui EXCEPT !.dialing = FALSE]
  BY DEF DialFailed
<1>3. ui.client = None
  BY <1>2, DialedFacts
<1>4. /\ ui' \in Screens /\ ~ui'.dialing /\ ui'.client = ui.client
      /\ ui' = [ui EXCEPT !.dialing = ui'.dialing, !.view = ui'.view]
  BY <1>1, <1>2 DEF Screens
<1>5. ConnectionsOK' /\ net' \in [Sessions -> Connections]
  BY <1>1, <1>2 DEF ConnectionsOK, Types
<1>6. Polling'
  <2>1. \A s \in Sessions : ui.client = s => SameDue(Due(s), Due(s)')
    BY <1>3 DEF Sessions, None
  <2> QED BY <1>1, <1>2, <1>4, <2>1, PollingStays
<1> QED BY <1>2, <1>3, <1>4, <1>5, <1>6, DialStep

LEMMA HandshakeFailsKeeps == IInv /\ HandshakeFails => IInv'
<1> SUFFICES ASSUME IInv, HandshakeFails PROVE IInv'
  OBVIOUS
<1>1. Types /\ ConnectionsOK /\ Polling /\ ui \in Screens
  BY DEF IInv, Types
<1> DEFINE m == [Fresh EXCEPT !.outgoing = <<>>, !.done = TRUE, !.server = "closed"]
<1>2. /\ Callback("dialed") /\ Same /\ pollers' = pollers
      /\ ui' = Idle /\ net' = [net EXCEPT ![opened] = m]
  <2>1. [Fresh EXCEPT !.done = TRUE, !.server = "closed"] = m
    <3>1. Fresh.outgoing = <<>>
      BY DEF Fresh
    <3> QED BY <3>1, FreshType DEF Connections
  <2> HIDE DEF m
  <2> QED BY <2>1 DEF HandshakeFails
<1>3. ui.client = None /\ opened \in Sessions
  BY <1>2, DialedFacts
<1>4. <<>> \in Seq(Requests)
  OBVIOUS
<1>5. /\ net' \in [Sessions -> Connections] /\ ConnectionsOK'
      /\ \A t \in Sessions : t # opened => net'[t] = net[t]
  <2> HIDE DEF m
  <2>1. m = [Fresh EXCEPT !.outgoing = <<>>, !.done = TRUE, !.server = "closed"]
    BY DEF m
  <2> QED BY <1>2, <1>3, <1>4, <2>1, NewConnection
<1>6. /\ ui' \in Screens /\ ~ui'.dialing /\ ui'.client = None /\ ~ui'.connected
      /\ ui'.pollStop = None /\ ~ui'.quit
  BY <1>2, BoundsAssumption DEF Idle, Screens, None
<1>7. Polling'
  <2>1. ui.pollStop = None
    <3>1. ~ui.connected
      BY <1>1, <1>3 DEF Polling
    <3> QED BY <1>1, <3>1 DEF Polling
  <2>2. /\ ui'.pollStop \in 0 .. Len(pollers)
        /\ \A p \in DOMAIN pollers : pollers[p].stopped <=> p # ui'.pollStop
    BY <1>1, <1>6, <2>1 DEF Polling
  <2> QED BY <1>2, <1>6, <2>2 DEF Polling
<1> QED BY <1>2, <1>5, <1>6, <1>7, DialStep

LEMMA HandshakeKeeps ==
    ASSUME IInv, NEW japanese \in BOOLEAN, Handshake(japanese)
    PROVE  IInv'
<1>1. Types /\ ConnectionsOK /\ Polling /\ ui \in Screens
  BY DEF IInv, Types
<1> DEFINE q == IF japanese THEN <<"LANG", "CONNECT">> ELSE <<"CONNECT">>
           m == [Fresh EXCEPT !.outgoing = q, !.done = FALSE, !.server = "open"]
<1>2. q \in Seq(Requests)
  <2>1. "LANG" \in Requests /\ "CONNECT" \in Requests
    BY DEF Requests
  <2>2. \A S : \A x, y \in S : <<x, y>> \in Seq(S) /\ <<x>> \in Seq(S)
    OBVIOUS
  <2> QED BY <2>1, <2>2
<1>3. Once(q, "CONNECT") /\ Once(q, "QUIT") /\ Never(q, "QUIT")
  BY DEF Once, Never
<1>4. /\ Callback("dialed") /\ Same /\ pollers' = pollers
      /\ ui' = [ui EXCEPT !.dialing = FALSE, !.client = opened]
      /\ net' = [net EXCEPT ![opened] = [Fresh EXCEPT !.outgoing = q]]
  BY DEF Handshake
<1> HIDE DEF q
<1>5. net' = [net EXCEPT ![opened] = m]
  <2>1. Fresh.done = FALSE /\ Fresh.server = "open"
    BY DEF Fresh
  <2>2. [Fresh EXCEPT !.outgoing = q] = m
    BY <2>1, FreshType DEF Connections
  <2> QED BY <1>4, <2>2
<1>6. ui.client = None /\ opened \in Sessions
  BY <1>4, DialedFacts
<1>7. /\ net' \in [Sessions -> Connections] /\ ConnectionsOK'
      /\ \A t \in Sessions : t # opened => net'[t] = net[t]
      /\ net'[opened].pending = <<>> /\ net'[opened].outgoing = q
  <2> HIDE DEF m
  <2>1. m = [Fresh EXCEPT !.outgoing = q, !.done = FALSE, !.server = "open"]
    BY DEF m
  <2> QED BY <1>2, <1>5, <1>6, <2>1, NewConnection
<1>8. /\ ~ui.connected /\ ui.pollStop = None /\ ~ui.quit
  <2>1. ~ui.connected
    BY <1>1, <1>6 DEF Polling
  <2> QED BY <1>1, <2>1 DEF Polling
<1>9. /\ ui' \in Screens /\ ~ui'.dialing /\ ui'.client = opened /\ ~ui'.connected
      /\ ui'.pollStop = None /\ ~ui'.quit
  <2>1. opened \in 0 .. MaxSessions
    BY <1>1 DEF Types
  <2> QED BY <1>1, <1>4, <1>8, <2>1 DEF Screens
<1>10. Due(ui.client)' = q
  <2>1. ToldTo(opened)' = <<>>
    <3>1. opened' = opened
      BY <1>4 DEF Same
    <3>2. \A s \in Sessions : s = opened => ToldTo(s)' = <<>>
      BY <1>4, NothingTold
    <3> QED BY <1>6, <3>1, <3>2
  <2>2. Due(ui.client)' = ToldTo(opened)' \o net'[opened].pending \o net'[opened].outgoing
    <3>1. ui'.client = opened /\ opened' = opened
      BY <1>4, <1>9 DEF Same
    <3> QED BY <3>1 DEF Due, ToldTo
  <2>3. <<>> \o <<>> \o q = q
    BY <1>2
  <2> QED BY <1>7, <2>1, <2>2, <2>3
<1>11. Polling'
  <2>1. /\ ui'.pollStop \in 0 .. Len(pollers)
        /\ \A p \in DOMAIN pollers : pollers[p].stopped <=> p # ui'.pollStop
    BY <1>1, <1>8, <1>9 DEF Polling
  <2>2. ui'.client # None
    BY <1>6, <1>9 DEF Sessions, None
  <2>3. LET due == Due(ui.client)'
        IN  /\ Once(due, "CONNECT") /\ Once(due, "QUIT")
            /\ ui'.connected => Never(due, "CONNECT")
            /\ Never(due, "QUIT") <=> ui'.quit \/ ~ui'.connected
    BY <1>3, <1>9, <1>10
  <2> QED BY <1>4, <1>9, <2>1, <2>2, <2>3 DEF Polling
<1> QED BY <1>4, <1>7, <1>9, <1>11, DialStep

-------------------------------------------------------------------------------

LEMMA InitInv == Init => IInv
<1> SUFFICES ASSUME Init PROVE IInv
  OBVIOUS
<1> DEFINE m == [Fresh EXCEPT !.done = TRUE, !.reading = FALSE, !.down = <<>>,
                              !.server = "closed"]
<1>1. m \in Connections
  <2>1. <<>> \in Seq(Lines)
    OBVIOUS
  <2> QED BY <2>1, FreshType DEF Connections
<1>2. ConnectionOK(m) /\ ~m.reading
  <2>1. /\ m.pending = <<>> /\ m.up = <<>> /\ m.writing = "" /\ m.down = <<>>
        /\ m.server = "closed" /\ ~m.reading
    BY FreshType DEF Connections
  <2> HIDE DEF m
  <2> QED BY <1>1, <2>1, Beginning DEF Begins
<1>3. /\ ui = Idle /\ todo = <<>> /\ pollers = <<>> /\ opened = 0 /\ version = 1 /\ typed = 0
      /\ net = [s \in Sessions |-> m]
  BY DEF Init
<1> HIDE DEF m
<1>4. Types
  <2>1. Idle \in Screens
    BY BoundsAssumption DEF Idle, Screens, None
  <2>2. <<>> \in Seq(Tasks) /\ <<>> \in Seq(Pollers)
    OBVIOUS
  <2>3. 0 \in 0 .. MaxSessions /\ 1 \in 1 .. MaxVersion /\ 0 \in 0 .. MaxTyped
    BY BoundsAssumption
  <2> QED BY <1>1, <1>3, <2>1, <2>2, <2>3 DEF Types
<1>5. ConnectionsOK
  BY <1>2, <1>3 DEF ConnectionsOK
<1>6. TasksOK
  BY <1>3 DEF TasksOK
<1>7. Dialing
  BY <1>2, <1>3 DEF Dialing, Idle, None
<1>8. Polling
  <2>1. /\ ui.client = None /\ ~ui.connected /\ ui.pollStop = None /\ ~ui.quit
    BY <1>3 DEF Idle
  <2>2. None \in 0 .. Len(pollers) /\ DOMAIN pollers = {}
    BY <1>3 DEF None
  <2> QED BY <2>1, <2>2 DEF Polling
<1> QED BY <1>4, <1>5, <1>6, <1>7, <1>8 DEF IInv

LEMMA CallbacksKeep == IInv /\ Callbacks => IInv'
BY DialFailedKeeps, HandshakeFailsKeeps, HandshakeKeeps, LeavesKeep, AcceptedKeeps,
   QuitRefusedKeeps, QuietKeeps DEF Callbacks

LEMMA NextKeeps == IInv /\ [Next]_vars => IInv'
<1> SUFFICES ASSUME IInv, [Next]_vars PROVE IInv'
  OBVIOUS
<1>1. CASE UNCHANGED vars
  <2>1. /\ ui' = ui /\ todo' = todo /\ pollers' = pollers /\ net' = net /\ opened' = opened
        /\ version' = version /\ typed' = typed
    BY <1>1 DEF vars
  <2>2. ui' = [ui EXCEPT !.view = ui'.view] /\ ui'.view \in 0 .. MaxVersion
        /\ typed' \in 0 .. MaxTyped
    BY <2>1 DEF IInv, Types, Screens
  <2> QED BY <2>1, <2>2, QuietStep
<1>2. CASE Connect \/ Callbacks \/ Dial
  BY <1>2, ConnectKeeps, CallbacksKeep, DialKeeps
<1>3. ASSUME NEW request \in {"LOOK", "ACT", "QUIT"}, Type(request) PROVE IInv'
  BY <1>3, TypeKeeps
<1>4. ASSUME NEW p \in DOMAIN pollers, Tick(p) PROVE IInv'
  BY <1>4, TickKeeps
<1>5. ASSUME NEW s \in Sessions,
             Writer(s) \/ Reader(s) \/ Refuse(s) \/ Grant(s) \/ Change(s) \/ Break(s)
      PROVE  IInv'
  BY <1>5, TakeLineKeeps, WriteLineKeeps, DeliverKeeps, ReaderEndsKeeps, RefuseKeeps,
     GrantKeeps, ChangeKeeps, BreakKeeps DEF Writer, WriteFails, Reader
<1> QED BY <1>1, <1>2, <1>3, <1>4, <1>5 DEF Next

LEMMA Invariant == Spec => []IInv
BY InitInv, NextKeeps, PTL DEF Spec

\* Every response reaches the UI thread with the command that it answers.
THEOREM ResponsesMatch == Spec => []AnswersMatch
<1>1. IInv => AnswersMatch
  BY DEF IInv, TasksOK, TaskOK, AnswersMatch
<1> QED BY <1>1, Invariant, PTL

LEMMA NeverParts ==
    ASSUME NEW a \in Seq(Words), NEW b \in Seq(Words), NEW r
    PROVE  Never(a \o b, r) <=> Never(a, r) /\ Never(b, r)
<1>1. /\ DOMAIN a = 1 .. Len(a) /\ DOMAIN b = 1 .. Len(b) /\ DOMAIN (a \o b) = 1 .. Len(a) + Len(b)
      /\ Len(a) \in Nat /\ Len(b) \in Nat
      /\ \A i \in 1 .. Len(a) : (a \o b)[i] = a[i]
      /\ \A i \in 1 .. Len(b) : (a \o b)[Len(a) + i] = b[i]
      /\ \A i \in 1 .. Len(a) + Len(b) : i > Len(a) => (a \o b)[i] = b[i - Len(a)]
  OBVIOUS
<1> DEFINE c == a \o b
<1> HIDE DEF c
<1>2. /\ DOMAIN c = 1 .. Len(a) + Len(b)
      /\ \A i \in 1 .. Len(a) : c[i] = a[i]
      /\ \A i \in 1 .. Len(b) : c[Len(a) + i] = b[i]
      /\ \A i \in 1 .. Len(a) + Len(b) : i > Len(a) => c[i] = b[i - Len(a)]
  BY <1>1 DEF c
<1>3. Never(c, r) => Never(a, r)
  BY <1>1, <1>2 DEF Never
<1>4. Never(c, r) => Never(b, r)
  <2>1. \A i \in 1 .. Len(b) : Len(a) + i \in 1 .. Len(a) + Len(b)
    BY <1>1
  <2> QED BY <1>1, <1>2, <2>1 DEF Never
<1>5. Never(a, r) /\ Never(b, r) => Never(c, r)
  <2> SUFFICES ASSUME Never(a, r), Never(b, r), NEW i \in DOMAIN c, c[i] = r PROVE FALSE
    BY DEF Never
  <2>1. CASE i \in 1 .. Len(a)
    BY <1>1, <1>2, <2>1 DEF Never
  <2>2. CASE i \notin 1 .. Len(a)
    <3> DEFINE j == i - Len(a)
    <3>1. i > Len(a) /\ i \in 1 .. Len(a) + Len(b) /\ j \in 1 .. Len(b)
      BY <1>1, <1>2, <2>2
    <3>2. b[j] = r
      BY <1>2, <3>1
    <3> HIDE DEF j
    <3> QED BY <1>1, <3>1, <3>2 DEF Never
  <2> QED BY <2>1, <2>2
<1> QED BY <1>3, <1>4, <1>5 DEF c

\* What the list of what is due is for.
LEMMA QuitIsDue ==
    ASSUME IInv, ui.client \in Sessions
    PROVE  QuitDue <=> ~Never(Due(ui.client), "QUIT")
<1> DEFINE s == ui.client
           a == ToldTo(s)
           p == net[s].pending
           o == net[s].outgoing
<1>1. /\ a \in Seq(Words) /\ p \in Seq(Words) /\ o \in Seq(Words) /\ Due(s) = a \o p \o o
  BY DueParts DEF IInv
<1>2. Never(Due(s), "QUIT") <=> Never(a, "QUIT") /\ Never(p, "QUIT") /\ Never(o, "QUIT")
  <2> HIDE DEF a, p, o
  <2>1. a \o p \in Seq(Words)
    BY <1>1
  <2>2. Never(a \o p \o o, "QUIT") <=> Never(a \o p, "QUIT") /\ Never(o, "QUIT")
    BY <1>1, <2>1, NeverParts
  <2>3. Never(a \o p, "QUIT") <=> Never(a, "QUIT") /\ Never(p, "QUIT")
    BY <1>1, NeverParts
  <2> QED BY <1>1, <2>2, <2>3
<1>3. "QUIT" \in Range(o \o p) <=> ~(Never(o, "QUIT") /\ Never(p, "QUIT"))
  <2>1. Never(o \o p, "QUIT") <=> Never(o, "QUIT") /\ Never(p, "QUIT")
    BY <1>1, NeverParts
  <2>2. "QUIT" \in Range(o \o p) <=> ~Never(o \o p, "QUIT")
    BY DEF Range, Never
  <2> QED BY <2>1, <2>2
<1>4. Never(a, "QUIT") <=>
         ~\E i \in DOMAIN todo :
             /\ todo[i].does = "message" /\ todo[i].client = s
             /\ todo[i].request = "QUIT"
  <2> DEFINE h == Selected(todo, Heard(s))
  <2>1. todo \in Seq(Tasks)
    BY DEF IInv, Types
  <2>2. h \in Seq(Heard(s))
    BY <2>1, HeardType
  <2>3. \A x : (\E i \in DOMAIN h : h[i] = x) <=> x \in Heard(s) /\ \E i \in DOMAIN todo : todo[i] = x
    BY <2>1, SelectedElements
  <2>4. a = Told(h)
    BY DEF ToldTo
  <2> HIDE DEF h
  <2>5. DOMAIN a = DOMAIN h /\ \A i \in DOMAIN h : a[i] = h[i].request
    BY <2>4 DEF Told
  <2>6. Never(a, "QUIT") <=> ~\E x : x \in Heard(s) /\ x.request = "QUIT"
                                     /\ \E i \in DOMAIN todo : todo[i] = x
    <3> HIDE DEF a
    <3>1. Never(a, "QUIT") <=> ~\E i \in DOMAIN h : h[i].request = "QUIT"
      BY <2>5 DEF Never
    <3> QED BY <2>3, <3>1
  <2>7. \A i \in DOMAIN todo :
           /\ todo[i].does = "message" /\ todo[i].client = s /\ todo[i].request = "QUIT"
           <=> todo[i] \in Heard(s) /\ todo[i].request = "QUIT"
    <3> SUFFICES ASSUME NEW i \in DOMAIN todo
                 PROVE  /\ todo[i].does = "message" /\ todo[i].client = s
                        /\ todo[i].request = "QUIT"
                        <=> todo[i] \in Heard(s) /\ todo[i].request = "QUIT"
      OBVIOUS
    <3> DEFINE c == todo[i]
    <3>1. c \in Tasks /\ TaskOK(c)
      BY <2>1 DEF IInv, TasksOK
    <3> HIDE DEF c
    <3>2. c \in Heard(s) => c.does = "message" /\ c.client = s
      BY DEF Heard, Messages
    <3>3. c.does = "message" => c \in Messages
      BY <3>1 DEF Tasks, Disconnections, Polls, Dials
    <3>4. c.does = "message" /\ c.request = "QUIT" => c.line.kind = "answer"
      BY <3>1 DEF TaskOK, LineOK
    <3> QED BY <3>2, <3>3, <3>4 DEF Heard, c
  <2> QED BY <2>6, <2>7
<1> QED BY <1>2, <1>3, <1>4 DEF QuitDue

\* The client polls, once, for the present session, exactly while it plays and
\* waits for no answer to a QUIT.
THEOREM PollingIsRight == Spec => []PollsWhilePlaying
<1>1. IInv => PollsWhilePlaying
  <2> SUFFICES ASSUME IInv PROVE PollsWhilePlaying
    OBVIOUS
  <2>1. Polling /\ ui \in Screens
    BY DEF IInv, Types
  <2>2. ui.connected => ui.client # None /\ ui.client \in Sessions
    BY <2>1 DEF Polling, Screens, Sessions, None
  <2>3. ui.connected => (QuitDue <=> ~Never(Due(ui.client), "QUIT"))
    BY <2>2, QuitIsDue
  <2>4. ui.connected => (Never(Due(ui.client), "QUIT") <=> ui.quit)
    BY <2>1, <2>2 DEF Polling
  <2>5. ui.pollStop # None <=> ui.connected /\ ~QuitDue
    BY <2>1, <2>3, <2>4 DEF Polling
  <2> QED BY <2>1, <2>5 DEF Polling, PollsWhilePlaying
<1> QED BY <1>1, Invariant, PTL

\* Who leaves, and why.
LEMMA LeavesAre ==
    ASSUME IInv, [Next]_vars, ui.client # None, ui'.client # ui.client
    PROVE  Lost \/ Left \/ ConnectRefused
<1>1. ui \in Screens
  BY DEF IInv, Types
<1>2. ~Connect /\ ~Callback("dialed")
  BY DialedFacts DEF Connect
<1>3. ~\E request \in {"LOOK", "ACT", "QUIT"} : Type(request)
  BY <1>1 DEF Type, Screens
<1>4. ~(LateMessage \/ Event \/ Greeting \/ Accepted \/ Looked \/ Acted \/ QuitRefused
        \/ Noted \/ PollOnce)
  BY <1>1 DEF LateMessage, Event, Greeting, Accepted, Looked, Acted, QuitRefused, Noted,
              PollOnce, Screens
<1>5. ~Dial /\ ~\E p \in DOMAIN pollers : Tick(p)
  BY DEF Dial, Tick
<1>6. ~\E s \in Sessions : Writer(s) \/ Reader(s) \/ Refuse(s) \/ Grant(s) \/ Change(s) \/ Break(s)
  BY DEF Writer, TakeLine, WriteLine, WriteFails, Reader, Deliver, ReaderEnds, Refuse, Grant,
         Change, Break
<1>7. ~UNCHANGED vars
  BY DEF vars
<1> QED BY <1>2, <1>3, <1>4, <1>5, <1>6, <1>7
        DEF Next, Callbacks, DialFailed, HandshakeFails, Handshake

\* A session is given up only when its own connection has ended, or its own
\* CONNECT was refused.
THEOREM LeavesOnlyForReason == Spec => LeavesForReason
<1>1. IInv /\ [Next]_vars =>
         [ui.client # None /\ ui'.client # ui.client =>
             net[ui.client].server = "closed" \/ net[ui.client].refused]_vars
  <2> SUFFICES ASSUME IInv, [Next]_vars, ui.client # None, ui'.client # ui.client
               PROVE  net[ui.client].server = "closed" \/ net[ui.client].refused
    OBVIOUS
  <2>1. CASE Lost
    <3>1. todo # <<>> /\ Head(todo).does = "disconnect" /\ Head(todo).client = ui.client
      BY <2>1 DEF Lost, Callback, Current
    <3>2. TaskOK(Head(todo))
      <4>1. todo \in Seq(Tasks)
        BY DEF IInv, Types
      <4>2. 1 \in DOMAIN todo /\ Head(todo) = todo[1]
        BY <3>1, <4>1
      <4> QED BY <4>2 DEF IInv, TasksOK
    <3> QED BY <3>1, <3>2 DEF TaskOK
  <2>2. CASE Left \/ ConnectRefused
    <3>1. PICK request \in Requests, ok \in BOOLEAN :
             /\ Answers(request, ok)
             /\ (request = "QUIT" /\ ok) \/ (request = "CONNECT" /\ ~ok)
      BY <2>2 DEF Left, ConnectRefused, Requests
    <3>2. /\ LineOK(net[ui.client], Head(todo).line)
          /\ Head(todo).line.to = request /\ Head(todo).line.ok = ok
      BY <3>1, OwnAnswer
    <3> QED BY <3>1, <3>2 DEF LineOK
  <2> QED BY <2>1, <2>2, LeavesAre
<1> QED BY <1>1, Invariant, PTL DEF Spec, LeavesForReason
===============================================================================
