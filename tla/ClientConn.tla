------------------------------ MODULE ClientConn ------------------------------
(***************************************************************************)
(* One connection of the server: the queue of lines for the client, the    *)
(* goroutine that writes them (writeLoop), the goroutine that runs the     *)
(* client's commands (handleClient), and every other goroutine, which may  *)
(* enqueue an event or close an overflowing connection at any moment.      *)
(*                                                                         *)
(* A handler answers with a line it waits for: a response enqueued without *)
(* blocking inside s.mu (enqueueResponse), or a greeting, an error or a    *)
(* farewell enqueued by the blocking Write, outside s.mu.                  *)
(***************************************************************************)
EXTENDS Naturals, Sequences

CONSTANTS
    Cap,        \* capacity of the out channel (64 in the code)
    MaxLines    \* bound: how many lines are accepted in all

ASSUME CapAssumption == Cap \in Nat \ {0}
ASSUME MaxLinesAssumption == MaxLines \in Nat \ {0}

\* The greeting, ERR lines, and "OK bye", after which the handler ends.
Spoken == {"hello", "error", "bye"}
Replies == Spoken \cup {"response"}
Lines == [id : 1 .. MaxLines, kind : Replies \cup {"event"}]
NoReply == "none"

VARIABLES
    out,        \* the channel: lines not yet taken by writeLoop
    writing,    \* the line writeLoop is writing, as a sequence
    loop,       \* writeLoop: "select", "write", "fail" or "ended"
    handler,    \* "read", "send" (inside Write), "wait", "leave" or "ended"
    reply,      \* the kind of reply the handler sends or waits for
    awaited,    \* the line whose report it waits for
    result,     \* that report: "none", "ok" or "err"
    closed,     \* client.done is closed
    socket,     \* "open", or "closed" a moment after client.done
    accepted,   \* history: the lines the queue accepted
    sent,       \* history: the lines written to the socket
    refused,    \* history: a line was refused or dropped
    answered    \* history: the lines whose sender was told of success

queue   == <<out, accepted>>
writer  == <<writing, loop, sent>>
waiting == <<handler, reply, awaited, result>>
vars    == <<queue, writer, waiting, closed, socket, refused, answered>>

Init ==
    /\ out = <<>> /\ accepted = <<>>
    /\ writing = <<>> /\ loop = "select" /\ sent = <<>>
    /\ handler = "send" /\ reply = "hello" /\ awaited = 0 /\ result = "none"
    /\ closed = FALSE /\ socket = "open"
    /\ refused = FALSE /\ answered = {}

Full == Len(out) = Cap

\* Leaves one line for a handler that is inside Write.
Budget == Len(accepted) + 1 < MaxLines

NextId == Len(accepted) + 1

Enqueue(kind) ==
    /\ ~Full
    /\ out' = Append(out, [id |-> NextId, kind |-> kind])
    /\ accepted' = Append(accepted, [id |-> NextId, kind |-> kind])

Close == closed' = TRUE

-------------------------------------------------------------------------------
(* Other goroutines: enqueueEvent.                                         *)

\* handleConnect registers the client when its response is enqueued.
Registered == \E k \in DOMAIN accepted : accepted[k].kind = "response"

\* Once closed, only a goroutine that had looked at done before may get here.
Event ==
    /\ Registered /\ Budget
    /\ Enqueue("event")
    /\ UNCHANGED <<writer, waiting, closed, socket, refused, answered>>

\* Mutant: an event that finds the queue full is dropped silently.
OverflowMutant == UNCHANGED closed

Overflow == Close

EventOverflows ==
    /\ Registered /\ ~closed /\ Full
    /\ Overflow
    /\ refused' = TRUE
    /\ UNCHANGED <<queue, writer, waiting, socket, answered>>

-------------------------------------------------------------------------------
(* writeLoop.                                                              *)

TakeLine ==
    /\ loop = "select" /\ out # <<>>
    /\ writing' = <<Head(out)>>
    /\ out' = Tail(out)
    /\ loop' = "write"
    /\ UNCHANGED <<accepted, sent, waiting, closed, socket, refused, answered>>

\* Every line has its own result channel; only its sender reads it.
Report(r) ==
    /\ result' = IF Head(writing).id = awaited THEN r ELSE result
    /\ UNCHANGED <<handler, reply, awaited>>

WriteLine ==
    /\ loop = "write" /\ socket = "open"
    /\ sent' = Append(sent, Head(writing))
    /\ Report("ok")
    /\ writing' = <<>>
    /\ loop' = "select"
    /\ UNCHANGED <<queue, closed, socket, refused, answered>>

\* A broken or closed socket, the write deadline, a short write.
WriteFails ==
    /\ loop = "write"
    /\ Report("err")
    /\ writing' = <<>>
    /\ loop' = "fail"
    /\ UNCHANGED <<queue, sent, closed, socket, refused, answered>>

\* Mutant: writeLoop returns without closing the connection.
CloseAfterFailureMutant == UNCHANGED closed

CloseAfterFailure == Close

LoopFails ==
    /\ loop = "fail"
    /\ CloseAfterFailure
    /\ loop' = "ended"
    /\ UNCHANGED <<queue, writing, sent, waiting, socket, refused, answered>>

\* Mutant: the select of writeLoop has no case for client.done.
SeesDoneMutant == FALSE

SeesDone == closed

LoopEnds ==
    /\ loop = "select" /\ SeesDone
    /\ loop' = "ended"
    /\ UNCHANGED <<queue, writing, sent, waiting, closed, socket, refused, answered>>

\* closeOnce.Do closes the socket after client.done.
SocketCloses ==
    /\ closed /\ socket = "open"
    /\ socket' = "closed"
    /\ UNCHANGED <<queue, writer, waiting, closed, refused, answered>>

-------------------------------------------------------------------------------
(* handleClient: commands and their replies.                               *)

Awaiting == "wait"

\* A command succeeds: its response is enqueued inside the critical section.
Respond ==
    /\ handler = "read" /\ Budget
    /\ Enqueue("response")
    /\ handler' = Awaiting /\ reply' = "response" /\ awaited' = NextId
    /\ UNCHANGED <<result, writer, closed, socket, refused, answered>>

\* The queue is full, or select chose client.done: the handler gives up.
RespondFails ==
    /\ handler = "read"
    /\ closed \/ Full
    /\ handler' = "leave"
    /\ refused' = TRUE
    /\ UNCHANGED <<queue, writer, reply, awaited, result, closed, socket, answered>>

\* A command is refused with an ERR line, or QUIT says "OK bye".
Say(kind) ==
    /\ handler = "read" /\ Budget
    /\ handler' = "send" /\ reply' = kind
    /\ UNCHANGED <<queue, writer, awaited, result, closed, socket, refused, answered>>

\* Write: block until there is room, or until the connection is closed.
SendLine ==
    /\ handler = "send"
    /\ Enqueue(reply)
    /\ handler' = Awaiting /\ awaited' = NextId
    /\ UNCHANGED <<reply, result, writer, closed, socket, refused, answered>>

\* The error of an ERR line is ignored, the handler reads on and fails there;
\* that of the greeting or of a response ends the command loop, as QUIT does.
After(ok) ==
    IF reply = "error" \/ (ok /\ reply # "bye") THEN "read" ELSE "leave"

Stop(ok) ==
    /\ handler' = After(ok)
    /\ reply' = NoReply /\ awaited' = 0 /\ result' = "none"

SendFails ==
    /\ handler = "send" /\ closed
    /\ Stop(FALSE)
    /\ refused' = TRUE
    /\ UNCHANGED <<queue, writer, closed, socket, answered>>

\* Mutant: any report counts as a success.
SucceededMutant == result # "none"

Succeeded == result = "ok"

WaitSucceeds ==
    /\ handler = "wait" /\ Succeeded
    /\ Stop(TRUE)
    /\ answered' = answered \cup {awaited}
    /\ UNCHANGED <<queue, writer, closed, socket, refused>>

\* Mutant: the wait does not look at client.done.
AbandonedMutant == result = "err"

Abandoned == result = "err" \/ closed

WaitFails ==
    /\ handler = "wait" /\ Abandoned
    /\ Stop(FALSE)
    /\ UNCHANGED <<queue, writer, closed, socket, refused, answered>>

\* The client closes the connection, or reading fails.
EndOfInput ==
    /\ handler = "read"
    /\ handler' = "leave"
    /\ UNCHANGED <<queue, writer, reply, awaited, result, closed, socket, refused,
                   answered>>

\* The deferred call: the player is removed and the connection closed.
HandlerEnds ==
    /\ handler = "leave"
    /\ handler' = "ended"
    /\ Close
    /\ UNCHANGED <<queue, writer, reply, awaited, result, socket, refused, answered>>

-------------------------------------------------------------------------------
WriteLoop == TakeLine \/ WriteLine \/ WriteFails \/ LoopFails \/ LoopEnds

Handler ==
    \/ Respond \/ RespondFails
    \/ Say("error") \/ Say("bye") \/ SendLine \/ SendFails
    \/ WaitSucceeds \/ WaitFails \/ EndOfInput \/ HandlerEnds

Next == Event \/ EventOverflows \/ WriteLoop \/ SocketCloses \/ Handler

Spec == Init /\ [][Next]_vars

\* Goroutines that can run do run; a write ends by its deadline; reading from
\* a closed socket fails once the finitely many lines the scanner holds are
\* used up (strong fairness).  Nothing is assumed of the client or of events.
Fairness ==
    /\ WF_vars(WriteLoop) /\ WF_vars(SocketCloses)
    /\ WF_vars(SendLine \/ SendFails) /\ WF_vars(WaitSucceeds \/ WaitFails)
    /\ WF_vars(HandlerEnds)
    /\ SF_vars(socket = "closed" /\ EndOfInput)

FairSpec == Spec /\ Fairness

-------------------------------------------------------------------------------
(* Properties.                                                             *)

TypeOK ==
    /\ out \in Seq(Lines) /\ Len(out) <= Cap
    /\ accepted \in Seq(Lines) /\ sent \in Seq(Lines)
    /\ writing \in Seq(Lines) /\ Len(writing) = IF loop = "write" THEN 1 ELSE 0
    /\ loop \in {"select", "write", "fail", "ended"}
    /\ handler \in {"read", "send", "wait", "leave", "ended"}
    /\ reply \in Replies \cup {NoReply}
    /\ awaited \in 0 .. MaxLines
    /\ result \in {"none", "ok", "err"}
    /\ closed \in BOOLEAN /\ refused \in BOOLEAN
    /\ socket \in {"open", "closed"}
    /\ answered \subseteq 1 .. MaxLines

Channel == INSTANCE EventChannel WITH
    delivered <- sent,
    ending <- closed \/ handler \in {"leave", "ended"}

\* The client gets what was accepted, in order and without a gap; a full queue
\* ends the connection rather than lose an event in the middle.
DeliversInOrder == Channel!Spec

\* A handler that goes on to the next command has its last response written.
AnsweredWasSent ==
    \A i \in answered : \E k \in DOMAIN sent : sent[k].id = i

\* A handler never waits forever for its line to be written, whether the
\* client reads or not, and whoever closes the connection meanwhile.
RepliesEnd == handler \in {"send", "wait"} ~> handler \notin {"send", "wait"}

\* Once a connection is closed by anyone, both its goroutines end.
CloseCompletes == closed ~> loop = "ended" /\ handler = "ended"

\* Every accepted line reaches the client unless the connection is closed.
LinesArrive ==
    \A i \in 1 .. MaxLines : Len(accepted) >= i ~> Len(sent) >= i \/ closed
===============================================================================
