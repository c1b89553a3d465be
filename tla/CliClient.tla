------------------------------- MODULE CliClient -------------------------------
(***************************************************************************)
(* The terminal client: a goroutine that reads the server's lines, and the *)
(* main loop, which sends what is typed and, after QUIT, waits for its     *)
(* answer.  Nothing in a line says which command it answers: the client    *)
(* keeps a list of what it has sent, and strikes off its head for every    *)
(* line that is not an event.                                              *)
(*                                                                         *)
(* Of the server only what a client can tell is modelled, from             *)
(* handleClient: it reads commands in order, answers each once,            *)
(* closes after the answer to a QUIT or at the end of its input, may send  *)
(* an event whenever it likes, and may go away at any moment.              *)
(***************************************************************************)
EXTENDS Naturals, Lists

CONSTANTS
    Buffer,     \* bound: lines the network holds in each direction
    MaxTyped    \* bound: lines that are typed

ASSUME BoundsAssumption == Buffer \in Nat \ {0} /\ MaxTyped \in Nat

VARIABLES
    typed,      \* lines typed so far
    input,      \* "open", "ended", or "nil" once CloseWrite was called
    main,       \* "select", "sending", "waiting" (in the select after QUIT) or "ended"
    line,       \* the line being sent: is it QUIT?
    pending,    \* for each command not yet answered: is it QUIT?
    acknowledged, rejected, serverDone,     \* channels with room for one value
    reader,     \* "reading" or "ended"
    up, upOpen,     \* commands under way to the server: is it QUIT?
    down,       \* lines under way to the client
    server,     \* "open", "quit" when it has ended the session, or "closed"
    left        \* history: the client ended because its QUIT was answered

vars == <<typed, input, main, line, pending, acknowledged, rejected, serverDone,
          reader, up, upOpen, down, server, left>>

\* to is what the server answers: history, the client cannot see it.
Lines == [text : {"bye", "ok", "err", "evt"}, to : {"quit", "command", "nothing"}]

TypeOK ==
    /\ typed \in 0 .. MaxTyped /\ input \in {"open", "ended", "nil"}
    /\ main \in {"select", "sending", "waiting", "ended"} /\ line \in BOOLEAN
    /\ pending \in Seq(BOOLEAN) /\ Len(pending) <= MaxTyped
    /\ acknowledged \in BOOLEAN /\ rejected \in BOOLEAN /\ serverDone \in BOOLEAN
    /\ reader \in {"reading", "ended"}
    /\ up \in Seq(BOOLEAN) /\ upOpen \in BOOLEAN /\ down \in Seq(Lines)
    /\ server \in {"open", "quit", "closed"} /\ left \in BOOLEAN

\* The greeting has been read.
Init ==
    /\ typed = 0 /\ input = "open" /\ main = "select" /\ line = FALSE
    /\ pending = <<>>
    /\ acknowledged = FALSE /\ rejected = FALSE /\ serverDone = FALSE
    /\ reader = "reading" /\ up = <<>> /\ upOpen = TRUE /\ down = <<>>
    /\ server = "open" /\ left = FALSE

-------------------------------------------------------------------------------
(* The main loop.                                                          *)

\* Mutant: the command is listed after it was sent.
ListedMutant(list, isQuit) == list

Listed(list, isQuit) == Append(list, isQuit)

\* Blank lines are not sent; any other line gets one answer.
Type(isQuit) ==
    /\ main = "select" /\ input = "open" /\ typed < MaxTyped
    /\ typed' = typed + 1
    /\ line' = isQuit
    /\ pending' = Listed(pending, isQuit)
    /\ main' = "sending"
    /\ UNCHANGED <<input, acknowledged, rejected, serverDone, reader,
                   up, upOpen, down, server, left>>

Send ==
    /\ main = "sending"
    /\ server = "open" /\ Len(up) < Buffer
    /\ up' = Append(up, line)
    /\ main' = IF line THEN "waiting" ELSE "select"
    /\ UNCHANGED <<typed, input, line, pending, acknowledged, rejected, serverDone,
                   reader, upOpen, down, server, left>>

\* What is sent to a closed connection is lost, or the write fails.
SendFails ==
    /\ main = "sending" /\ server # "open"
    /\ main' \in {"ended", IF line THEN "waiting" ELSE "select"}
    /\ UNCHANGED <<typed, input, line, pending, acknowledged, rejected, serverDone,
                   reader, up, upOpen, down, server, left>>

EndOfInput ==
    /\ main = "select" /\ input = "open"
    /\ input' = "ended"
    /\ UNCHANGED <<typed, main, line, pending, acknowledged, rejected, serverDone,
                   reader, up, upOpen, down, server, left>>

\* Mutant: the connection stays open for writing.
HalfClosedMutant == TRUE

HalfClosed == FALSE

\* CloseWrite may fail when the connection is gone.
CloseWrite ==
    /\ main = "select" /\ input = "ended"
    /\ \/ /\ upOpen' = HalfClosed /\ input' = "nil" /\ UNCHANGED main
       \/ /\ server # "open" /\ main' = "ended" /\ UNCHANGED <<upOpen, input>>
    /\ UNCHANGED <<typed, line, pending, acknowledged, rejected, serverDone,
                   reader, up, down, server, left>>

\* quitAcknowledged, in the loop or while waiting.
Acknowledged ==
    /\ main \in {"select", "waiting"} /\ acknowledged
    /\ acknowledged' = FALSE
    /\ main' = "ended" /\ left' = TRUE
    /\ UNCHANGED <<typed, input, line, pending, rejected, serverDone, reader,
                   up, upOpen, down, server>>

Rejected ==
    /\ main = "waiting" /\ rejected
    /\ rejected' = FALSE
    /\ main' = "select"
    /\ UNCHANGED <<typed, input, line, pending, acknowledged, serverDone, reader,
                   up, upOpen, down, server, left>>

Disconnected ==
    /\ main \in {"select", "waiting"} /\ serverDone
    /\ serverDone' = FALSE
    /\ main' = "ended"
    /\ UNCHANGED <<typed, input, line, pending, acknowledged, rejected, reader,
                   up, upOpen, down, server, left>>

-------------------------------------------------------------------------------
(* The goroutine that reads.                                               *)

IsResponse(text) == text # "evt"

\* Mutant: any farewell will do.
IsQuitMutant == TRUE

\* Is the line that comes next the answer to a QUIT?
IsQuit == pending # <<>> /\ Head(pending)

\* Sending to a channel that is full does nothing.
Read ==
    /\ reader = "reading" /\ main # "ended" /\ down # <<>>
    /\ down' = Tail(down)
    /\ LET text == Head(down).text
       IN  IF IsResponse(text)
           THEN /\ pending' = IF pending = <<>> THEN pending ELSE Tail(pending)
                /\ acknowledged' = (acknowledged \/ (IsQuit /\ text = "bye"))
                /\ rejected' = (rejected \/ (IsQuit /\ text = "err"))
           ELSE UNCHANGED <<pending, acknowledged, rejected>>
    /\ UNCHANGED <<typed, input, main, line, serverDone, reader, up, upOpen,
                   server, left>>

ReaderEnds ==
    /\ reader = "reading" /\ main # "ended" /\ down = <<>> /\ server # "open"
    /\ reader' = "ended" /\ serverDone' = TRUE
    /\ UNCHANGED <<typed, input, main, line, pending, acknowledged, rejected,
                   up, upOpen, down, server, left>>

-------------------------------------------------------------------------------
(* The server, as far as a client can tell.                                *)

Room == Len(down) < Buffer

\* A dialogue may say "bye", too.
Answer ==
    /\ server = "open" /\ up # <<>> /\ Room
    /\ up' = Tail(up)
    /\ IF Head(up)
       THEN \/ /\ down' = Append(down, [text |-> "bye", to |-> "quit"])
               /\ server' = "quit"
            \/ /\ down' = Append(down, [text |-> "err", to |-> "quit"])
               /\ UNCHANGED server
       ELSE /\ \E text \in {"bye", "ok", "err"} :
                  down' = Append(down, [text |-> text, to |-> "command"])
            /\ UNCHANGED server
    /\ UNCHANGED <<typed, input, main, line, pending, acknowledged, rejected,
                   serverDone, reader, upOpen, left>>

Event ==
    /\ server = "open" /\ Room
    /\ down' = Append(down, [text |-> "evt", to |-> "nothing"])
    /\ UNCHANGED <<typed, input, main, line, pending, acknowledged, rejected,
                   serverDone, reader, up, upOpen, server, left>>

\* The end of the commands, or of the client.
ServerSeesEnd ==
    /\ server = "open" /\ up = <<>> /\ (~upOpen \/ main = "ended")
    /\ server' = "closed"
    /\ UNCHANGED <<typed, input, main, line, pending, acknowledged, rejected,
                   serverDone, reader, up, upOpen, down, left>>

\* The server is killed, or closes a connection that reads too slowly: lines
\* under way may be lost.
ServerGone ==
    /\ server = "open"
    /\ server' = "closed"
    /\ \E n \in 0 .. Len(down) : down' = SubSeq(down, 1, n)
    /\ UNCHANGED <<typed, input, main, line, pending, acknowledged, rejected,
                   serverDone, reader, up, upOpen, left>>

-------------------------------------------------------------------------------

Main ==
    \/ \E isQuit \in BOOLEAN : Type(isQuit)
    \/ Send \/ SendFails
    \/ CloseWrite
    \/ Acknowledged \/ Rejected \/ Disconnected

Reader == Read \/ ReaderEnds

Next ==
    \/ Main \/ EndOfInput \/ Reader
    \/ Answer \/ Event \/ ServerSeesEnd \/ ServerGone

\* The goroutines run, and the server answers: its lines are written in turn,
\* so events do not keep an answer from being sent.
Fairness ==
    /\ WF_vars(Send) /\ WF_vars(SendFails) /\ WF_vars(CloseWrite)
    /\ WF_vars(Acknowledged) /\ WF_vars(Rejected) /\ WF_vars(Disconnected)
    /\ WF_vars(Reader) /\ SF_vars(Answer) /\ WF_vars(ServerSeesEnd)

Spec == Init /\ [][Next]_vars /\ Fairness

-------------------------------------------------------------------------------
(* Properties.                                                             *)

Answers == Selected(down, {l \in Lines : l.to # "nothing"})

Unsent == IF main = "sending" THEN <<line>> ELSE <<>>

\* While the connection stands, the list of pending commands is exactly what is
\* still to be answered, in order: the answers under way, the commands under
\* way, and the one being sent.
PendingInOrder ==
    server = "open" =>
        pending = [i \in DOMAIN Answers |-> Answers[i].to = "quit"] \o up \o Unsent

\* The client leaves on an answer only when the server has let its QUIT end the
\* session: not on another command's error or farewell.
LeavesWhenTold == left => server = "quit"

\* A QUIT always ends, with the session or with its refusal; and at the end of
\* its input, or when the server is gone, the client takes the answers that are
\* still due and ends.
NeverHangs ==
    /\ main = "waiting" ~> main # "waiting"
    /\ (input # "open" \/ server # "open") ~> main = "ended"
===============================================================================
