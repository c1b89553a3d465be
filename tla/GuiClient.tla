------------------------------- MODULE GuiClient -------------------------------
(***************************************************************************)
(* The graphical client: one UI thread, which runs callbacks in turn, and  *)
(* for each connection a goroutine that writes, one that reads, and one    *)
(* that polls.  A response names no command: the writer lists what it      *)
(* sends, and the reader strikes off the head for each response.  When a   *)
(* connection has ended, its goroutines and their callbacks may live on    *)
(* into the next one.                                                      *)
(*                                                                         *)
(* The commands are LANG and CONNECT, which open a session; LOOK, for all  *)
(* that only refresh the screen; ACT, for all whose answer makes the       *)
(* client look again; and QUIT.  Of the server only what a client can      *)
(* tell is modelled, from handleClient.                                    *)
(***************************************************************************)
EXTENDS Functions, Naturals, Sequences

CONSTANTS
    Capacity,       \* of outgoing
    PollLimit,      \* canPoll: so many commands may wait
    NetworkRoom,    \* bound: lines under way in each direction
    Incoming,       \* of incoming, and messages that fyne.Do holds
    MaxSessions,    \* bound: connections
    MaxTyped,       \* bound: commands of the user
    MaxVersion      \* bound: versions of what the room looks like

ASSUME BoundsAssumption ==
    /\ Capacity \in Nat \ {0, 1} /\ PollLimit \in Nat \ {0}
    /\ NetworkRoom \in Nat \ {0} /\ Incoming \in Nat \ {0}
    /\ MaxSessions \in Nat /\ MaxTyped \in Nat /\ MaxVersion \in Nat \ {0}

VARIABLES
    ui,         \* the fields of gui that only the UI thread uses
    todo,       \* callbacks given to fyne.Do
    pollers,    \* the goroutines that poll, in the order they were started
    net,        \* each connection: protocolClient, the network, the server
    opened,     \* connections so far
    version,    \* of what the server has to show
    typed       \* commands of the user so far

vars == <<ui, todo, pollers, net, opened, version, typed>>

Sessions == 1 .. MaxSessions
None == 0

Requests == {"LANG", "CONNECT", "LOOK", "ACT", "QUIT"}

\* to is what the server answers, and sees what it shows: the client has to
\* tell to from the order of the lines.
Line(kind, to, ok, sees) == [kind |-> kind, to |-> to, ok |-> ok, sees |-> sees]

Lines ==
    [kind : {"greeting", "event", "answer"}, to : Requests \cup {""},
     ok : BOOLEAN, sees : 0 .. MaxVersion]

Message(s, line, request) ==
    [does |-> "message", client |-> s, line |-> line, request |-> request]
Disconnection(s) == [does |-> "disconnect", client |-> s]
Poll(p) == [does |-> "poll", poller |-> p]
Dialed(ok) == [does |-> "dialed", ok |-> ok]

\* newProtocolClient.
Fresh ==
    [done |-> FALSE, reading |-> TRUE, outgoing |-> <<>>, writing |-> "",
     pending |-> <<>>, up |-> <<>>, down |-> <<Line("greeting", "", TRUE, 0)>>,
     server |-> "open", refused |-> FALSE]

Idle ==
    [client |-> None, dialing |-> FALSE, connected |-> FALSE, pollStop |-> None,
     quit |-> FALSE, view |-> 0]

Init ==
    /\ ui = Idle /\ todo = <<>> /\ pollers = <<>>
    /\ net = [s \in Sessions |-> [Fresh EXCEPT !.done = TRUE, !.reading = FALSE,
                                               !.down = <<>>, !.server = "closed"]]
    /\ opened = 0 /\ version = 1 /\ typed = 0

TypeOK ==
    /\ ui.client \in 0 .. opened /\ ui.view \in 0 .. version
    /\ ui.pollStop \in 0 .. Len(pollers)
    /\ \A s \in Sessions :
          /\ Len(net[s].outgoing) <= Capacity
          /\ net[s].outgoing \in Seq(Requests) /\ net[s].pending \in Seq(Requests)
          /\ net[s].writing \in Requests \cup {""}
          /\ net[s].up \in Seq(Requests) /\ net[s].down \in Seq(Lines)
          /\ net[s].server \in {"open", "playing", "closed"}
    /\ opened \in 0 .. MaxSessions /\ version \in 1 .. MaxVersion
    /\ typed \in 0 .. MaxTyped

-------------------------------------------------------------------------------
(* What callbacks do.                                                      *)

CanSend(s) == ~net[s].done /\ Len(net[s].outgoing) < Capacity

\* Send, when the answer does not matter.
Sent(s, request) ==
    IF CanSend(s) THEN [net EXCEPT ![s].outgoing = Append(@, request)] ELSE net

\* protocolClient.Close: nothing this connection had still to send matters.
Closed(n, s) ==
    [n EXCEPT ![s].done = TRUE, ![s].outgoing = <<>>, ![s].writing = "",
              ![s].up = <<>>, ![s].server = "closed"]

\* Mutant: the channel is forgotten, but not closed.
StoppedMutant == pollers

\* stopPolling.
Stopped ==
    IF ui.pollStop = None THEN pollers
    ELSE [pollers EXCEPT ![ui.pollStop].stopped = TRUE]

NewPoller == [client |-> ui.client, stopped |-> FALSE]

\* disconnect.
Disconnect ==
    /\ ui' = Idle
    /\ pollers' = Stopped
    /\ net' = Closed(net, ui.client)

-------------------------------------------------------------------------------
(* The UI thread: what the user does.                                      *)

\* connect: the button is disabled while there is a client.
Connect ==
    /\ ui.client = None /\ ~ui.dialing /\ opened < MaxSessions
    /\ ui' = [ui EXCEPT !.dialing = TRUE]
    /\ opened' = opened + 1
    /\ UNCHANGED <<todo, pollers, net, version, typed>>

\* send; QUIT stops polling until it is refused.
Type(request) ==
    /\ ui.connected /\ typed < MaxTyped
    /\ request = "QUIT" => ui.quit
    /\ typed' = typed + 1
    /\ net' = Sent(ui.client, request)
    /\ IF request = "QUIT" /\ CanSend(ui.client)
       THEN /\ pollers' = Stopped
            /\ ui' = [ui EXCEPT !.pollStop = None, !.quit = FALSE]
       ELSE UNCHANGED <<pollers, ui>>
    /\ UNCHANGED <<todo, opened, version>>

-------------------------------------------------------------------------------
(* The UI thread: callbacks.                                               *)

Callback(does) == todo # <<>> /\ Head(todo).does = does /\ todo' = Tail(todo)

Same == UNCHANGED <<opened, version, typed>>

DialFailed ==
    /\ Callback("dialed") /\ ~Head(todo).ok
    /\ ui' = [ui EXCEPT !.dialing = FALSE]
    /\ UNCHANGED <<pollers, net>> /\ Same

\* Japanese is asked for before the name is given.
Handshake(japanese) ==
    /\ Callback("dialed") /\ Head(todo).ok
    /\ ui' = [ui EXCEPT !.dialing = FALSE, !.client = opened]
    /\ net' = [net EXCEPT ![opened] =
                  [Fresh EXCEPT !.outgoing = IF japanese THEN <<"LANG", "CONNECT">>
                                                         ELSE <<"CONNECT">>]]
    /\ UNCHANGED pollers /\ Same

\* The server has closed before the handshake could be sent.
HandshakeFails ==
    /\ Callback("dialed") /\ Head(todo).ok
    /\ ui' = Idle
    /\ net' = [net EXCEPT ![opened] = [Fresh EXCEPT !.done = TRUE, !.server = "closed"]]
    /\ UNCHANGED pollers /\ Same

\* Mutant: a message is handled whichever connection it is from.
CurrentMutant(s) == ui.client # None

Current(s) == s = ui.client

\* receive drops what is not from the present connection.
LateMessage ==
    /\ \/ Callback("message")
       \/ Callback("disconnect")
    /\ ~Current(Head(todo).client)
    /\ UNCHANGED <<ui, pollers, net>> /\ Same

Lost ==
    /\ Callback("disconnect") /\ Current(Head(todo).client)
    /\ Disconnect
    /\ Same

OwnMessage == Callback("message") /\ Current(Head(todo).client)

Answers(request, ok) ==
    /\ OwnMessage
    /\ Head(todo).line.kind = "answer"
    /\ Head(todo).request = request /\ Head(todo).line.ok = ok

\* handleEvent: presence, combat, deaths, quests, groups.  An event before the
\* session is open changes nothing.
Event ==
    /\ OwnMessage /\ Head(todo).line.kind = "event"
    /\ net' = IF ui.connected THEN Sent(ui.client, "LOOK") ELSE net
    /\ UNCHANGED <<ui, pollers>> /\ Same

Greeting ==
    /\ OwnMessage /\ Head(todo).line.kind = "greeting"
    /\ UNCHANGED <<ui, pollers, net>> /\ Same

Accepted ==
    /\ Answers("CONNECT", TRUE)
    /\ pollers' = Append(pollers, NewPoller)
    /\ ui' = [ui EXCEPT !.connected = TRUE, !.quit = TRUE, !.pollStop = Len(pollers')]
    /\ net' = Sent(ui.client, "LOOK")
    /\ Same

Looked ==
    /\ Answers("LOOK", TRUE)
    /\ ui' = [ui EXCEPT !.view = Head(todo).line.sees]
    /\ UNCHANGED <<pollers, net>> /\ Same

Acted ==
    /\ Answers("ACT", TRUE)
    /\ net' = Sent(ui.client, "LOOK")
    /\ UNCHANGED <<ui, pollers>> /\ Same

\* The session is over.
Left == Answers("QUIT", TRUE) /\ Disconnect /\ Same

\* The session was never opened.
ConnectRefused == Answers("CONNECT", FALSE) /\ Disconnect /\ Same

QuitRefused ==
    /\ Answers("QUIT", FALSE)
    /\ pollers' = IF ui.pollStop = None THEN Append(pollers, NewPoller) ELSE pollers
    /\ ui' = [ui EXCEPT !.quit = TRUE, !.pollStop = IF @ = None THEN Len(pollers') ELSE @]
    /\ UNCHANGED net /\ Same

\* LANG only changes wording; an error is shown.
Noted ==
    /\ \/ \E ok \in BOOLEAN : Answers("LANG", ok)
       \/ \E request \in {"LOOK", "ACT"} : Answers(request, FALSE)
    /\ UNCHANGED <<ui, pollers, net>> /\ Same

\* Mutant: polls when the server is busy.
CanPollMutant(s) == Len(net[s].pending) + Len(net[s].outgoing) > PollLimit

CanPoll(s) == Len(net[s].pending) + Len(net[s].outgoing) < PollLimit

\* pollOnce, unless polling was stopped after the callback was given.
PollOnce ==
    /\ Callback("poll")
    /\ LET p == pollers[Head(todo).poller]
       IN  net' = IF ~p.stopped /\ p.client = ui.client /\ ui.connected /\ CanPoll(p.client)
                  THEN Sent(p.client, "LOOK") ELSE net
    /\ UNCHANGED <<ui, pollers>> /\ Same

Callbacks ==
    \/ DialFailed \/ HandshakeFails \/ \E japanese \in BOOLEAN : Handshake(japanese)
    \/ LateMessage \/ Lost \/ Event \/ Greeting
    \/ Accepted \/ Looked \/ Acted \/ Left \/ ConnectRefused \/ QuitRefused \/ Noted
    \/ PollOnce

-------------------------------------------------------------------------------
(* The other goroutines.                                                   *)

Dial ==
    /\ ui.dialing /\ \A i \in DOMAIN todo : todo[i].does # "dialed"
    /\ \E ok \in BOOLEAN : todo' = Append(todo, Dialed(ok))
    /\ UNCHANGED <<ui, pollers, net>> /\ Same

\* The ticker of poll.  A tick that wins against a channel that is closed, by
\* chance, is left out: its callback does nothing.
Tick(p) ==
    /\ ~pollers[p].stopped /\ ~net[pollers[p].client].done
    /\ \A i \in DOMAIN todo : todo[i] # Poll(p)     \* bound: one callback at a time
    /\ todo' = Append(todo, Poll(p))
    /\ UNCHANGED <<ui, pollers, net>> /\ Same

\* writeLoop: listed as pending, then written.
TakeLine(s) ==
    /\ ~net[s].done /\ net[s].writing = "" /\ net[s].outgoing # <<>>
    /\ net' = [net EXCEPT ![s].outgoing = Tail(@),
                          ![s].writing = Head(net[s].outgoing),
                          ![s].pending = Append(@, Head(net[s].outgoing))]
    /\ UNCHANGED <<ui, todo, pollers>> /\ Same

WriteLine(s) ==
    /\ net[s].writing # "" /\ net[s].server # "closed" /\ Len(net[s].up) < NetworkRoom
    /\ net' = [net EXCEPT ![s].up = Append(@, net[s].writing), ![s].writing = ""]
    /\ UNCHANGED <<ui, todo, pollers>> /\ Same

\* Mutant: whatever begins with OK is a response.
IsResponseMutant(kind) == kind # "event"

IsResponse(kind) == kind = "answer"

Waiting == SelectSeq(todo, LAMBDA c : c.does = "message")

\* readLoop and receive.  A reader whose client was closed may still win with
\* what it has read.
Deliver(s) ==
    /\ net[s].reading /\ net[s].down # <<>> /\ Len(Waiting) < Incoming
    /\ LET line     == Head(net[s].down)
           response == IsResponse(line.kind) /\ net[s].pending # <<>>
           request  == IF response THEN Head(net[s].pending) ELSE ""
       IN  /\ net' = [net EXCEPT ![s].down = Tail(@),
                                 ![s].pending = IF response THEN Tail(@) ELSE @]
           /\ todo' = Append(todo, Message(s, line, request))
    /\ UNCHANGED <<ui, pollers>> /\ Same

\* Mutant: says nothing while it waits for no response.
ReportsMutant(s) == net[s].pending # <<>>

Reports(s) == TRUE

ReaderEnds(s) ==
    /\ net[s].reading
    /\ \/ net[s].down = <<>> /\ net[s].server = "closed"
       \/ net[s].done
    /\ net' = [net EXCEPT ![s].reading = FALSE, ![s].done = TRUE, ![s].down = <<>>]
    /\ \/ Reports(s) /\ todo' = Append(todo, Disconnection(s))
       \/ (net[s].done \/ ~Reports(s)) /\ UNCHANGED todo
    /\ UNCHANGED <<ui, pollers>> /\ Same

-------------------------------------------------------------------------------
(* The server, as far as a client can tell.                                *)

Serves(s) == net[s].server # "closed"
Room(s) == Len(net[s].down) < NetworkRoom

Answered(s, ok) ==
    LET request == Head(net[s].up)
    IN  Line("answer", request, ok, IF request = "LOOK" THEN version ELSE 0)

\* A LOOK is sent by a session that was opened, and its player is there and not
\* being saved (OneSession of ItemLedger): it is not refused.
Refuse(s) ==
    /\ Serves(s) /\ Room(s) /\ net[s].up # <<>> /\ Head(net[s].up) # "LOOK"
    /\ net' = [net EXCEPT ![s].up = Tail(@),
                          ![s].down = Append(@, Answered(s, FALSE)),
                          ![s].refused = @ \/ Head(net[s].up) = "CONNECT"]
    /\ UNCHANGED <<ui, todo, pollers>> /\ Same

\* What the player does may change what there is to see.
Grant(s) ==
    /\ Serves(s) /\ Room(s) /\ net[s].up # <<>>
    /\ LET request == Head(net[s].up)
       IN  /\ net' = [net EXCEPT ![s].up = Tail(@),
                                 ![s].down = Append(@, Answered(s, TRUE)),
                                 ![s].server = CASE request = "CONNECT" -> "playing"
                                                 [] request = "QUIT"    -> "closed"
                                                 [] OTHER               -> @]
           /\ IF request = "ACT" /\ version < MaxVersion
              THEN version' \in {version, version + 1}
              ELSE UNCHANGED version
    /\ UNCHANGED <<ui, todo, pollers, opened, typed>>

\* Another player does something: nobody is told of a TAKE or a DROP.
Change(s) ==
    /\ net[s].server = "playing" /\ version < MaxVersion
    /\ version' = version + 1
    /\ \/ Room(s) /\ net' = [net EXCEPT ![s].down = Append(@, Line("event", "", TRUE, 0))]
       \/ UNCHANGED net
    /\ UNCHANGED <<ui, todo, pollers, opened, typed>>

\* The server closes a connection that reads too slowly, or is killed: lines
\* under way may be lost.
Break(s) ==
    /\ Serves(s)
    /\ \E n \in 0 .. Len(net[s].down) :
          net' = [net EXCEPT ![s].server = "closed", ![s].down = SubSeq(@, 1, n)]
    /\ UNCHANGED <<ui, todo, pollers>> /\ Same

\* A write fails, by its deadline at the latest, and writeLoop closes the
\* connection: to the reader that is the same.
WriteFails(s) == net[s].writing # "" /\ Break(s)

-------------------------------------------------------------------------------

Writer(s) == TakeLine(s) \/ WriteLine(s) \/ WriteFails(s)

Reader(s) == Deliver(s) \/ ReaderEnds(s)

Next ==
    \/ Connect \/ \E request \in {"LOOK", "ACT", "QUIT"} : Type(request)
    \/ Callbacks \/ Dial \/ \E p \in DOMAIN pollers : Tick(p)
    \/ \E s \in Sessions :
          \/ Writer(s) \/ Reader(s)
          \/ Refuse(s) \/ Grant(s) \/ Change(s) \/ Break(s)

\* The UI thread and the goroutines run, a write ends by its deadline, tickers
\* tick, a dial ends within five seconds, and the server answers.
Fairness ==
    /\ WF_vars(Callbacks) /\ WF_vars(Dial)
    /\ WF_vars(\E p \in DOMAIN pollers : Tick(p))
    /\ \A s \in Sessions :
          /\ WF_vars(Writer(s)) /\ WF_vars(Reader(s))
          /\ WF_vars(Refuse(s) \/ Grant(s))

Spec == Init /\ [][Next]_vars /\ Fairness

-------------------------------------------------------------------------------
(* Properties.                                                             *)

\* Every response reaches the UI thread with the command that it answers.
AnswersMatch ==
    \A i \in DOMAIN todo :
        todo[i].does = "message" => todo[i].request = todo[i].line.to

\* QUIT was sent and the client does not know the answer yet.
QuitDue ==
    \/ "QUIT" \in Range(net[ui.client].outgoing \o net[ui.client].pending)
    \/ \E i \in DOMAIN todo :
          /\ todo[i].does = "message" /\ todo[i].client = ui.client
          /\ todo[i].request = "QUIT"

\* The client polls, once, for the present session, exactly while it plays and
\* waits for no answer to a QUIT: a refused QUIT resumes polling, and no poller
\* of an earlier connection goes on.
PollsWhilePlaying ==
    /\ \A p \in DOMAIN pollers : pollers[p].stopped <=> p # ui.pollStop
    /\ ui.pollStop # None <=> ui.connected /\ ~QuitDue
    /\ ui.pollStop # None => pollers[ui.pollStop].client = ui.client

\* A session is given up only when its own connection has ended or its own
\* CONNECT was refused, never because of a message left over from another.
LeavesForReason ==
    [][ui.client # None /\ ui'.client # ui.client =>
          net[ui.client].server = "closed" \/ net[ui.client].refused]_vars

CurrentLost == ui.client # None /\ net[ui.client].server = "closed"

\* A connection that ends is noticed, and the user may connect again.
LostIsNoticed == CurrentLost ~> ~CurrentLost

\* The screen catches up with the server, though refreshes are dropped when the
\* queue is full and polls when commands are waiting.
ViewCatchesUp ==
    \A v \in 1 .. MaxVersion :
        ui.connected /\ version >= v ~> ui.view >= v \/ ~ui.connected
===============================================================================
