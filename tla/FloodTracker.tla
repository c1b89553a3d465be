----------------------------- MODULE FloodTracker -----------------------------
(***************************************************************************)
(* floodTracker: a connection that sends too many commands in a short time *)
(* is reported in the log, once in a while.  Times are kept as ages; an    *)
(* age that no comparison can tell from a greater one stops growing.       *)
(*                                                                         *)
(* seen and quiet are history variables: what really happened.             *)
(***************************************************************************)
EXTENDS Functions, Integers, Lists

CONSTANTS
    Window,         \* commandWindow
    MaxPerWindow,   \* maxCommandsPerWindow
    WarnInterval,   \* abuseWarnInterval
    MaxBurst        \* bound: commands in one window

ASSUME TrackerAssumption ==
    /\ Window \in Nat \ {0} /\ MaxPerWindow \in Nat
    /\ WarnInterval \in Nat \ {0} /\ MaxBurst \in Nat

VARIABLES
    times,      \* floodTracker.times: ages, oldest first
    lastWarn,   \* age of floodTracker.lastWarn; its zero value is long ago
    seen,       \* how many commands came at each age within a window
    quiet       \* age of the last warning of this connection

trackerVars == <<times, lastWarn, seen, quiet>>

TrackerInit ==
    /\ times = <<>> /\ lastWarn = WarnInterval
    /\ seen = [a \in 0 .. Window - 1 |-> 0] /\ quiet = WarnInterval

\* Mutant: a command exactly one window ago still counts.
RecentMutant == 0 .. Window

Recent == 0 .. Window - 1

\* The list that record has made when it counts.
Counted == Append(Selected(times, Recent), 0)

Warns == Len(Counted) > MaxPerWindow /\ lastWarn >= WarnInterval

SeenInWindow == SumFunction(seen)

\* record, for each command that handleClient reads.
Record ==
    /\ SeenInWindow < MaxBurst
    /\ times' = Counted
    /\ lastWarn' = IF Warns THEN 0 ELSE lastWarn
    /\ seen' = [seen EXCEPT ![0] = @ + 1]
    /\ quiet' = IF Warns THEN 0 ELSE quiet

\* A new connection has a tracker of its own.
NewTracker ==
    /\ times' = <<>> /\ lastWarn' = WarnInterval
    /\ seen' = [a \in 0 .. Window - 1 |-> 0] /\ quiet' = WarnInterval

Older(age, most) == IF age < most THEN age + 1 ELSE age

\* Time passes.
Elapse ==
    /\ times' = [i \in DOMAIN times |-> Older(times[i], Window)]
    /\ lastWarn' = Older(lastWarn, WarnInterval)
    /\ seen' = [a \in DOMAIN seen |-> IF a = 0 THEN 0 ELSE seen[a - 1]]
    /\ quiet' = Older(quiet, WarnInterval)

-------------------------------------------------------------------------------
(* Properties.                                                             *)

\* record warns exactly when it should: when more commands have come within one
\* window than may, and no warning was given for an interval.  The list it
\* keeps has forgotten none of them, and holds no older one.
WarnsWhenDue ==
    [][Record => (Warns <=> SeenInWindow' > MaxPerWindow /\ quiet >= WarnInterval)]_trackerVars
===============================================================================
