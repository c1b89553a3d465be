-------------------------------- MODULE Timing --------------------------------
(***************************************************************************)
(* What handleClient does with the clock: a command is counted by the      *)
(* flood tracker, and then looks at the player, whose hit points may be    *)
(* due; a new connection starts a new count and a new interval.            *)
(***************************************************************************)
EXTENDS Vitals, FloodTracker

timingVars == <<vars, trackerVars>>

TimingInit == Init /\ TrackerInit

\* Any command; LOOK, WHO, INVENTORY and others leave the player alone.
Serve ==
    /\ Record
    /\ Command \/ UNCHANGED vars

Reopen ==
    /\ NewTracker
    /\ Reconnect

TimePasses ==
    /\ Pass
    /\ Elapse

TimingNext == Serve \/ Reopen \/ TimePasses

TimingSpec == TimingInit /\ [][TimingNext]_timingVars
===============================================================================
