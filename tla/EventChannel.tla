----------------------------- MODULE EventChannel -----------------------------
(***************************************************************************)
(* What a client of the server can rely on: it reads the lines that were   *)
(* accepted for it, in their order and without a gap; a line is refused    *)
(* only on a connection that is about to end.                              *)
(***************************************************************************)
EXTENDS Naturals, Sequences

CONSTANT Lines

VARIABLES
    accepted,   \* the lines put into the channel
    delivered,  \* the lines the client was sent
    refused,    \* a line was not accepted
    ending      \* the connection ends, whatever happens

vars == <<accepted, delivered, refused, ending>>

Init == accepted = <<>> /\ delivered = <<>> /\ refused = FALSE /\ ending = FALSE

Accept(l) ==
    /\ accepted' = Append(accepted, l)
    /\ UNCHANGED <<delivered, refused, ending>>

Deliver ==
    /\ Len(delivered) < Len(accepted)
    /\ delivered' = Append(delivered, accepted[Len(delivered) + 1])
    /\ UNCHANGED <<accepted, refused, ending>>

Refuse ==
    /\ refused' = TRUE /\ ending' = TRUE
    /\ UNCHANGED <<accepted, delivered>>

End ==
    /\ ending' = TRUE
    /\ UNCHANGED <<accepted, delivered, refused>>

Next == (\E l \in Lines : Accept(l)) \/ Deliver \/ Refuse \/ End

Spec == Init /\ [][Next]_vars
===============================================================================
