--------------------------- MODULE RequestService --------------------------
(***************************************************************************)
(* What a Modbus slave promises its master: a request is carried out only  *)
(* after the whole of it has arrived undamaged, at most once, and never    *)
(* after a later one.  It may also not be carried out at all.              *)
(***************************************************************************)
EXTENDS Naturals

CONSTANT Frame  \* the master's frames, numbered from 1 in the order it sends them

VARIABLES
    delivered,  \* the frames that have arrived, whole and undamaged
    served      \* the last frame carried out, 0 for none

Init == delivered = {} /\ served = 0

Deliver(k) ==
    /\ \A earlier \in delivered : earlier < k
    /\ delivered' = delivered \cup {k}
    /\ UNCHANGED served

Serve(k) ==
    /\ k \in delivered
    /\ k > served
    /\ served' = k
    /\ UNCHANGED delivered

Next == \E k \in Frame : Deliver(k) \/ Serve(k)

Spec == Init /\ [][Next]_<<delivered, served>>
============================================================================
