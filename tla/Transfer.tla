------------------------------ MODULE Transfer ------------------------------
(***************************************************************************)
(* What `-n` promises, whatever the number of streams: a transfer of goal  *)
(* bytes that either completes with exactly goal bytes delivered to the    *)
(* network or is broken off.                                               *)
(***************************************************************************)
EXTENDS Naturals

VARIABLES goal, delivered, status

Init == goal \in Nat /\ delivered = 0 /\ status = "running"

\* One or more bytes leave, never more than the goal.
Send ==
    /\ status = "running"
    /\ delivered' \in Nat
    /\ delivered < delivered' /\ delivered' <= goal
    /\ UNCHANGED <<goal, status>>

Complete ==
    /\ status = "running" /\ delivered = goal
    /\ status' = "complete"
    /\ UNCHANGED <<goal, delivered>>

\* Cancel, deadline or a stream error.
Abort ==
    /\ status = "running"
    /\ status' = "aborted"
    /\ UNCHANGED <<goal, delivered>>

Next == Send \/ Complete \/ Abort

Spec == Init /\ [][Next]_<<goal, delivered, status>>
=============================================================================
