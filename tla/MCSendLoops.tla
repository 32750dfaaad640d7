---------------------------- MODULE MCSendLoops ----------------------------
(* SendLoops on a small instance: two streams racing for a budget that is  *)
(* no multiple of the chunk, over each transport.                          *)
EXTENDS SendLoops, TLC

CONSTANTS s1, s2

MCTests ==
    {[proto |-> "tcp", timed |-> FALSE, paced |-> FALSE],
     [proto |-> "quic", timed |-> TRUE, paced |-> TRUE],
     [proto |-> "udp", timed |-> TRUE, paced |-> TRUE]}
=============================================================================
