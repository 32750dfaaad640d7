----------------------------- MODULE MCStreams -----------------------------
(* The data plane of one TCP test, for TLC. *)
EXTENDS Streams, TLC

Perms == Permutations(Conns)

Start(dir, single, budget) ==
    [direction |-> dir, single_port |-> single, budget |-> budget]

\* each direction with a byte budget on the single port, and a timed legacy upload
MCTests == {Start("upload", TRUE, TRUE), Start("download", TRUE, TRUE),
            Start("bidir", TRUE, TRUE), Start("upload", FALSE, FALSE)}

=============================================================================
