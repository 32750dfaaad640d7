----------------------------- MODULE MCSession -----------------------------
EXTENDS Session

\* A timed TCP upload, an endless UDP download paced by the local clock, a QUIC byte budget.
MCConfs == {
    [quic |-> FALSE, timed |-> TRUE, budget |-> FALSE, paced |-> FALSE, pausable |-> TRUE],
    [quic |-> FALSE, timed |-> FALSE, budget |-> FALSE, paced |-> TRUE, pausable |-> FALSE],
    [quic |-> TRUE, timed |-> TRUE, budget |-> TRUE, paced |-> FALSE, pausable |-> FALSE]}
MCModes == {"tui", "plain"}
=============================================================================
