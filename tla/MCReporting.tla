---------------------------- MODULE MCReporting ----------------------------
(* Reporting on small instances; tx and rx are one send and one receive    *)
(* task.                                                                   *)
EXTENDS Reporting

CONSTANTS tx, rx

Test(protocol, direction, budget, duration) ==
    [protocol |-> protocol, direction |-> direction, budget |-> budget,
     duration |-> duration]

\* A timed test whose sender may correct its count, a -n test with a
\* duration, and a -n test that needs both sides.
SafetyTests ==
    {Test("tcp", "download", FALSE, 4), Test("tcp", "upload", TRUE, 3),
     Test("quic", "bidir", TRUE, 0)}

LiveTests ==
    {Test("udp", "upload", FALSE, 2), Test("quic", "bidir", TRUE, 0)}

\* A -n upload over UDP, which has no EOF.
UdpBudgetTests == {Test("udp", "upload", TRUE, 0)}
=============================================================================
