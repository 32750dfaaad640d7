------------------------------- MODULE Setup --------------------------------
(***************************************************************************)
(* A test from the first Hello to its data: the handshake on the control      *)
(* connection, then, as it was agreed there, the hello handshakes of a UDP     *)
(* test on one port or the packets of an MTU probe on a data port, and the     *)
(* probe's end on the control connection again.                               *)
(***************************************************************************)
EXTENDS Handshake, UdpHello, MtuProbe

vars == <<shakeVars, helloVars, probeVars>>

Init == ShakeInit /\ HelloInit /\ ProbeInit

\* A step of the control connection alone.
Shake == ShakeSteps /\ UNCHANGED <<helloVars, probeVars>>

\* A UDP throughput test on one port begins its hello handshakes.
StartUdpStreams ==
    /\ cl.st = "agreed" /\ conf.proto = "udp" /\ cl.mode = "single"
    /\ "probe" \notin conf.request
    /\ StartHandshake
    /\ UNCHANGED <<shakeVars, probeVars>>

Hellos == HelloSteps /\ UNCHANGED <<shakeVars, probeVars>>

\* The client returns its error, and its control connection is dropped.
UdpSetupFails ==
    /\ cl.st = "agreed" /\ cphase \in {"failed", "explained"}
    /\ cl' = [cl EXCEPT !.st = "failed"]
    /\ UNCHANGED <<conf, sv, c2s, s2c, altered, helloVars, probeVars>>

\* An MTU probe begins on the data port it was given.
StartMtuProbe ==
    /\ cl.st = "agreed" /\ "probe" \in conf.request /\ cl.mode = "ports"
    /\ StartProbe
    /\ UNCHANGED <<shakeVars, helloVars>>

Probing == ProbeSteps /\ UNCHANGED <<shakeVars, helloVars>>

\* The server's test, and with it the responder, ends during the probe.
TestTimeUp == ServerTimeUp /\ ResponderStops /\ UNCHANGED helloVars

\* The probe has its report: it cancels the test.
ProbeDone == probe.phase = "done" /\ ClientProbeCancel /\ UNCHANGED <<helloVars, probeVars>>

Next ==
    \/ Shake \/ StartUdpStreams \/ Hellos \/ UdpSetupFails
    \/ StartMtuProbe \/ Probing \/ TestTimeUp \/ ProbeDone

Spec == Init /\ [][Next]_vars

Fairness ==
    /\ ShakeFairness /\ HelloFairness /\ ProbeFairness
    /\ WF_vars(StartUdpStreams \/ UdpSetupFails \/ StartMtuProbe \/ ProbeDone)

FairSpec == Spec /\ Fairness

(* ----------------------------- Properties ------------------------------ *)

(***************************************************************************)
(* Every variable of the setup has its type.                                *)
(***************************************************************************)
TypeOK == ShakeTypeOK /\ HelloTypeOK /\ ProbeTypeOK

(***************************************************************************)
(* Every setup that starts settles.  The handshake ends for both peers        *)
(* (HandshakeEnds).  A hello handshake ends with data on all   *)
(* streams, or with the failed test cancelled on the server, its Result       *)
(* fetched or given up, the route removed (UdpRouteGuard) and every socket    *)
(* of the test closed, also the one the dispatcher was just making.  A probe   *)
(* delivers: however lossy the path, and even when the server's test ends      *)
(* first, run_probe comes to its report and the server's Result arrives        *)
(* (client.rs run_mtu_probe_exchange).                                        *)
(***************************************************************************)
SetupSettles ==
    /\ HandshakeEnds
    /\ cphase = "handshake" ~>
          \/ cphase = "data"
          \/ /\ cphase \in {"failed", "explained"}
             /\ stest = "ended" /\ ~route.present /\ \A i \in Streams : ~SocketOpen(i)
    /\ (cl.st = "agreed" /\ "probe" \in conf.request) ~> cl.st = "probed"
=============================================================================
