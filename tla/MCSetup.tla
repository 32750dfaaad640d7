------------------------------ MODULE MCSetup -------------------------------
(* Bounded instances of Setup. *)
EXTENDS Setup

MCStreams == {0, 1}

\* The largest payload of the interface, of the way there and of the way back.
MCPath(local, fwd, rev, v6, df, short, budget) ==
    [local |-> local, fwd |-> fwd, rev |-> rev, ipv6 |-> v6, df |-> df, short |-> short,
     budget |-> budget]

\* An interface below the path; a tunnel on the way, narrower on the way back,
\* in a test that may end before the probe; a path below the minimum; a
\* socket without DF.
MCPaths == { MCPath(1466, 9300, 9300, FALSE, TRUE, FALSE, 2),
             MCPath(9300, 1446, 1445, TRUE, TRUE, TRUE, 3),
             MCPath(9300, 500, 500, FALSE, TRUE, FALSE, 3),
             MCPath(1472, 1472, 9300, TRUE, FALSE, FALSE, 1) }

MCConfig(proto, cpsk, spsk, scaps, request) ==
    [proto |-> proto, cpsk |-> cpsk, spsk |-> spsk, ccaps |-> Capabilities, scaps |-> scaps,
     request |-> request, streams |-> 2, duration |-> 10, max |-> NoLimit,
     cver |-> <<1, 1>>, sver |-> <<1, 1>>, cc |-> "both", alters |-> FALSE]

MCKeys == {<<NoPsk, NoPsk>>, <<"a", "a">>, <<"a", "b">>, <<NoPsk, "a">>, <<"a", NoPsk>>}

\* Servers of this version and older ones.
MCServers == {Capabilities \ old : old \in {{}, {"budget"}, {"protected"}, {"binding"}, {"sp_tcp"}}}

\* Sessions that end with the handshake: every pair of keys and of versions,
\* and requests that are out of bounds for one side.
MCHandshakes ==
    {[MCConfig(proto, k[1], k[2], scaps, request) EXCEPT !.alters = TRUE] :
        proto \in {"tcp", "quic"}, k \in MCKeys, scaps \in MCServers,
        request \in {{}, {"budget"}}}
    \cup {MCConfig("udp", NoPsk, NoPsk, Capabilities \ old, {f}) :
        old \in {{"payload", "sp_udp"}, {"probe", "sp_udp"}}, f \in {"payload", "probe"}}
    \cup {[MCConfig("tcp", NoPsk, NoPsk, Capabilities, {}) EXCEPT
              !.duration = d, !.max = m, !.streams = n, !.cc = cc, !.cver = v] :
        d \in {Unlimited, 10, 7200}, m \in {NoLimit, 0, 60, 7200}, n \in {0, 2, 129},
        cc \in {"none", "both", "client"},
        v \in {<<1, 1>>, <<1, 0>>, <<2, 0>>, <<1, NoNumber>>}}

\* A UDP test on one port, and a probe on a data port.
MCConfigs ==
    MCHandshakes
    \cup {MCConfig("udp", "a", "a", Capabilities, {}),
          MCConfig("udp", NoPsk, NoPsk, Capabilities \ {"sp_udp"}, {"probe"})}

\* A probe between peers that have a key.
MCProbeConfigs == {MCConfig("udp", "a", "a", Capabilities \ {"sp_udp"}, {"probe"})}
MCProbePaths == {MCPath(9300, 500, 500, FALSE, TRUE, FALSE, 3)}
=============================================================================
