----------------------------- MODULE Handshake ------------------------------
(***************************************************************************)
(* The handshake on the control connection, over TCP or QUIC: the Hellos     *)
(* with the protocol version, the capabilities and the nonces, the            *)
(* authentication with a pre-shared key, the protected transport it installs, *)
(* the TestStart with what the client asks for and the TestAck with how its   *)
(* data will travel (client.rs run_test and run_quic_session, serve.rs        *)
(* handle_client_with_first_message, handle_test_request and                  *)
(* handle_quic_client, control_crypto.rs, auth.rs).  The end of an MTU probe  *)
(* on the control connection is here too.                                    *)
(*                                                                         *)
(* Cryptography is symbolic: a protected frame is a record with the key that  *)
(* sealed it and its sequence number, and only opens with both; a response    *)
(* or proof is the record of what it authenticates.  A Hello may be altered   *)
(* once on its way (it loses a capability), and either peer may be cut off.   *)
(* A peer that does not advertise a capability predates it and ignores its    *)
(* field of the TestStart.                                                   *)
(***************************************************************************)
EXTENDS Integers, Sequences, FiniteSets

CONSTANTS
    Configs      \* the pairs of a client and a server that meet: records of
                 \* the protocol, the keys and capabilities of both, what the
                 \* client requests, versions, stream count, duration, server limit
                 \* and whether a Hello may be altered on its way

\* What a TestStart asks for that a server must know to honour.
Features == {"payload", "probe", "budget"}
Capabilities == Features \cup {"protected", "binding", "sp_tcp", "sp_udp"}

Unlimited == 0                   \* a duration of 0 is endless
NoLimit == -1                    \* the server has no limit of its own

ASSUME ConfigsAssumption ==
    \A c \in Configs :
        /\ c.proto \in {"tcp", "udp", "quic"}
        /\ c.ccaps \subseteq Capabilities /\ c.scaps \subseteq Capabilities
        /\ c.request \subseteq Features
        /\ c.streams \in Nat /\ c.duration \in Nat /\ c.max \in Nat \cup {NoLimit}
        /\ c.cver \in Seq(Int) /\ c.sver \in Seq(Int) /\ c.cc \in {"none", "both", "client"}
        /\ c.alters \in BOOLEAN

VARIABLES
    conf,        \* the pair that meets
    cl,          \* the client: stage, transport, the hellos it saw, data mode
    sv,          \* the server: stage, transport, the hellos it saw, its test
    c2s, s2c,    \* the control connection, in order
    altered      \* whether a Hello was altered on its way

shakeVars == <<conf, cl, sv, c2s, s2c, altered>>

NoPsk == "none"
NoKey == <<>>                    \* the key of the plaintext transport
MAX_STREAMS == 128
MAX_TEST_DURATION == 3600

\* A version is the sequence of its parts, a part that is no number NoNumber.
NoNumber == -1

parse_protocol_major(version) ==
    IF version = <<>> \/ \E i \in DOMAIN version : version[i] = NoNumber THEN NoNumber
    ELSE version[1]

\* The majors must be equal, whatever the minors.
versions_compatible(a, b) ==
    parse_protocol_major(a) # NoNumber /\ parse_protocol_major(a) = parse_protocol_major(b)

(* ---------------------- The protected transport ------------------------ *)

\* ProtectedControl: the key both directions derive from (each direction has
\* its own, which a frame's channel stands for) and the frame counters.
plaintext == [key |-> NoKey, sent |-> 0, seen |-> 0]

\* ControlCodec::derive_pair: the keys depend on the PSK and both nonces, over
\* QUIC on the TLS session too, and on nothing else.
derive_pair(psk, chello, shello) ==
    [key |-> <<psk, chello.nonce, shello.nonce>>, sent |-> 0, seen |-> 0]

\* write_message: sealed under the key and the next sequence number.
Seal(tr, body) ==
    IF tr.key = NoKey THEN [key |-> NoKey, seq |-> 0, body |-> body]
    ELSE [key |-> tr.key, seq |-> tr.sent, body |-> body]

AfterWrite(tr) == IF tr.key = NoKey THEN tr ELSE [tr EXCEPT !.sent = @ + 1]

\* open: the frame must be under our key and the next in sequence.
Opens(tr, frame) ==
    frame.key = tr.key /\ (tr.key # NoKey => frame.seq = tr.seen)

AfterRead(tr) == IF tr.key = NoKey THEN tr ELSE [tr EXCEPT !.seen = @ + 1]

Message(t) == [t |-> t]
PlainFrame(body) == Seal(plaintext, body)

(* -------------------------------- Init --------------------------------- *)

NoHello == [t |-> "none"]

ShakeInit ==
    /\ conf \in Configs
    /\ cl = [st |-> "new", tr |-> plaintext, mine |-> NoHello, theirs |-> NoHello,
             mode |-> "none"]
    /\ sv = [st |-> "hello", tr |-> plaintext, mine |-> NoHello, theirs |-> NoHello,
             mode |-> "none", honours |-> {}, duration |-> 0]
    /\ c2s = <<>>
    /\ s2c = <<>>
    /\ altered = FALSE

\* A side returns with an error and drops its end of the connection.
ClientFails == /\ cl' = [cl EXCEPT !.st = "failed"]
               /\ UNCHANGED <<c2s, sv>>
ServerFails == sv' = [sv EXCEPT !.st = "failed"]

\* The server says why before it fails.  Over QUIC the drop of the connection
\* may discard the message, except where the code waits for its delivery.
ServerRefuses(tr, waits) ==
    /\ ServerFails
    /\ \/ s2c' = Append(s2c, Seal(tr, Message("error")))
       \/ conf.proto = "quic" /\ ~waits /\ UNCHANGED s2c

(* ------------------------------ The client ----------------------------- *)

\* The client's Hello: a nonce exactly when it has a PSK.
ClientHello ==
    /\ cl.st = "new"
    /\ LET hello == [t |-> "hello", version |-> conf.cver, caps |-> conf.ccaps,
                     nonce |-> IF conf.cpsk = NoPsk THEN NoPsk ELSE "cn"]
       IN  /\ cl' = [cl EXCEPT !.st = "hello", !.mine = hello]
           /\ c2s' = Append(c2s, PlainFrame(hello))
    /\ UNCHANGED <<conf, sv, s2c, altered>>

\* Mutant: a byte budget is asked of a server that does not know it.
RequestKnownNoBudget(caps) ==
    (conf.request \ {"budget"}) \subseteq caps /\ (conf.proto = "tcp" => conf.cc # "none")

\* What is requested must be known to the server, since an older one would
\* ignore it and answer another question; a congestion algorithm is checked
\* on the client first.
RequestKnown(caps) ==
    conf.request \subseteq caps /\ (conf.proto = "tcp" => conf.cc # "none")

\* The TestStart, through the transport.
SendTestStart(tr, theirs) ==
    IF ~RequestKnown(theirs.caps) THEN ClientFails
    ELSE /\ c2s' = Append(c2s, Seal(tr, [t |-> "start", request |-> conf.request]))
         /\ cl' = [cl EXCEPT !.st = "start", !.tr = AfterWrite(tr), !.theirs = theirs]
         /\ UNCHANGED sv

\* The server's Hello over TCP: no auth where we have a key, or no key where
\* auth is required, ends the run; with both, the response goes out.
OnServerHello(capsNeeded) ==
    /\ cl.st = "hello" /\ s2c # <<>>
    /\ LET m == Head(s2c).body
       IN  \/ m.t = "error" /\ ClientFails
           \/ /\ m.t = "hello" /\ ~versions_compatible(m.version, conf.cver)
              /\ ClientFails
           \/ /\ m.t = "hello" /\ versions_compatible(m.version, conf.cver) /\ m.nonce # NoPsk
              /\ IF conf.cpsk = NoPsk \/ ~(capsNeeded \subseteq m.caps) THEN ClientFails
                 ELSE /\ c2s' = Append(c2s, PlainFrame([t |-> "auth",
                                   response |-> <<conf.cpsk, m.nonce>>]))
                      /\ cl' = [cl EXCEPT !.st = "auth", !.theirs = m]
                      /\ UNCHANGED sv
           \/ /\ m.t = "hello" /\ versions_compatible(m.version, conf.cver) /\ m.nonce = NoPsk
              /\ IF conf.cpsk # NoPsk THEN ClientFails ELSE SendTestStart(plaintext, m)
    /\ s2c' = Tail(s2c)
    /\ UNCHANGED <<conf, altered>>

ClientOnHello == conf.proto # "quic" /\ OnServerHello({"protected"})

\* Over QUIC a PSK session also has to be bound to the TLS session.
QuicClientOnHello == conf.proto = "quic" /\ OnServerHello({"protected", "binding"})

\* What the server proves: that it holds the key and saw these very hellos.
Proof(psk, chello, shello) == <<psk, chello, shello>>

\* Mutant: the client takes AuthSuccess without checking the proof.
ProofVerifiesUnchecked(m) == TRUE

ProofVerifies(m) == m.proof = Proof(conf.cpsk, cl.mine, cl.theirs)

\* The answer to our response; the transport is installed before the TestStart.
OnAuthResult ==
    /\ cl.st = "auth" /\ s2c # <<>>
    /\ LET m == Head(s2c).body
       IN  IF m.t = "success" /\ ProofVerifies(m)
           THEN SendTestStart(derive_pair(conf.cpsk, cl.mine, cl.theirs), cl.theirs)
           ELSE ClientFails
    /\ s2c' = Tail(s2c)
    /\ UNCHANGED <<conf, altered>>

ClientOnAuthResult == conf.proto # "quic" /\ OnAuthResult
QuicClientOnAuthResult == conf.proto = "quic" /\ OnAuthResult

\* How the TestAck says the data travels, if that was negotiated.
AckMode(m) ==
    IF conf.proto = "quic" THEN "quic"
    ELSE IF m.ports THEN "ports"
    ELSE IF \/ conf.proto = "tcp" /\ "sp_tcp" \in cl.theirs.caps
            \/ conf.proto = "udp" /\ m.token /\ "sp_udp" \in cl.theirs.caps
    THEN "single"
    ELSE "none"

\* The TestAck, or why there is none; then the data streams are set up.
OnAck ==
    /\ cl.st = "start" /\ s2c # <<>>
    /\ LET f == Head(s2c)
       IN  IF Opens(cl.tr, f) /\ f.body.t = "ack" /\ AckMode(f.body) # "none"
           THEN /\ cl' = [cl EXCEPT !.st = "agreed", !.tr = AfterRead(@),
                                    !.mode = AckMode(f.body)]
                /\ UNCHANGED <<c2s, sv>>
           ELSE ClientFails
    /\ s2c' = Tail(s2c)
    /\ UNCHANGED <<conf, altered>>

ClientOnAck == conf.proto # "quic" /\ OnAck
QuicClientOnAck == conf.proto = "quic" /\ OnAck

\* The connection ends while the client waits.
ClientEof ==
    /\ cl.st \in {"hello", "auth", "start", "result"} /\ s2c = <<>>
    /\ sv.st \in {"failed", "ended"}
    /\ ClientFails
    /\ UNCHANGED <<conf, s2c, altered>>

(* ------------------------------ The server ----------------------------- *)

\* The server's Hello, with a challenge if it has a PSK.
ServerHello == [t |-> "hello", version |-> conf.sver, caps |-> conf.scaps,
                nonce |-> IF conf.spsk = NoPsk THEN NoPsk ELSE "sn"]

OnClientHello(capsNeeded) ==
    /\ sv.st = "hello" /\ c2s # <<>>
    /\ LET m == Head(c2s).body
       IN  IF \/ ~versions_compatible(m.version, conf.sver)
              \/ (conf.spsk # NoPsk /\ ~(capsNeeded \subseteq m.caps))
           THEN ServerRefuses(plaintext, FALSE)
           ELSE /\ s2c' = Append(s2c, PlainFrame(ServerHello))
                /\ sv' = [sv EXCEPT !.st = IF conf.spsk = NoPsk THEN "start" ELSE "auth",
                                    !.mine = ServerHello, !.theirs = m]
    /\ c2s' = Tail(c2s)
    /\ UNCHANGED <<conf, cl, altered>>

ServerOnHello == conf.proto # "quic" /\ OnClientHello({"protected"})

QuicServerOnHello == conf.proto = "quic" /\ OnClientHello({"protected", "binding"})

verify_response(response) == response = <<conf.spsk, sv.mine.nonce>>

\* The client's response.  A right one installs the protected transport and
\* is answered with the proof; over QUIC a wrong one is answered and the
\* answer's delivery awaited.
OnAuth ==
    /\ sv.st = "auth" /\ c2s # <<>>
    /\ LET m == Head(c2s).body
       IN  IF m.t # "auth" THEN ServerRefuses(plaintext, FALSE)
           ELSE IF ~verify_response(m.response) THEN ServerRefuses(plaintext, TRUE)
           ELSE IF sv.theirs.nonce = NoPsk THEN ServerFails /\ UNCHANGED s2c
           ELSE /\ s2c' = Append(s2c, PlainFrame([t |-> "success",
                             proof |-> Proof(conf.spsk, sv.theirs, sv.mine)]))
                /\ sv' = [sv EXCEPT !.st = "start",
                                    !.tr = derive_pair(conf.spsk, sv.theirs, sv.mine)]
    /\ c2s' = Tail(c2s)
    /\ UNCHANGED <<conf, cl, altered>>

ServerOnAuth == conf.proto # "quic" /\ OnAuth
QuicServerOnAuth == conf.proto = "quic" /\ OnAuth

\* The duration the server runs: an endless one up to its own limit.  A limit
\* of 0 is not excluded, and turns every duration into an endless one.
effective_duration(requested, max) ==
    LET capped == IF requested > MAX_TEST_DURATION THEN MAX_TEST_DURATION ELSE requested
    IN  IF max # NoLimit /\ (requested = Unlimited \/ capped > max) THEN max ELSE capped

\* Why a TestStart is refused: a payload size outside a UDP throughput test,
\* a stream count out of range, a congestion algorithm only the client knows.
Refused(request) ==
    \/ "payload" \in request /\ (conf.proto # "udp" \/ "probe" \in request)
    \/ conf.streams \notin 1..MAX_STREAMS
    \/ conf.proto = "tcp" /\ conf.cc = "client"

\* Both must know how to use one port.
ServerMode ==
    CASE conf.proto = "quic" -> "quic"
      [] conf.proto = "tcp" /\ "sp_tcp" \in sv.theirs.caps \cap conf.scaps -> "single"
      [] conf.proto = "udp" /\ "sp_udp" \in sv.theirs.caps \cap conf.scaps -> "single"
      [] OTHER -> "ports"

\* The TestStart: the test is registered and acknowledged, through the
\* transport.  A frame that does not open ends the session.
OnStart ==
    /\ sv.st = "start" /\ c2s # <<>>
    /\ LET f == Head(c2s)
       IN  IF ~Opens(sv.tr, f) THEN ServerFails /\ UNCHANGED s2c
           ELSE IF f.body.t # "start" \/ Refused(f.body.request)
           THEN ServerRefuses(sv.tr, FALSE)
           ELSE /\ s2c' = Append(s2c, Seal(sv.tr, [t |-> "ack", ports |-> ServerMode = "ports",
                             token |-> conf.proto = "udp" /\ ServerMode = "single"]))
                /\ sv' = [sv EXCEPT !.st = "running", !.tr = AfterWrite(AfterRead(@)),
                                    !.mode = ServerMode,
                                    !.honours = f.body.request \cap conf.scaps,
                                    !.duration = effective_duration(conf.duration, conf.max)]
    /\ c2s' = Tail(c2s)
    /\ UNCHANGED <<conf, cl, altered>>

ServerOnStart == conf.proto # "quic" /\ OnStart
QuicServerOnStart == conf.proto = "quic" /\ OnStart

\* A read of the handshake runs out of time, or sees that the client is gone.
ServerGivesUp ==
    /\ sv.st \in {"hello", "auth", "start"} /\ c2s = <<>>
    /\ cl.st # "new"
    /\ ServerFails
    /\ UNCHANGED <<conf, cl, c2s, s2c, altered>>

\* The client of a running test is gone: the test is cancelled.
ServerLosesClient ==
    /\ sv.st = "running" /\ c2s = <<>> /\ cl.st = "failed"
    /\ sv' = [sv EXCEPT !.st = "ended"]
    /\ UNCHANGED <<conf, cl, c2s, s2c, altered>>

(* ----------------- The end of a probe on the connection ---------------- *)

\* run_mtu_probe_exchange writes its Cancel to the socket itself, not
\* through the transport ...
ClientProbeCancel ==
    /\ cl.st = "agreed" /\ "probe" \in conf.request
    /\ c2s' = Append(c2s, PlainFrame(Message("cancel")))
    /\ cl' = [cl EXCEPT !.st = "result"]
    /\ UNCHANGED <<conf, sv, s2c, altered>>

\* ... where the server reads through its own; it answers with its Result.
ServerOnCancel ==
    /\ sv.st = "running" /\ c2s # <<>>
    /\ LET f == Head(c2s)
       IN  /\ sv' = [sv EXCEPT !.st = "ended", !.tr = AfterWrite(@)]
           /\ s2c' = IF Opens(sv.tr, f) THEN Append(s2c, Seal(sv.tr, Message("result")))
                     ELSE s2c
    /\ c2s' = Tail(c2s)
    /\ UNCHANGED <<conf, cl, altered>>

\* The test's time is up before the Cancel: its Result is on the way.
ServerTimeUp ==
    /\ sv.st = "running" /\ "probe" \in conf.request
    /\ sv' = [sv EXCEPT !.st = "ended", !.tr = AfterWrite(@)]
    /\ s2c' = Append(s2c, Seal(sv.tr, Message("result")))
    /\ UNCHANGED <<conf, cl, c2s, altered>>

\* The client reads plain lines until the Result, or gives up.
ClientOnResult ==
    /\ cl.st = "result" /\ s2c # <<>>
    /\ s2c' = Tail(s2c)
    /\ IF Opens(plaintext, Head(s2c))
       THEN cl' = [cl EXCEPT !.st = "probed"] /\ UNCHANGED <<c2s, sv>>
       ELSE ClientFails
    /\ UNCHANGED <<conf, altered>>

(* ------------------------------ The network ---------------------------- *)

\* A Hello loses a capability on its way.
AlterHello ==
    /\ conf.alters /\ ~altered /\ altered' = TRUE
    /\ \E cap \in Capabilities :
          \/ /\ c2s # <<>> /\ Head(c2s).body.t = "hello"
             /\ cap \in Head(c2s).body.caps
             /\ c2s' = <<[Head(c2s) EXCEPT !.body.caps = @ \ {cap}]>> \o Tail(c2s)
             /\ UNCHANGED s2c
          \/ /\ s2c # <<>> /\ Head(s2c).body.t = "hello"
             /\ cap \in Head(s2c).body.caps
             /\ s2c' = <<[Head(s2c) EXCEPT !.body.caps = @ \ {cap}]>> \o Tail(s2c)
             /\ UNCHANGED c2s
    /\ UNCHANGED <<conf, cl, sv>>

ClientSteps == \/ ClientHello \/ ClientOnHello \/ ClientOnAuthResult \/ ClientOnAck
               \/ QuicClientOnHello \/ QuicClientOnAuthResult \/ QuicClientOnAck
               \/ ClientEof \/ ClientOnResult

ServerSteps == \/ ServerOnHello \/ ServerOnAuth \/ ServerOnStart
               \/ QuicServerOnHello \/ QuicServerOnAuth \/ QuicServerOnStart
               \/ ServerGivesUp \/ ServerLosesClient \/ ServerOnCancel

ShakeSteps == ClientSteps \/ ServerSteps \/ AlterHello

\* Both tasks run, and the server's reads time out (HANDSHAKE_TIMEOUT).  The
\* client's reads of the handshake have no timeout: it relies on the server.
ShakeFairness == WF_shakeVars(ClientSteps) /\ WF_shakeVars(ServerSteps)

(* ----------------------------- Properties ------------------------------ *)

(***************************************************************************)
(* Every variable of the handshake has its type.                            *)
(***************************************************************************)
ShakeTypeOK ==
    /\ cl.st \in {"new", "hello", "auth", "start", "agreed", "result", "probed", "failed"}
    /\ sv.st \in {"hello", "auth", "start", "running", "ended", "failed"}
    /\ cl.mode \in {"none", "single", "ports", "quic"}
    /\ sv.mode \in {"none", "single", "ports", "quic"}
    /\ sv.honours \subseteq Features /\ sv.duration \in Nat
    /\ cl.tr.sent \in Nat /\ cl.tr.seen \in Nat /\ sv.tr.sent \in Nat /\ sv.tr.seen \in Nat

ClientAgreed == cl.st \in {"agreed", "result", "probed"}
ServerTested == sv.st \in {"running", "ended"}

(***************************************************************************)
(* A test only starts between peers whose keys agree: the server never runs  *)
(* one, nor does the client, when one has a PSK and the other another or      *)
(* none.  With a PSK the client goes on only with a server that saw the very  *)
(* hellos it saw, so that a capability stripped on the way is noticed         *)
(* (control_crypto.rs compute_server_proof), and both hold the same keys.     *)
(***************************************************************************)
OnlyWithTheSameKey ==
    /\ ServerTested \/ ClientAgreed => conf.cpsk = conf.spsk
    /\ ClientAgreed => cl.tr.key = sv.tr.key
    /\ ClientAgreed /\ conf.cpsk # NoPsk => cl.mine = sv.theirs /\ cl.theirs = sv.mine

(***************************************************************************)
(* What the client asked for is what the server does: every feature that      *)
(* changes the question is honoured or refused up front, both agree whether   *)
(* the data comes to one port or to several, even after a Hello that was      *)
(* altered without a PSK, and the server's test is within its limit, also     *)
(* when the client asked for no limit, and within what the client asked for   *)
(* and the hour a client can ask for (a limit of 0 s aside, which makes every *)
(* test endless).                                                            *)
(***************************************************************************)
NothingDowngraded ==
    /\ ClientAgreed => conf.request \subseteq sv.honours /\ cl.mode = sv.mode
    /\ ServerTested =>
          /\ conf.duration # Unlimited => sv.duration <= MAX_TEST_DURATION
          /\ conf.max > 0 => sv.duration \in 1..conf.max
          /\ conf.duration # Unlimited /\ conf.max # 0 => sv.duration \in 1..conf.duration

(***************************************************************************)
(* The handshake ends for both: nobody waits forever for a peer that refused, *)
(* hung up or failed.  The client has no timeout of its own, so this rests on  *)
(* the server's, and on the server dropping the connection when it refuses.    *)
(***************************************************************************)
HandshakeEnds ==
    cl.st = "hello" ~> \/ ClientAgreed /\ ServerTested
                       \/ cl.st = "failed" /\ sv.st \in {"failed", "ended"}

(***************************************************************************)
(* After the authentication every control message is protected:               *)
(* control_crypto.rs says "After the handshake, all post-auth control          *)
(* messages flow through this" of the transport.                              *)
(***************************************************************************)
ControlIsProtected ==
    cl.st \in {"agreed", "result"} /\ cl.tr.key # NoKey =>
        \A k \in DOMAIN c2s : c2s[k].key # NoKey
=============================================================================
