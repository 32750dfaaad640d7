---------------------------- MODULE SetupProofs -----------------------------
(***************************************************************************)
(* The setup of a test for any pair of peers, any number of streams, retries  *)
(* and faults, and any path: keys and capabilities cannot be confused in the  *)
(* handshake, a stream has one socket, and the MTU probe is right.            *)
(***************************************************************************)
EXTENDS Setup, SequenceTheorems, WellFoundedInduction, TLAPS

(* ----------------------------- The handshake --------------------------- *)

IsTransport(tr) ==
    tr = [key |-> tr.key, sent |-> tr.sent, seen |-> tr.seen] /\ tr.sent \in Nat /\ tr.seen \in Nat

IsQueue(q) == \E S : q \in Seq(S)

IsFrame(f) == f = [key |-> f.key, seq |-> f.seq, body |-> f.body]

\* A Hello whose capabilities are at most `caps`.
IsHello(h, caps) ==
    /\ h = [t |-> "hello", version |-> h.version, caps |-> h.caps, nonce |-> h.nonce]
    /\ h.caps \subseteq caps

\* The key of a transport that was installed for `psk` and these hellos.
KeyFor(key, psk, chello, shello) ==
    \/ psk = NoPsk /\ key = NoKey
    \/ psk # NoPsk /\ key = <<psk, chello.nonce, shello.nonce>>

\* What may be on its way to the server: a TestStart asks for the client's
\* request, and its key is one that only the client's PSK gives.
ClientFrame(c, f) ==
    /\ IsFrame(f)
    /\ f.body.t \in {"hello", "auth", "start", "cancel"}
    /\ f.body.t = "hello" => IsHello(f.body, c.ccaps)
    /\ f.body.t = "start" => /\ f.body.request = c.request
                             /\ IF c.cpsk = NoPsk THEN f.key = NoKey
                                ELSE f.key # NoKey /\ f.key[1] = c.cpsk

\* What may be on its way to the client: a Hello has at most the server's
\* capabilities, a proof is the server's, a TestAck is of its test.
ServerFrame(c, s, f) ==
    /\ IsFrame(f)
    /\ f.body.t \in {"hello", "error", "success", "ack", "result"}
    /\ f.body.t = "hello" => IsHello(f.body, c.scaps)
    /\ f.body.t = "success" => /\ f.body.proof = Proof(c.spsk, s.theirs, s.mine)
                               /\ s.st \notin {"hello", "auth"}
    /\ f.body.t = "ack" => /\ s.st \in {"running", "ended"} /\ f.key = s.tr.key
                           /\ f.body.ports = (s.mode = "ports")
                           /\ f.body.token = (c.proto = "udp" /\ s.mode = "single")

ClientShape ==
    /\ cl = [st |-> cl.st, tr |-> cl.tr, mine |-> cl.mine, theirs |-> cl.theirs,
             mode |-> cl.mode]
    /\ cl.st \in {"new", "hello", "auth", "start", "agreed", "result", "probed", "failed"}
    /\ cl.mode \in {"none", "single", "ports", "quic"}
    /\ IsTransport(cl.tr)

ServerShape ==
    /\ sv = [st |-> sv.st, tr |-> sv.tr, mine |-> sv.mine, theirs |-> sv.theirs,
             mode |-> sv.mode, honours |-> sv.honours, duration |-> sv.duration]
    /\ sv.st \in {"hello", "auth", "start", "running", "ended", "failed"}
    /\ sv.mode \in {"none", "single", "ports", "quic"}
    /\ sv.honours \subseteq Features /\ sv.duration \in Nat
    /\ IsTransport(sv.tr)

ClientFrames == IsQueue(c2s) /\ \A k \in 1..Len(c2s) : ClientFrame(conf, c2s[k])
ServerFrames == IsQueue(s2c) /\ \A k \in 1..Len(s2c) : ServerFrame(conf, sv, s2c[k])

ClientStarted == cl.st \in {"start", "agreed", "result", "probed"}

\* The client that sent its TestStart has a key of its own PSK, and with a
\* PSK it has verified the server's proof; it knows the server's capabilities
\* or fewer, and they cover its request.
ClientInv ==
    /\ cl.st = "auth" => conf.cpsk # NoPsk /\ cl.theirs.caps \subseteq conf.scaps
    /\ ClientStarted =>
        /\ conf.request \subseteq cl.theirs.caps /\ cl.theirs.caps \subseteq conf.scaps
        /\ KeyFor(cl.tr.key, conf.cpsk, cl.mine, cl.theirs)
        /\ conf.cpsk # NoPsk => /\ cl.mine = sv.theirs /\ cl.theirs = sv.mine
                                /\ sv.st \notin {"hello", "auth"}
    /\ ClientAgreed => ServerTested /\ cl.tr.key = sv.tr.key /\ cl.mode = sv.mode

\* The server that waits for a TestStart, or runs its test, has the key of
\* its PSK and the hellos it saw.
ServerInv ==
    /\ sv.st \in {"hello", "auth"} => sv.tr.key = NoKey
    /\ sv.st = "auth" => conf.spsk # NoPsk
    /\ sv.st \in {"start", "running", "ended"} =>
          KeyFor(sv.tr.key, conf.spsk, sv.theirs, sv.mine)
    /\ ServerTested =>
          /\ conf.cpsk = conf.spsk
          /\ sv.honours = conf.request \cap conf.scaps
          /\ sv.mode \in {"single", "ports", "quic"}
          /\ sv.mode = "quic" <=> conf.proto = "quic"
          /\ sv.duration = effective_duration(conf.duration, conf.max)

ShakeInv ==
    /\ conf \in Configs
    /\ ClientShape /\ ServerShape /\ ClientFrames /\ ServerFrames /\ ClientInv /\ ServerInv

-----------------------------------------------------------------------------
(* Queues and transports *)

LEMMA QueueAppend ==
    ASSUME NEW q, NEW f, IsQueue(q)
    PROVE  /\ IsQueue(Append(q, f)) /\ Len(q) \in Nat
           /\ Len(Append(q, f)) = Len(q) + 1
           /\ \A k \in 1..Len(q) : Append(q, f)[k] = q[k]
           /\ Append(q, f)[Len(q) + 1] = f
<1>1. PICK S : q \in Seq(S)
  BY DEF IsQueue
<1>2. q \in Seq(S \cup {f}) /\ f \in S \cup {f}
  BY <1>1
<1>3. Append(q, f) \in Seq(S \cup {f})
  BY <1>2
<1> QED
  BY <1>2, <1>3, AppendProperties, LenProperties DEF IsQueue

LEMMA QueueTail ==
    ASSUME NEW q, IsQueue(q), q # <<>>
    PROVE  /\ IsQueue(Tail(q)) /\ Len(q) \in Nat /\ Len(q) >= 1
           /\ Head(q) = q[1] /\ Len(Tail(q)) = Len(q) - 1
           /\ \A k \in 1..Len(Tail(q)) : k + 1 \in 1..Len(q) /\ Tail(q)[k] = q[k + 1]
<1>1. PICK S : q \in Seq(S)
  BY DEF IsQueue
<1> QED
  BY <1>1, HeadTailProperties, LenProperties DEF IsQueue

LEMMA QueueAlter ==
    ASSUME NEW q, NEW f, IsQueue(q), q # <<>>
    PROVE  /\ IsQueue(<<f>> \o Tail(q)) /\ Len(<<f>> \o Tail(q)) = Len(q)
           /\ Len(q) \in Nat /\ Len(q) >= 1
           /\ (<<f>> \o Tail(q))[1] = f
           /\ \A k \in 2..Len(q) : (<<f>> \o Tail(q))[k] = q[k]
<1>1. PICK S : q \in Seq(S)
  BY DEF IsQueue
<1>2. q \in Seq(S \cup {f}) /\ <<f>> \in Seq(S \cup {f}) /\ Len(<<f>>) = 1 /\ <<f>>[1] = f
  BY <1>1
<1>3. /\ Tail(q) \in Seq(S \cup {f}) /\ Len(Tail(q)) = Len(q) - 1 /\ Len(q) \in Nat \ {0}
      /\ \A k \in 1..Len(Tail(q)) : Tail(q)[k] = q[k + 1]
  BY <1>2, HeadTailProperties, LenProperties
<1> QED
  BY <1>2, <1>3, ConcatProperties DEF IsQueue

\* Writing and reading keep the key of a transport.
LEMMA TransportSteps ==
    ASSUME NEW tr, IsTransport(tr)
    PROVE  /\ IsTransport(AfterWrite(tr)) /\ AfterWrite(tr).key = tr.key
           /\ IsTransport(AfterRead(tr)) /\ AfterRead(tr).key = tr.key
           /\ \A body : /\ IsFrame(Seal(tr, body)) /\ Seal(tr, body).body = body
                        /\ Seal(tr, body).key = tr.key
  BY DEF IsTransport, AfterWrite, AfterRead, IsFrame, Seal

LEMMA FreshTransports ==
    /\ IsTransport(plaintext) /\ plaintext.key = NoKey
    /\ \A psk, c, s : /\ IsTransport(derive_pair(psk, c, s))
                      /\ derive_pair(psk, c, s).key = <<psk, c.nonce, s.nonce>>
                      /\ derive_pair(psk, c, s).key # NoKey
    /\ \A body : /\ IsFrame(PlainFrame(body)) /\ PlainFrame(body).body = body
                 /\ PlainFrame(body).key = NoKey
  BY DEF IsTransport, plaintext, derive_pair, NoKey, IsFrame, PlainFrame, Seal

-----------------------------------------------------------------------------
(* The channels of the handshake *)

\* The server never forgets what it proved or which test it runs.
ServerKeeps ==
    /\ sv.st \notin {"hello", "auth"} =>
          /\ sv'.st \notin {"hello", "auth"}
          /\ sv'.theirs = sv.theirs /\ sv'.mine = sv.mine
    /\ ServerTested => ServerTested' /\ sv'.tr.key = sv.tr.key /\ sv'.mode = sv.mode

LEMMA ServerFrameKept ==
    ASSUME UNCHANGED conf, ServerKeeps, NEW f, ServerFrame(conf, sv, f)
    PROVE  ServerFrame(conf', sv', f)
  BY DEF ServerFrame, ServerKeeps, ServerTested

LEMMA ClientWrites ==
    ASSUME ClientFrames, UNCHANGED conf, NEW f, ClientFrame(conf, f), c2s' = Append(c2s, f)
    PROVE  ClientFrames'
<1>1. /\ IsQueue(c2s') /\ Len(c2s) \in Nat /\ Len(c2s') = Len(c2s) + 1
      /\ \A k \in 1..Len(c2s) : c2s'[k] = c2s[k]
      /\ c2s'[Len(c2s) + 1] = f
  BY QueueAppend DEF ClientFrames
<1> QED
  BY <1>1 DEF ClientFrames

LEMMA ServerReads ==
    ASSUME ClientFrames, UNCHANGED conf, c2s # <<>>, c2s' = Tail(c2s)
    PROVE  ClientFrames' /\ ClientFrame(conf, Head(c2s))
<1>1. /\ IsQueue(c2s') /\ Len(c2s) \in Nat /\ Len(c2s) >= 1 /\ Head(c2s) = c2s[1]
      /\ \A k \in 1..Len(c2s') : k + 1 \in 1..Len(c2s) /\ c2s'[k] = c2s[k + 1]
  BY QueueTail DEF ClientFrames
<1> QED
  BY <1>1 DEF ClientFrames

LEMMA ServerWrites ==
    ASSUME ServerFrames, UNCHANGED conf, ServerKeeps, NEW f, ServerFrame(conf', sv', f),
           s2c' = Append(s2c, f)
    PROVE  ServerFrames'
<1>1. /\ IsQueue(s2c') /\ Len(s2c) \in Nat /\ Len(s2c') = Len(s2c) + 1
      /\ \A k \in 1..Len(s2c) : s2c'[k] = s2c[k]
      /\ s2c'[Len(s2c) + 1] = f
  BY QueueAppend DEF ServerFrames
<1>2. \A k \in 1..Len(s2c) : ServerFrame(conf', sv', s2c[k])
  BY ServerFrameKept DEF ServerFrames
<1> QED
  BY <1>1, <1>2 DEF ServerFrames

LEMMA ClientReads ==
    ASSUME ServerFrames, UNCHANGED <<conf, sv>>, s2c # <<>>, s2c' = Tail(s2c)
    PROVE  ServerFrames' /\ ServerFrame(conf, sv, Head(s2c))
<1>1. /\ IsQueue(s2c') /\ Len(s2c) \in Nat /\ Len(s2c) >= 1 /\ Head(s2c) = s2c[1]
      /\ \A k \in 1..Len(s2c') : k + 1 \in 1..Len(s2c) /\ s2c'[k] = s2c[k + 1]
  BY QueueTail DEF ServerFrames
<1> QED
  BY <1>1 DEF ServerFrames

LEMMA FramesStay ==
    ASSUME UNCHANGED conf
    PROVE  /\ ClientFrames /\ UNCHANGED c2s => ClientFrames'
           /\ ServerFrames /\ UNCHANGED s2c /\ ServerKeeps => ServerFrames'
<1>1. ASSUME ServerFrames, UNCHANGED s2c, ServerKeeps PROVE ServerFrames'
  BY <1>1, ServerFrameKept DEF ServerFrames
<1> QED
  BY <1>1 DEF ClientFrames

-----------------------------------------------------------------------------
(* The steps of the client *)

\* A client step leaves the server alone.
LEMMA ClientStep ==
    ASSUME ShakeInv, UNCHANGED <<conf, sv>>,
           ClientShape', ClientFrames', ServerFrames', ClientInv'
    PROVE  ShakeInv'
  BY DEF ShakeInv, ServerShape, ServerInv, ServerTested

LEMMA ClientFailsStep ==
    ASSUME ShakeInv, UNCHANGED conf, ClientFails, ServerFrames'
    PROVE  ShakeInv'
<1>1. ClientShape' /\ ClientInv'
  BY DEF ShakeInv, ClientFails, ClientShape, ClientInv, ClientStarted, ClientAgreed
<1>2. ClientFrames'
  BY FramesStay DEF ShakeInv, ClientFails
<1> QED
  BY <1>1, <1>2, ClientStep DEF ClientFails

LEMMA ClientHelloStep ==
    ASSUME ShakeInv, ClientHello
    PROVE  ShakeInv'
<1> DEFINE hello == [t |-> "hello", version |-> conf.cver, caps |-> conf.ccaps,
                     nonce |-> IF conf.cpsk = NoPsk THEN NoPsk ELSE "cn"]
<1>1. /\ cl' = [cl EXCEPT !.st = "hello", !.mine = hello]
      /\ c2s' = Append(c2s, PlainFrame(hello))
      /\ UNCHANGED <<conf, sv, s2c>>
  BY DEF ClientHello
<1>2. hello.t = "hello" /\ IsHello(hello, conf.ccaps)
  BY DEF IsHello
<1> HIDE DEF hello
<1>3. ClientFrame(conf, PlainFrame(hello))
  BY <1>2, FreshTransports DEF ClientFrame
<1>4. ClientFrames'
  BY <1>1, <1>3, ClientWrites DEF ShakeInv
<1>5. ServerFrames'
  BY <1>1, FramesStay DEF ShakeInv, ServerKeeps, ServerTested
<1>6. ClientShape' /\ ClientInv'
  BY <1>1 DEF ShakeInv, ClientShape, ClientInv, ClientStarted, ClientAgreed
<1> QED
  BY <1>1, <1>4, <1>5, <1>6, ClientStep

\* The TestStart goes out under a key of the client's PSK, with a PSK only
\* once the server has proved that it saw the same hellos.
LEMMA SendTestStartStep ==
    ASSUME ShakeInv, UNCHANGED conf, ServerFrames',
           NEW tr, NEW theirs, SendTestStart(tr, theirs), cl.st \in {"hello", "auth"},
           IsTransport(tr), KeyFor(tr.key, conf.cpsk, cl.mine, theirs),
           theirs.caps \subseteq conf.scaps,
           conf.cpsk # NoPsk => /\ cl.mine = sv.theirs /\ theirs = sv.mine
                                /\ sv.st \notin {"hello", "auth"}
    PROVE  ShakeInv'
<1>1. CASE ~RequestKnown(theirs.caps)
  BY <1>1, ClientFailsStep DEF SendTestStart
<1>2. CASE RequestKnown(theirs.caps)
  <2> DEFINE start == [t |-> "start", request |-> conf.request]
  <2>1. /\ c2s' = Append(c2s, Seal(tr, start))
        /\ cl' = [cl EXCEPT !.st = "start", !.tr = AfterWrite(tr), !.theirs = theirs]
        /\ UNCHANGED sv /\ conf.request \subseteq theirs.caps
    BY <1>2 DEF SendTestStart, RequestKnown
  <2>2. start.t = "start" /\ start.request = conf.request
    OBVIOUS
  <2> HIDE DEF start
  <2>3. ClientFrame(conf, Seal(tr, start))
    BY <2>2, TransportSteps DEF ClientFrame, KeyFor, NoKey
  <2>4. ClientFrames'
    BY <2>1, <2>3, ClientWrites DEF ShakeInv
  <2>5. IsTransport(AfterWrite(tr)) /\ AfterWrite(tr).key = tr.key
    BY TransportSteps
  <2>6. ClientShape'
    BY <2>1, <2>5 DEF ShakeInv, ClientShape
  <2>7. /\ cl'.st = "start" /\ cl'.theirs = theirs /\ cl'.mine = cl.mine
        /\ cl'.tr.key = tr.key
    BY <2>1, <2>5 DEF ShakeInv, ClientShape
  <2>8. ClientInv'
    BY <2>1, <2>7 DEF ClientInv, ClientStarted, ClientAgreed, KeyFor
  <2> QED
    BY <2>1, <2>4, <2>6, <2>8, ClientStep
<1> QED
  BY <1>1, <1>2

LEMMA ClientOnHelloStep ==
    ASSUME ShakeInv, NEW capsNeeded, OnServerHello(capsNeeded)
    PROVE  ShakeInv'
<1> DEFINE m == Head(s2c).body
<1>1. cl.st = "hello" /\ s2c # <<>> /\ s2c' = Tail(s2c) /\ UNCHANGED conf
  BY DEF OnServerHello
<1>2. UNCHANGED sv
  BY DEF OnServerHello, ClientFails, SendTestStart
<1>3. ServerFrames' /\ ServerFrame(conf, sv, Head(s2c))
  BY <1>1, <1>2, ClientReads DEF ShakeInv
<1>4. m.t = "hello" => IsHello(m, conf.scaps)
  BY <1>3 DEF ServerFrame
<1>5. CASE ClientFails
  BY <1>1, <1>3, <1>5, ClientFailsStep
<1>6. CASE /\ m.t = "hello" /\ conf.cpsk # NoPsk
           /\ c2s' = Append(c2s, PlainFrame([t |-> "auth", response |-> <<conf.cpsk, m.nonce>>]))
           /\ cl' = [cl EXCEPT !.st = "auth", !.theirs = m]
  <2>1. ClientFrame(conf, PlainFrame([t |-> "auth", response |-> <<conf.cpsk, m.nonce>>]))
    BY FreshTransports DEF ClientFrame
  <2>2. ClientFrames'
    BY <1>1, <1>6, <2>1, ClientWrites DEF ShakeInv
  <2>3. ClientShape'
    BY <1>6 DEF ShakeInv, ClientShape
  <2>4. cl'.st = "auth" /\ cl'.theirs = m
    BY <1>6 DEF ShakeInv, ClientShape
  <2>5. ClientInv'
    BY <1>1, <1>4, <1>6, <2>4 DEF ClientInv, ClientStarted, ClientAgreed, IsHello
  <2> QED
    BY <1>1, <1>2, <1>3, <2>2, <2>3, <2>5, ClientStep
<1>7. CASE m.t = "hello" /\ conf.cpsk = NoPsk /\ SendTestStart(plaintext, m)
  <2>1. KeyFor(plaintext.key, conf.cpsk, cl.mine, m) /\ IsTransport(plaintext)
    BY <1>7, FreshTransports DEF KeyFor
  <2> QED
    BY <1>1, <1>3, <1>4, <1>7, <2>1, SendTestStartStep DEF IsHello
<1> QED
  BY <1>5, <1>6, <1>7 DEF OnServerHello

LEMMA OnAuthResultStep ==
    ASSUME ShakeInv, OnAuthResult
    PROVE  ShakeInv'
<1> DEFINE m == Head(s2c).body
<1>1. cl.st = "auth" /\ s2c # <<>> /\ s2c' = Tail(s2c) /\ UNCHANGED conf
  BY DEF OnAuthResult
<1>2. UNCHANGED sv
  BY DEF OnAuthResult, ClientFails, SendTestStart
<1>3. ServerFrames' /\ ServerFrame(conf, sv, Head(s2c))
  BY <1>1, <1>2, ClientReads DEF ShakeInv
<1>4. CASE ClientFails
  BY <1>1, <1>3, <1>4, ClientFailsStep
<1>5. CASE /\ m.t = "success" /\ ProofVerifies(m)
           /\ SendTestStart(derive_pair(conf.cpsk, cl.mine, cl.theirs), cl.theirs)
  <2>1. m.proof = Proof(conf.spsk, sv.theirs, sv.mine) /\ sv.st \notin {"hello", "auth"}
    BY <1>3, <1>5 DEF ServerFrame
  <2>2. conf.cpsk = conf.spsk /\ cl.mine = sv.theirs /\ cl.theirs = sv.mine
    BY <1>5, <2>1 DEF ProofVerifies, Proof
  <2>3. conf.cpsk # NoPsk /\ cl.theirs.caps \subseteq conf.scaps
    BY <1>1 DEF ShakeInv, ClientInv
  <2> QED
    BY <1>1, <1>3, <1>5, <2>1, <2>2, <2>3, FreshTransports, SendTestStartStep DEF KeyFor
<1> QED
  BY <1>4, <1>5 DEF OnAuthResult

\* The mode that a TestAck gives is the server's, if it gives any.
LEMMA AckModeRight ==
    ASSUME ShakeInv, ServerTested, NEW m,
           m.ports = (sv.mode = "ports"),
           m.token = (conf.proto = "udp" /\ sv.mode = "single"),
           AckMode(m) # "none"
    PROVE  AckMode(m) = sv.mode
<1>1. /\ sv.mode \in {"single", "ports", "quic"}
      /\ sv.mode = "quic" <=> conf.proto = "quic"
      /\ conf.proto \in {"tcp", "udp", "quic"}
  BY ConfigsAssumption DEF ShakeInv, ServerInv, ConfigsAssumption
<1>2. CASE sv.mode = "quic"
  BY <1>1, <1>2 DEF AckMode
<1>3. CASE sv.mode = "ports"
  <2>1. conf.proto # "quic"
    BY <1>1, <1>3
  <2>2. m.ports
    BY <1>3
  <2>3. AckMode(m) = "ports"
    BY <2>1, <2>2 DEF AckMode
  <2> QED
    BY <1>3, <2>3
<1>4. CASE sv.mode = "single"
  <2>1. m.ports = FALSE /\ conf.proto # "quic" /\ m.token = (conf.proto = "udp")
    BY <1>1, <1>4
  <2> QED
    BY <1>1, <1>4, <2>1 DEF AckMode
<1> QED
  BY <1>1, <1>2, <1>3, <1>4

LEMMA OnAckStep ==
    ASSUME ShakeInv, OnAck
    PROVE  ShakeInv'
<1> DEFINE f == Head(s2c)
<1>1. cl.st = "start" /\ s2c # <<>> /\ s2c' = Tail(s2c) /\ UNCHANGED conf
  BY DEF OnAck
<1>2. UNCHANGED <<sv, c2s>>
  BY DEF OnAck, ClientFails
<1>3. ServerFrames' /\ ServerFrame(conf, sv, f)
  BY <1>1, <1>2, ClientReads DEF ShakeInv
<1>4. CASE ClientFails
  BY <1>1, <1>3, <1>4, ClientFailsStep
<1>5. CASE /\ Opens(cl.tr, f) /\ f.body.t = "ack" /\ AckMode(f.body) # "none"
           /\ cl' = [cl EXCEPT !.st = "agreed", !.tr = AfterRead(@), !.mode = AckMode(f.body)]
  <2>1. /\ ServerTested /\ f.key = sv.tr.key
        /\ f.body.ports = (sv.mode = "ports")
        /\ f.body.token = (conf.proto = "udp" /\ sv.mode = "single")
    BY <1>3, <1>5 DEF ServerFrame, ServerTested
  <2>2. AckMode(f.body) = sv.mode
    BY <1>5, <2>1, AckModeRight
  <2>3. cl.tr.key = sv.tr.key
    BY <1>5, <2>1 DEF Opens
  <2>4. IsTransport(AfterRead(cl.tr)) /\ AfterRead(cl.tr).key = cl.tr.key
    BY TransportSteps DEF ShakeInv, ClientShape
  <2>5. /\ cl'.st = "agreed" /\ cl'.tr = AfterRead(cl.tr) /\ cl'.mode = sv.mode
        /\ cl'.mine = cl.mine /\ cl'.theirs = cl.theirs
        /\ ClientShape'
    BY <1>5, <2>2, <2>4 DEF ShakeInv, ClientShape, ServerShape
  <2>6. ClientInv'
    BY <1>1, <1>2, <2>1, <2>3, <2>4, <2>5
    DEF ShakeInv, ClientInv, ClientStarted, ClientAgreed, ServerTested, KeyFor
  <2>7. ClientFrames'
    BY <1>1, <1>2, FramesStay DEF ShakeInv
  <2> QED
    BY <1>1, <1>2, <1>3, <2>5, <2>6, <2>7, ClientStep
<1> QED
  BY <1>4, <1>5 DEF OnAck

LEMMA ClientEndsStep ==
    ASSUME ShakeInv, \/ ClientEof
                     \/ ClientOnResult
                     \/ ClientProbeCancel
                     \/ UdpSetupFails
    PROVE  ShakeInv'
<1>1. CASE ClientEof
  <2>1. ServerFrames'
    BY <1>1, FramesStay DEF ShakeInv, ClientEof, ClientFails, ServerKeeps, ServerTested
  <2> QED
    BY <1>1, <2>1, ClientFailsStep DEF ClientEof
<1>2. CASE ClientOnResult
  <2>1. ServerFrames'
    BY <1>2, ClientReads DEF ShakeInv, ClientOnResult, ClientFails
  <2>2. CASE ClientFails
    BY <1>2, <2>1, <2>2, ClientFailsStep DEF ClientOnResult
  <2>3. CASE cl' = [cl EXCEPT !.st = "probed"] /\ UNCHANGED <<c2s, sv>>
    <3>1. ClientShape' /\ ClientInv'
      BY <1>2, <2>3 DEF ShakeInv, ClientOnResult, ClientShape, ClientInv, ClientStarted,
                        ClientAgreed, ServerTested, KeyFor
    <3>2. ClientFrames'
      BY <1>2, <2>3, FramesStay DEF ShakeInv, ClientOnResult
    <3> QED
      BY <1>2, <2>1, <2>3, <3>1, <3>2, ClientStep DEF ClientOnResult
  <2> QED
    BY <1>2, <2>2, <2>3 DEF ClientOnResult
<1>3. CASE ClientProbeCancel
  <2>1. /\ cl.st = "agreed" /\ cl' = [cl EXCEPT !.st = "result"]
        /\ c2s' = Append(c2s, PlainFrame(Message("cancel")))
        /\ UNCHANGED <<conf, sv, s2c>>
    BY <1>3 DEF ClientProbeCancel
  <2>2. ClientFrame(conf, PlainFrame(Message("cancel")))
    BY FreshTransports DEF ClientFrame, Message
  <2>3. ClientFrames'
    BY <2>1, <2>2, ClientWrites DEF ShakeInv
  <2>4. ServerFrames'
    BY <2>1, FramesStay DEF ShakeInv, ServerKeeps, ServerTested
  <2>5. ClientShape' /\ ClientInv'
    BY <2>1 DEF ShakeInv, ClientShape, ClientInv, ClientStarted, ClientAgreed, ServerTested,
                KeyFor
  <2> QED
    BY <2>1, <2>3, <2>4, <2>5, ClientStep
<1>4. CASE UdpSetupFails
  <2>1. ClientFails /\ UNCHANGED <<conf, s2c>>
    BY <1>4 DEF UdpSetupFails, ClientFails
  <2>2. ServerFrames'
    BY <2>1, FramesStay DEF ShakeInv, ClientFails, ServerKeeps, ServerTested
  <2> QED
    BY <2>1, <2>2, ClientFailsStep
<1> QED
  BY <1>1, <1>2, <1>3, <1>4

-----------------------------------------------------------------------------
(* The steps of the server *)

\* A server step keeps what the client relies on.
LEMMA ServerStep ==
    ASSUME ShakeInv, UNCHANGED <<conf, cl>>, ServerKeeps,
           ServerShape', ClientFrames', ServerFrames', ServerInv'
    PROVE  ShakeInv'
<1>1. ClientShape' /\ ClientInv'
  BY DEF ShakeInv, ClientShape, ClientInv, ClientStarted, ClientAgreed, ServerKeeps,
         ServerTested, KeyFor
<1> QED
  BY <1>1 DEF ShakeInv

LEMMA ServerFailsStep ==
    ASSUME ShakeInv, UNCHANGED <<conf, cl>>, ServerFails, ~ServerTested, ClientFrames',
           \/ UNCHANGED s2c
           \/ \E tr : IsTransport(tr) /\ s2c' = Append(s2c, Seal(tr, Message("error")))
    PROVE  ShakeInv'
<1>1. ServerShape' /\ ServerInv' /\ ServerKeeps
  BY DEF ShakeInv, ServerFails, ServerShape, ServerInv, ServerKeeps, ServerTested, KeyFor
<1>2. ServerFrames'
  <2>1. CASE UNCHANGED s2c
    BY <1>1, <2>1, FramesStay DEF ShakeInv
  <2>2. ASSUME NEW tr, IsTransport(tr), s2c' = Append(s2c, Seal(tr, Message("error")))
        PROVE  ServerFrames'
    <3>1. Message("error").t = "error"
      BY DEF Message
    <3>2. ServerFrame(conf', sv', Seal(tr, Message("error")))
      BY <2>2, <3>1, TransportSteps DEF ServerFrame
    <3> QED
      BY <1>1, <2>2, <3>2, ServerWrites DEF ShakeInv
  <2> QED
    BY <2>1, <2>2
<1> QED
  BY <1>1, <1>2, ServerStep

LEMMA OnClientHelloStep ==
    ASSUME ShakeInv, NEW capsNeeded, OnClientHello(capsNeeded)
    PROVE  ShakeInv'
<1> DEFINE m == Head(c2s).body
<1>1. sv.st = "hello" /\ c2s # <<>> /\ c2s' = Tail(c2s) /\ UNCHANGED <<conf, cl>>
  BY DEF OnClientHello
<1>2. ClientFrames'
  BY <1>1, ServerReads DEF ShakeInv
<1>3. ~ServerTested /\ IsTransport(plaintext)
  BY <1>1, FreshTransports DEF ServerTested
<1>4. CASE ServerRefuses(plaintext, FALSE)
  BY <1>1, <1>2, <1>3, <1>4, ServerFailsStep DEF ServerRefuses
<1>5. CASE /\ s2c' = Append(s2c, PlainFrame(ServerHello))
           /\ sv' = [sv EXCEPT !.st = IF conf.spsk = NoPsk THEN "start" ELSE "auth",
                               !.mine = ServerHello, !.theirs = m]
  <2>1. /\ sv'.st = (IF conf.spsk = NoPsk THEN "start" ELSE "auth")
        /\ sv'.tr = sv.tr /\ ServerShape'
    BY <1>5 DEF ShakeInv, ServerShape
  <2>2. ServerKeeps
    BY <1>1 DEF ServerKeeps, ServerTested
  <2>3. IsHello(ServerHello, conf.scaps) /\ ServerHello.t = "hello"
    BY DEF IsHello, ServerHello
  <2>4. ServerFrame(conf', sv', PlainFrame(ServerHello))
    BY <1>1, <2>3, FreshTransports DEF ServerFrame
  <2>5. ServerFrames'
    BY <1>1, <1>5, <2>2, <2>4, ServerWrites DEF ShakeInv
  <2>6. ServerInv'
    BY <1>1, <2>1 DEF ShakeInv, ServerInv, ServerTested, KeyFor
  <2> QED
    BY <1>1, <1>2, <2>1, <2>2, <2>5, <2>6, ServerStep
<1> QED
  BY <1>4, <1>5 DEF OnClientHello

LEMMA OnAuthStep ==
    ASSUME ShakeInv, OnAuth
    PROVE  ShakeInv'
<1> DEFINE m == Head(c2s).body
           success == [t |-> "success", proof |-> Proof(conf.spsk, sv.theirs, sv.mine)]
<1>1. sv.st = "auth" /\ c2s # <<>> /\ c2s' = Tail(c2s) /\ UNCHANGED <<conf, cl>>
  BY DEF OnAuth
<1>2. ClientFrames'
  BY <1>1, ServerReads DEF ShakeInv
<1>3. ~ServerTested /\ IsTransport(plaintext)
  BY <1>1, FreshTransports DEF ServerTested
<1>4. CASE \E waits : ServerRefuses(plaintext, waits)
  BY <1>1, <1>2, <1>3, <1>4, ServerFailsStep DEF ServerRefuses
<1>5. CASE ServerFails /\ UNCHANGED s2c
  BY <1>1, <1>2, <1>3, <1>5, ServerFailsStep
<1>6. CASE /\ s2c' = Append(s2c, PlainFrame(success))
           /\ sv' = [sv EXCEPT !.st = "start",
                               !.tr = derive_pair(conf.spsk, sv.theirs, sv.mine)]
  <2>1. /\ IsTransport(derive_pair(conf.spsk, sv.theirs, sv.mine))
        /\ derive_pair(conf.spsk, sv.theirs, sv.mine).key
             = <<conf.spsk, sv.theirs.nonce, sv.mine.nonce>>
    BY FreshTransports
  <2>2. /\ sv'.st = "start" /\ sv'.tr.key = <<conf.spsk, sv.theirs.nonce, sv.mine.nonce>>
        /\ sv'.theirs = sv.theirs /\ sv'.mine = sv.mine /\ ServerShape'
    BY <1>6, <2>1 DEF ShakeInv, ServerShape
  <2>3. ServerKeeps
    BY <1>1 DEF ServerKeeps, ServerTested
  <2>4. success.t = "success" /\ success.proof = Proof(conf.spsk, sv.theirs, sv.mine)
    OBVIOUS
  <2> HIDE DEF success
  <2>5. ServerFrame(conf', sv', PlainFrame(success))
    BY <1>1, <2>2, <2>4, FreshTransports DEF ServerFrame
  <2>6. ServerFrames'
    BY <1>1, <1>6, <2>3, <2>5, ServerWrites DEF ShakeInv
  <2>7. conf.spsk # NoPsk
    BY <1>1 DEF ShakeInv, ServerInv
  <2>8. ServerInv'
    BY <1>1, <2>2, <2>7 DEF ServerInv, ServerTested, KeyFor
  <2> QED
    BY <1>1, <1>2, <2>2, <2>3, <2>6, <2>8, ServerStep
<1> QED
  BY <1>4, <1>5, <1>6 DEF OnAuth

\* What effective_duration promises: at most the server's limit, and of a
\* finite request at most that and an hour.
LEMMA DurationLimits ==
    ASSUME NEW requested \in Nat, NEW max \in Nat \cup {NoLimit}
    PROVE  /\ effective_duration(requested, max) \in Nat
           /\ requested # Unlimited => effective_duration(requested, max) <= MAX_TEST_DURATION
           /\ max > 0 => effective_duration(requested, max) \in 1..max
           /\ requested # Unlimited /\ max # 0 =>
                 effective_duration(requested, max) \in 1..requested
  BY DEF effective_duration, MAX_TEST_DURATION, Unlimited, NoLimit

LEMMA OnStartStep ==
    ASSUME ShakeInv, OnStart
    PROVE  ShakeInv'
<1> DEFINE f == Head(c2s)
           ack == [t |-> "ack", ports |-> ServerMode = "ports",
                   token |-> conf.proto = "udp" /\ ServerMode = "single"]
           d == effective_duration(conf.duration, conf.max)
<1>1. sv.st = "start" /\ c2s # <<>> /\ c2s' = Tail(c2s) /\ UNCHANGED <<conf, cl>>
  BY DEF OnStart
<1>2. ClientFrames' /\ ClientFrame(conf, f)
  BY <1>1, ServerReads DEF ShakeInv
<1>3. ~ServerTested /\ IsTransport(sv.tr)
  BY <1>1 DEF ShakeInv, ServerShape, ServerTested
<1>4. CASE ServerRefuses(sv.tr, FALSE)
  BY <1>1, <1>2, <1>3, <1>4, ServerFailsStep DEF ServerRefuses
<1>5. CASE ServerFails /\ UNCHANGED s2c
  BY <1>1, <1>2, <1>3, <1>5, ServerFailsStep
<1>6. CASE /\ Opens(sv.tr, f) /\ f.body.t = "start"
           /\ s2c' = Append(s2c, Seal(sv.tr, ack))
           /\ sv' = [sv EXCEPT !.st = "running", !.tr = AfterWrite(AfterRead(@)),
                               !.mode = ServerMode,
                               !.honours = f.body.request \cap conf.scaps,
                               !.duration = d]
  <2>1. /\ f.key = sv.tr.key /\ f.body.request = conf.request
        /\ IF conf.cpsk = NoPsk THEN f.key = NoKey ELSE f.key # NoKey /\ f.key[1] = conf.cpsk
    BY <1>2, <1>6 DEF ClientFrame, Opens
  <2>2. KeyFor(sv.tr.key, conf.spsk, sv.theirs, sv.mine)
    BY <1>1 DEF ShakeInv, ServerInv
  <2>3. conf.cpsk = conf.spsk
    <3>1. \A x, y, z : <<x, y, z>> # NoKey /\ <<x, y, z>>[1] = x
      BY DEF NoKey
    <3> QED
      BY <2>1, <2>2, <3>1 DEF KeyFor
  <2>4. /\ IsTransport(AfterWrite(AfterRead(sv.tr)))
        /\ AfterWrite(AfterRead(sv.tr)).key = sv.tr.key
    BY <1>3, TransportSteps
  <2>5. /\ conf.request \cap conf.scaps \subseteq Features
        /\ conf.proto \in {"tcp", "udp", "quic"} /\ conf.duration \in Nat
        /\ conf.max \in Nat \cup {NoLimit}
    BY ConfigsAssumption DEF ShakeInv, ConfigsAssumption
  <2>6. /\ ServerMode \in {"single", "ports", "quic"}
        /\ ServerMode = "quic" <=> conf.proto = "quic"
    BY <2>5 DEF ServerMode
  <2>7. d \in Nat
    BY <2>5, DurationLimits
  <2> HIDE DEF d
  <2>8. /\ sv'.st = "running" /\ sv'.tr.key = sv.tr.key
        /\ sv'.theirs = sv.theirs /\ sv'.mine = sv.mine /\ sv'.mode = ServerMode
        /\ sv'.honours = conf.request \cap conf.scaps /\ sv'.duration = d
        /\ ServerShape'
    BY <1>6, <2>1, <2>4, <2>5, <2>6, <2>7 DEF ShakeInv, ServerShape
  <2>9. ServerKeeps
    BY <1>1, <2>8 DEF ServerKeeps, ServerTested
  <2>10. /\ ack.t = "ack" /\ ack.ports = (sv'.mode = "ports")
         /\ ack.token = (conf'.proto = "udp" /\ sv'.mode = "single")
    BY <1>1, <2>8
  <2> HIDE DEF ack
  <2>11. /\ IsFrame(Seal(sv.tr, ack)) /\ Seal(sv.tr, ack).body = ack
         /\ Seal(sv.tr, ack).key = sv'.tr.key
    BY <1>3, <2>8, TransportSteps
  <2>12. ServerFrame(conf', sv', Seal(sv.tr, ack))
    BY <2>8, <2>10, <2>11 DEF ServerFrame
  <2>13. ServerFrames'
    BY <1>1, <1>6, <2>9, <2>12, ServerWrites DEF ShakeInv
  <2>14. ServerInv'
    BY <1>1, <2>2, <2>3, <2>6, <2>8 DEF ServerInv, ServerTested, KeyFor, d
  <2> QED
    BY <1>1, <1>2, <2>8, <2>9, <2>13, <2>14, ServerStep
<1> QED
  BY <1>4, <1>5, <1>6 DEF OnStart

LEMMA ServerEndsStep ==
    ASSUME ShakeInv, \/ ServerGivesUp
                     \/ ServerLosesClient
                     \/ ServerOnCancel
                     \/ ServerTimeUp
    PROVE  ShakeInv'
<1>1. CASE ServerGivesUp
  <2>1. ClientFrames'
    BY <1>1, FramesStay DEF ShakeInv, ServerGivesUp
  <2> QED
    BY <1>1, <2>1, ServerFailsStep DEF ServerGivesUp, ServerTested
<1>2. CASE ServerLosesClient \/ ServerOnCancel \/ ServerTimeUp
  <2>1. /\ UNCHANGED <<conf, cl>> /\ sv.st = "running"
        /\ \/ sv' = [sv EXCEPT !.st = "ended"]
           \/ sv' = [sv EXCEPT !.st = "ended", !.tr = AfterWrite(@)]
        /\ \/ UNCHANGED s2c
           \/ s2c' = Append(s2c, Seal(sv.tr, Message("result")))
        /\ \/ UNCHANGED c2s
           \/ c2s # <<>> /\ c2s' = Tail(c2s)
    BY <1>2 DEF ServerLosesClient, ServerOnCancel, ServerTimeUp
  <2>2. /\ IsTransport(sv.tr) /\ IsTransport(AfterWrite(sv.tr))
        /\ AfterWrite(sv.tr).key = sv.tr.key
        /\ IsFrame(Seal(sv.tr, Message("result")))
        /\ Seal(sv.tr, Message("result")).body = Message("result")
    BY TransportSteps DEF ShakeInv, ServerShape
  <2>3. /\ sv'.st = "ended" /\ sv'.tr.key = sv.tr.key /\ sv'.theirs = sv.theirs
        /\ sv'.mine = sv.mine /\ sv'.mode = sv.mode /\ sv'.honours = sv.honours
        /\ sv'.duration = sv.duration /\ ServerShape'
    BY <2>1, <2>2 DEF ShakeInv, ServerShape
  <2>4. ServerKeeps
    BY <2>3 DEF ServerKeeps, ServerTested
  <2>5. ServerInv'
    BY <2>1, <2>3 DEF ShakeInv, ServerInv, ServerTested, KeyFor
  <2>6. ClientFrames'
    BY <2>1, FramesStay, ServerReads DEF ShakeInv
  <2>7. Message("result").t = "result"
    BY DEF Message
  <2>8. ServerFrame(conf', sv', Seal(sv.tr, Message("result")))
    BY <2>2, <2>7 DEF ServerFrame
  <2>9. ServerFrames'
    BY <2>1, <2>4, <2>8, FramesStay, ServerWrites DEF ShakeInv
  <2> QED
    BY <2>1, <2>3, <2>4, <2>5, <2>6, <2>9, ServerStep
<1> QED
  BY <1>1, <1>2

\* A Hello that loses a capability is a Hello with at most the sender's.
LEMMA AlteredFrame ==
    ASSUME NEW f, NEW caps, NEW cap, IsFrame(f), f.body.t = "hello", IsHello(f.body, caps)
    PROVE  LET g == [f EXCEPT !.body.caps = @ \ {cap}]
           IN  IsFrame(g) /\ g.body.t = "hello" /\ IsHello(g.body, caps)
<1> DEFINE h == [t |-> "hello", version |-> f.body.version, caps |-> f.body.caps \ {cap},
                 nonce |-> f.body.nonce]
           g == [f EXCEPT !.body.caps = @ \ {cap}]
<1>1. [f.body EXCEPT !.caps = @ \ {cap}] = h
  BY DEF IsHello
<1>2. g = [key |-> f.key, seq |-> f.seq, body |-> h]
  BY <1>1 DEF IsFrame
<1>3. h.t = "hello" /\ IsHello(h, caps)
  BY DEF IsHello
<1> HIDE DEF h
<1>4. IsFrame(g) /\ g.body = h
  BY <1>2 DEF IsFrame
<1> QED
  BY <1>3, <1>4

LEMMA AlterHelloStep ==
    ASSUME ShakeInv, AlterHello
    PROVE  ShakeInv'
<1>1. UNCHANGED <<conf, cl, sv>> /\ ServerKeeps
  BY DEF AlterHello, ServerKeeps, ServerTested
<1>2. PICK cap \in Capabilities :
          \/ /\ c2s # <<>> /\ Head(c2s).body.t = "hello"
             /\ c2s' = <<[Head(c2s) EXCEPT !.body.caps = @ \ {cap}]>> \o Tail(c2s)
             /\ UNCHANGED s2c
          \/ /\ s2c # <<>> /\ Head(s2c).body.t = "hello"
             /\ s2c' = <<[Head(s2c) EXCEPT !.body.caps = @ \ {cap}]>> \o Tail(s2c)
             /\ UNCHANGED c2s
  BY DEF AlterHello
<1>3. CASE /\ c2s # <<>> /\ Head(c2s).body.t = "hello"
           /\ c2s' = <<[Head(c2s) EXCEPT !.body.caps = @ \ {cap}]>> \o Tail(c2s)
           /\ UNCHANGED s2c
  <2> DEFINE g == [Head(c2s) EXCEPT !.body.caps = @ \ {cap}]
  <2>1. ClientFrame(conf, Head(c2s))
    BY <1>3, QueueTail DEF ShakeInv, ClientFrames
  <2>2. IsFrame(g) /\ g.body.t = "hello" /\ IsHello(g.body, conf.ccaps)
    BY <1>3, <2>1, AlteredFrame DEF ClientFrame
  <2>3. c2s' = <<g>> \o Tail(c2s)
    BY <1>3
  <2> HIDE DEF g
  <2>4. ClientFrame(conf, g)
    BY <2>2 DEF ClientFrame
  <2>5. ClientFrames'
    <3>1. /\ IsQueue(c2s') /\ Len(c2s') = Len(c2s) /\ Len(c2s) \in Nat /\ c2s'[1] = g
          /\ \A k \in 2..Len(c2s) : c2s'[k] = c2s[k]
      BY <1>3, <2>3, QueueAlter DEF ShakeInv, ClientFrames
    <3> QED
      BY <1>1, <2>4, <3>1 DEF ShakeInv, ClientFrames
  <2>6. ServerFrames'
    BY <1>1, <1>3, FramesStay DEF ShakeInv
  <2> QED
    BY <1>1, <2>5, <2>6 DEF ShakeInv, ClientShape, ServerShape, ClientInv, ServerInv,
       ClientStarted, ClientAgreed, ServerTested, KeyFor
<1>4. CASE /\ s2c # <<>> /\ Head(s2c).body.t = "hello"
           /\ s2c' = <<[Head(s2c) EXCEPT !.body.caps = @ \ {cap}]>> \o Tail(s2c)
           /\ UNCHANGED c2s
  <2> DEFINE g == [Head(s2c) EXCEPT !.body.caps = @ \ {cap}]
  <2>1. ServerFrame(conf, sv, Head(s2c))
    BY <1>4, QueueTail DEF ShakeInv, ServerFrames
  <2>2. IsFrame(g) /\ g.body.t = "hello" /\ IsHello(g.body, conf.scaps)
    BY <1>4, <2>1, AlteredFrame DEF ServerFrame
  <2>3. s2c' = <<g>> \o Tail(s2c)
    BY <1>4
  <2> HIDE DEF g
  <2>4. ServerFrame(conf, sv, g)
    BY <2>2 DEF ServerFrame
  <2>5. ServerFrames'
    <3>1. /\ IsQueue(s2c') /\ Len(s2c') = Len(s2c) /\ Len(s2c) \in Nat /\ s2c'[1] = g
          /\ \A k \in 2..Len(s2c) : s2c'[k] = s2c[k]
      BY <1>4, <2>3, QueueAlter DEF ShakeInv, ServerFrames
    <3> QED
      BY <1>1, <2>4, <3>1 DEF ShakeInv, ServerFrames
  <2>6. ClientFrames'
    BY <1>1, <1>4, FramesStay DEF ShakeInv
  <2> QED
    BY <1>1, <2>5, <2>6 DEF ShakeInv, ClientShape, ServerShape, ClientInv, ServerInv,
       ClientStarted, ClientAgreed, ServerTested, KeyFor
<1> QED
  BY <1>2, <1>3, <1>4

LEMMA ShakeInvInit == Init => ShakeInv
<1> SUFFICES ASSUME ShakeInit PROVE ShakeInv
  BY DEF Init
<1>1. c2s = <<>> /\ s2c = <<>> /\ IsQueue(<<>>) /\ Len(<<>>) = 0
  <2>1. <<>> \in Seq({})
    OBVIOUS
  <2> QED
    BY <2>1 DEF ShakeInit, IsQueue
<1>2. ClientFrames /\ ServerFrames
  BY <1>1 DEF ClientFrames, ServerFrames
<1>3. IsTransport(plaintext) /\ plaintext.key = NoKey
  BY FreshTransports
<1>4. conf \in Configs /\ ClientShape /\ ServerShape
  BY <1>3 DEF ShakeInit, ClientShape, ServerShape
<1>5. ClientInv /\ ServerInv
  BY <1>3 DEF ShakeInit, ClientInv, ServerInv, ClientStarted, ClientAgreed, ServerTested
<1> QED
  BY <1>2, <1>4, <1>5 DEF ShakeInv

LEMMA ShakeInvStep == ShakeInv /\ [Next]_vars => ShakeInv'
<1> SUFFICES ASSUME ShakeInv, [Next]_vars PROVE ShakeInv'
  OBVIOUS
<1>1. CASE UNCHANGED shakeVars
  <2>1. UNCHANGED <<conf, cl, sv, c2s, s2c>>
    BY <1>1 DEF shakeVars
  <2>2. ClientFrames' /\ ServerFrames'
    BY <2>1, FramesStay DEF ShakeInv, ServerKeeps, ServerTested
  <2> QED
    BY <2>1, <2>2 DEF ShakeInv, ClientShape, ServerShape, ClientInv, ServerInv,
       ClientStarted, ClientAgreed, ServerTested, KeyFor
<1>2. CASE ClientSteps
  BY <1>2, ClientHelloStep, ClientOnHelloStep, OnAuthResultStep, OnAckStep, ClientEndsStep
  DEF ClientSteps, ClientOnHello, ClientOnAuthResult, ClientOnAck, QuicClientOnHello,
      QuicClientOnAuthResult, QuicClientOnAck
<1>3. CASE ServerSteps
  BY <1>3, OnClientHelloStep, OnAuthStep, OnStartStep, ServerEndsStep
  DEF ServerSteps, ServerOnHello, ServerOnAuth, ServerOnStart, QuicServerOnHello,
      QuicServerOnAuth, QuicServerOnStart
<1>4. CASE AlterHello \/ UdpSetupFails \/ TestTimeUp \/ ProbeDone
  BY <1>4, AlterHelloStep, ClientEndsStep, ServerEndsStep DEF TestTimeUp, ProbeDone
<1> QED
  BY <1>1, <1>2, <1>3, <1>4
  DEF Next, vars, Shake, ShakeSteps, StartUdpStreams, Hellos, StartMtuProbe, Probing

LEMMA ShakeInvariant == Spec => []ShakeInv
  BY ShakeInvInit, ShakeInvStep, PTL DEF Spec

(***************************************************************************)
(* A test only starts between peers whose keys agree, and with a PSK only    *)
(* where both saw the same hellos: for every pair of keys, capabilities and  *)
(* versions, and a Hello altered on its way (control_crypto.rs               *)
(* compute_server_proof, auth.rs, the handshakes of client.rs and serve.rs). *)
(***************************************************************************)
THEOREM SameKeyOnly == Spec => []OnlyWithTheSameKey
<1>1. ShakeInv => OnlyWithTheSameKey
  BY DEF ShakeInv, ClientInv, ServerInv, OnlyWithTheSameKey, ClientStarted, ClientAgreed
<1> QED
  BY <1>1, ShakeInvariant, PTL

(***************************************************************************)
(* Every feature the client asked for that changes the question is honoured  *)
(* or refused, both agree on one data port or several, and the test's time   *)
(* is within the limits of both: for every request, every set of             *)
(* capabilities and every duration and limit (serve.rs handle_test_request). *)
(***************************************************************************)
THEOREM NoDowngrade == Spec => []NothingDowngraded
<1>1. ShakeInv => NothingDowngraded
  <2> SUFFICES ASSUME ShakeInv PROVE NothingDowngraded
    OBVIOUS
  <2>1. conf.duration \in Nat /\ conf.max \in Nat \cup {NoLimit}
    BY ConfigsAssumption DEF ShakeInv, ConfigsAssumption
  <2>2. ServerTested => sv.duration = effective_duration(conf.duration, conf.max)
    BY DEF ShakeInv, ServerInv
  <2>3. ClientAgreed => conf.request \subseteq sv.honours /\ cl.mode = sv.mode
    BY DEF ShakeInv, ClientInv, ServerInv, ClientStarted, ClientAgreed
  <2> QED
    BY <2>1, <2>2, <2>3, DurationLimits DEF NothingDowngraded
<1> QED
  BY <1>1, ShakeInvariant, PTL

-----------------------------------------------------------------------------
(* ---------------------- The hello handshakes over UDP ------------------ *)

Failing == cphase \in {"cancel", "fetch", "failed", "explained"}

StreamState == [st : {"send", "wait", "done"}, attempts : 0..MaxAttempts]

Packet == [kind : {"hello", "ack", "data"}, idx : Streams, n : Nat]

History == [made : [Streams -> Nat], errors : Nat, strayed : Nat, expired : BOOLEAN,
            faults : 0..MaxNetFaults]

HelloShape ==
    /\ cphase \in {"idle", "handshake", "data"} \/ Failing
    /\ cstream \in [Streams -> StreamState]
    /\ net \subseteq Packet
    /\ sockbuf \in [Streams -> SUBSET Packet]
    /\ hellos \in Seq(Packet) /\ Len(hellos) <= HelloCap
    /\ disp \in [st : {"idle"}] \cup [st : {"making", "made"}, idx : Streams]
    /\ route \in [present : BOOLEAN, sockets : SUBSET Streams]
    /\ chan \in Seq(Streams)
    /\ received \subseteq Streams /\ handlers \subseteq received
    /\ stest \in {"none", "running", "cancelled", "ended"}
    /\ ctl \in {"quiet", "cancel", "result"}
    /\ env \in [dir : {"upload", "download"}, refused : {{}, Streams}]
    /\ history \in History

\* What tells of a socket of stream i, somewhere in the server, on the network
\* or in the client.
Witness(i) ==
    \/ i \in handlers \/ i \in route.sockets
    \/ \E k \in 1..Len(chan) : chan[k] = i
    \/ disp.st = "made" /\ disp.idx = i
    \/ \E p \in net : p.idx = i /\ p.kind \in {"ack", "data"}
    \/ cstream[i].st = "done"

\* A socket is made at most once, what tells of a socket is right, and while
\* the route is there it or the dispatcher holds every socket that was made.
SocketInv ==
    /\ \A i \in Streams : history.made[i] \in {0, 1}
    /\ \A i \in Streams : Witness(i) => history.made[i] = 1
    /\ disp.st = "making" => history.made[disp.idx] = 0
    /\ route.present => \A i \in Streams :
          history.made[i] = 1 => i \in route.sockets \/ (disp.st = "made" /\ disp.idx = i)

\* How the phases of the client, the test and the route go together.
PhaseInv ==
    /\ cphase = "idle" =>
          /\ ~route.present /\ disp.st = "idle" /\ \A i \in Streams : history.made[i] = 0
          /\ cstream = [i \in Streams |-> [st |-> "send", attempts |-> 0]]
    /\ stest = "running" => route.present
    /\ cphase = "data" => \A i \in Streams : cstream[i].st = "done"
    /\ ctl = "cancel" => cphase \in {"fetch", "failed", "explained"}
    /\ cphase = "handshake" /\ ~history.expired => stest = "running"

Mishaps == history.faults + history.strayed

\* Something of stream i is on its way, still to be answered or read.
Live(i) ==
    \/ \E p \in net : p.idx = i
    \/ sockbuf[i] # {}
    \/ \E k \in 1..Len(hellos) : hellos[k].idx = i
    \/ disp.st = "making" /\ disp.idx = i

Excused == history.expired \/ (env.refused # {} /\ history.errors > 0)

\* Each attempt of a stream cost a mishap, but for the one that is live.
Counted(i) ==
    /\ cstream[i].st = "send" => cstream[i].attempts <= Mishaps
    /\ cstream[i].st = "wait" =>
          cstream[i].attempts <= Mishaps \/ (cstream[i].attempts <= Mishaps + 1 /\ Live(i))

CountInv ==
    /\ cphase = "handshake" /\ ~Excused => \A i \in Streams : Counted(i)
    /\ Failing /\ ~Excused => MaxAttempts <= Mishaps

UdpInv == HelloShape /\ SocketInv /\ PhaseInv /\ CountInv

-----------------------------------------------------------------------------
(* The steps of the hello handshakes *)

LEMMA HistoryFields ==
    ASSUME HelloShape
    PROVE  /\ history.made \in [Streams -> Nat]
           /\ history.errors \in Nat /\ history.strayed \in Nat
           /\ history.expired \in BOOLEAN /\ history.faults \in Nat
           /\ history.faults \in 0..MaxNetFaults
  BY HelloAssumption DEF HelloAssumption, HelloShape, History

\* What a fault does.
LEMMA FaultEffect ==
    ASSUME HelloShape, Fault
    PROVE  /\ history' \in History /\ history'.made = history.made
           /\ history'.errors = history.errors /\ history'.strayed = history.strayed
           /\ history'.expired = history.expired /\ history'.faults = history.faults + 1
<1>1. history \in History
  BY DEF HelloShape
<1>2. history.faults \in Nat /\ history.faults + 1 \in 0..MaxNetFaults
  BY HistoryFields, HelloAssumption DEF HelloAssumption, Fault
<1> QED
  BY <1>1, <1>2 DEF History, Fault

\* What a hello that strays does.
LEMMA StrayEffect ==
    ASSUME HelloShape, history' = [history EXCEPT !.strayed = @ + 1]
    PROVE  /\ history' \in History /\ history'.made = history.made
           /\ history'.errors = history.errors /\ history'.faults = history.faults
           /\ history'.expired = history.expired /\ history'.strayed = history.strayed + 1
<1>1. history \in History
  BY DEF HelloShape
<1>2. history.strayed + 1 \in Nat
  BY HistoryFields
<1> QED
  BY <1>1, <1>2 DEF History

\* The states of the streams: what one of them becomes.
LEMMA StreamFields ==
    ASSUME HelloShape
    PROVE  /\ \A i \in Streams : /\ cstream[i].st \in {"send", "wait", "done"}
                                 /\ cstream[i].attempts \in Nat
                                 /\ cstream[i].attempts <= MaxAttempts
           /\ \A i \in Streams, st \in {"send", "wait", "done"} :
                 LET c == [cstream EXCEPT ![i].st = st]
                 IN  /\ c \in [Streams -> StreamState]
                     /\ c[i].st = st /\ c[i].attempts = cstream[i].attempts
                     /\ \A j \in Streams \ {i} : c[j] = cstream[j]
<1>1. cstream \in [Streams -> StreamState] /\ MaxAttempts \in Nat
  BY HelloAssumption DEF HelloAssumption, HelloShape
<1>2. \A r \in StreamState :
         /\ r.st \in {"send", "wait", "done"} /\ r.attempts \in Nat /\ r.attempts <= MaxAttempts
  BY <1>1 DEF StreamState
<1>3. ASSUME NEW i \in Streams, NEW st \in {"send", "wait", "done"}
      PROVE  LET c == [cstream EXCEPT ![i].st = st]
             IN  /\ c \in [Streams -> StreamState]
                 /\ c[i].st = st /\ c[i].attempts = cstream[i].attempts
                 /\ \A j \in Streams \ {i} : c[j] = cstream[j]
  <2> DEFINE r == [cstream[i] EXCEPT !.st = st]
  <2>1. r \in StreamState /\ r.st = st /\ r.attempts = cstream[i].attempts
    <3>1. cstream[i] \in StreamState
      BY <1>1
    <3> QED
      BY <1>1, <3>1 DEF StreamState
  <2>2. [cstream EXCEPT ![i].st = st] = [cstream EXCEPT ![i] = r]
    OBVIOUS
  <2> HIDE DEF r
  <2> QED
    BY <1>1, <2>1, <2>2
<1> QED
  BY <1>1, <1>2, <1>3

LEMMA HandshakeFailsStep ==
    ASSUME UdpInv, HandshakeFails
    PROVE  UdpInv'
<1> USE HelloAssumption DEF HelloAssumption
<1>1. HelloShape'
  BY DEF UdpInv, HelloShape, Failing, Packet, HandshakeFails, serverHelloVars
<1>2. SocketInv'
  BY DEF UdpInv, HelloShape, SocketInv, PhaseInv, Witness, Packet, HandshakeFails, serverHelloVars
<1>3. PhaseInv'
  BY DEF UdpInv, HelloShape, PhaseInv, SocketInv, Failing, HandshakeFails, serverHelloVars
<1>4. CountInv'
  BY DEF UdpInv, HelloShape, PhaseInv, CountInv, Counted, Excused, Mishaps, Live, Failing, Packet, HandshakeFails, serverHelloVars
<1> QED
  BY <1>1, <1>2, <1>3, <1>4 DEF UdpInv

LEMMA DataStartsStep ==
    ASSUME UdpInv, DataStarts
    PROVE  UdpInv'
<1> USE HelloAssumption DEF HelloAssumption
<1>1. HelloShape'
  BY DEF UdpInv, HelloShape, Failing, Packet, DataStarts, serverHelloVars
<1>2. SocketInv'
  BY DEF UdpInv, HelloShape, SocketInv, PhaseInv, Witness, Packet, DataStarts, serverHelloVars
<1>3. PhaseInv'
  BY DEF UdpInv, HelloShape, PhaseInv, SocketInv, Failing, DataStarts, serverHelloVars
<1>4. CountInv'
  BY DEF UdpInv, HelloShape, PhaseInv, CountInv, Counted, Excused, Mishaps, Live, Failing, Packet, DataStarts, serverHelloVars
<1> QED
  BY <1>1, <1>2, <1>3, <1>4 DEF UdpInv

LEMMA SendSetupCancelStep ==
    ASSUME UdpInv, SendSetupCancel
    PROVE  UdpInv'
<1> USE HelloAssumption DEF HelloAssumption
<1>1. HelloShape'
  BY DEF UdpInv, HelloShape, Failing, Packet, SendSetupCancel, serverHelloVars
<1>2. SocketInv'
  BY DEF UdpInv, HelloShape, SocketInv, PhaseInv, Witness, Packet, SendSetupCancel, serverHelloVars
<1>3. PhaseInv'
  BY DEF UdpInv, HelloShape, PhaseInv, SocketInv, Failing, SendSetupCancel, serverHelloVars
<1>4. CountInv'
  BY DEF UdpInv, HelloShape, PhaseInv, CountInv, Counted, Excused, Mishaps, Live, Failing, Packet, SendSetupCancel, serverHelloVars
<1> QED
  BY <1>1, <1>2, <1>3, <1>4 DEF UdpInv

LEMMA TestEndsStep ==
    ASSUME UdpInv, TestEnds
    PROVE  UdpInv'
<1> USE HelloAssumption DEF HelloAssumption
<1>1. HelloShape'
  BY DEF UdpInv, HelloShape, Failing, Packet, TestEnds, serverHelloVars
<1>2. SocketInv'
  BY DEF UdpInv, HelloShape, SocketInv, PhaseInv, Witness, Packet, TestEnds, serverHelloVars
<1>3. PhaseInv'
  BY DEF UdpInv, HelloShape, PhaseInv, SocketInv, Failing, TestEnds, serverHelloVars
<1>4. CountInv'
  BY DEF UdpInv, HelloShape, PhaseInv, CountInv, Counted, Excused, Mishaps, Live, Failing, Packet, TestEnds, serverHelloVars
<1> QED
  BY <1>1, <1>2, <1>3, <1>4 DEF UdpInv

LEMMA HandlerEndsStep ==
    ASSUME UdpInv, NEW i \in Streams, HandlerEnds(i)
    PROVE  UdpInv'
<1> USE HelloAssumption DEF HelloAssumption
<1>1. HelloShape'
  BY DEF UdpInv, HelloShape, Failing, Packet, HandlerEnds, serverHelloVars
<1>2. SocketInv'
  BY DEF UdpInv, HelloShape, SocketInv, PhaseInv, Witness, Packet, HandlerEnds, serverHelloVars
<1>3. PhaseInv'
  BY DEF UdpInv, HelloShape, PhaseInv, SocketInv, Failing, HandlerEnds, serverHelloVars
<1>4. CountInv'
  BY DEF UdpInv, HelloShape, PhaseInv, CountInv, Counted, Excused, Mishaps, Live, Failing, Packet, HandlerEnds, serverHelloVars
<1> QED
  BY <1>1, <1>2, <1>3, <1>4 DEF UdpInv

LEMMA FetchResultStep ==
    ASSUME UdpInv, FetchResult
    PROVE  UdpInv'
<1>1. HelloShape /\ SocketInv /\ PhaseInv /\ CountInv
  BY DEF UdpInv
<1>2. /\ cphase = "fetch" /\ cphase' \in {"explained", "failed"}
      /\ UNCHANGED <<cstream, net, sockbuf, hellos, disp, route, chan, received, handlers,
                     stest, ctl, env>>
      /\ UNCHANGED history \/ Fault
  BY DEF FetchResult, serverHelloVars
<1>3. /\ history' \in History /\ history'.made = history.made
      /\ history'.errors = history.errors /\ history'.strayed = history.strayed
      /\ history'.expired = history.expired
      /\ history'.faults = history.faults \/ history'.faults = history.faults + 1
  BY <1>1, <1>2, FaultEffect DEF HelloShape
<1>4. HelloShape'
  BY <1>1, <1>2, <1>3 DEF HelloShape, Failing
<1>5. SocketInv' /\ PhaseInv'
  BY <1>1, <1>2, <1>3 DEF SocketInv, Witness, PhaseInv
<1>6. CountInv'
  BY <1>1, <1>2, <1>3, HistoryFields, HelloAssumption
  DEF HelloAssumption, CountInv, Failing, Excused, Mishaps
<1> QED
  BY <1>4, <1>5, <1>6 DEF UdpInv

LEMMA LoseDatagramStep ==
    ASSUME UdpInv, LoseDatagram
    PROVE  UdpInv'
<1>1. HelloShape /\ SocketInv /\ PhaseInv /\ CountInv
  BY DEF UdpInv
<1>2. /\ net' \subseteq net
      /\ UNCHANGED <<cphase, cstream, sockbuf, hellos, disp, route, chan, received, handlers,
                     stest, ctl, env>>
  BY DEF LoseDatagram, serverHelloVars
<1>3. /\ history' \in History /\ history'.made = history.made
      /\ history'.errors = history.errors /\ history'.strayed = history.strayed
      /\ history'.expired = history.expired /\ history'.faults = history.faults + 1
  BY <1>1, FaultEffect DEF LoseDatagram
<1>4. HelloShape'
  BY <1>1, <1>2, <1>3 DEF HelloShape, Failing
<1>5. SocketInv' /\ PhaseInv'
  BY <1>1, <1>2, <1>3 DEF SocketInv, Witness, PhaseInv
<1>6. \A i \in Streams : cstream[i].attempts \in Nat
  BY <1>1, StreamFields
<1>7. CountInv'
  BY <1>1, <1>2, <1>3, <1>6, HistoryFields, HelloAssumption
  DEF HelloAssumption, CountInv, Counted, Failing, Excused, Mishaps
<1> QED
  BY <1>4, <1>5, <1>7 DEF UdpInv

LEMMA CancelTestStep ==
    ASSUME UdpInv, CancelTest
    PROVE  UdpInv'
<1>1. HelloShape /\ SocketInv /\ PhaseInv /\ CountInv
  BY DEF UdpInv
<1>2. /\ stest = "running" /\ stest' = "cancelled"
      /\ UNCHANGED <<cphase, cstream, net, sockbuf, hellos, disp, route, chan, received,
                     handlers, ctl, env>>
      /\ \/ ctl = "cancel" /\ UNCHANGED history
         \/ history' = [history EXCEPT !.expired = TRUE]
  BY DEF CancelTest
<1>3. /\ history' \in History /\ history'.made = history.made
      /\ history'.errors = history.errors /\ history'.strayed = history.strayed
      /\ history'.faults = history.faults
      /\ (history'.expired = history.expired /\ ctl = "cancel") \/ history'.expired = TRUE
  BY <1>1, <1>2 DEF HelloShape, History
<1>4. HelloShape'
  BY <1>1, <1>2, <1>3 DEF HelloShape, Failing
<1>5. SocketInv' /\ PhaseInv'
  BY <1>1, <1>2, <1>3 DEF SocketInv, Witness, PhaseInv
<1>6. CountInv'
  BY <1>1, <1>2, <1>3 DEF CountInv, Counted, Failing, Excused, Mishaps, Live, PhaseInv
<1> QED
  BY <1>4, <1>5, <1>6 DEF UdpInv

LEMMA StartHandshakeStep ==
    ASSUME UdpInv, StartHandshake
    PROVE  UdpInv'
<1>1. HelloShape /\ SocketInv /\ PhaseInv /\ CountInv
  BY DEF UdpInv
<1>2. /\ cphase = "idle" /\ cphase' = "handshake" /\ stest' = "running"
      /\ route' = [route EXCEPT !.present = TRUE]
      /\ env' \in [dir : {"upload", "download"}, refused : {{}, Streams}]
      /\ UNCHANGED <<cstream, net, sockbuf, hellos, disp, chan, received, handlers, ctl,
                     history>>
  BY DEF StartHandshake
<1>3. /\ route' \in [present : BOOLEAN, sockets : SUBSET Streams]
      /\ route'.present /\ route'.sockets = route.sockets
  BY <1>1, <1>2 DEF HelloShape
<1>4. HelloShape'
  BY <1>1, <1>2, <1>3 DEF HelloShape, Failing
<1>5. SocketInv' /\ PhaseInv'
  BY <1>1, <1>2, <1>3 DEF SocketInv, Witness, PhaseInv
<1>6. CountInv'
  BY <1>1, <1>2, HistoryFields DEF CountInv, Counted, Failing, Mishaps, PhaseInv
<1> QED
  BY <1>4, <1>5, <1>6 DEF UdpInv

LEMMA SendHelloStep ==
    ASSUME UdpInv, NEW i \in Streams, SendHello(i)
    PROVE  UdpInv'
<1>1. HelloShape /\ SocketInv /\ PhaseInv /\ CountInv
  BY DEF UdpInv
<1>2. /\ cphase = "handshake" /\ cstream[i].st = "send" /\ cstream[i].attempts < MaxAttempts
      /\ UNCHANGED <<cphase, sockbuf, hellos, disp, route, chan, received, handlers, stest, ctl,
                     env, history>>
  BY DEF SendHello, serverHelloVars
<1>3. /\ cstream' \in [Streams -> StreamState]
      /\ cstream'[i].st = "wait" /\ cstream'[i].attempts = cstream[i].attempts + 1
      /\ \A j \in Streams \ {i} : cstream'[j] = cstream[j]
  <2>1. /\ cstream \in [Streams -> StreamState] /\ MaxAttempts \in Nat
        /\ cstream[i].attempts + 1 \in 0..MaxAttempts
    BY <1>1, <1>2, StreamFields, HelloAssumption DEF HelloAssumption, HelloShape
  <2> DEFINE r == [cstream[i] EXCEPT !.st = "wait", !.attempts = @ + 1]
  <2>2. r \in StreamState /\ r.st = "wait" /\ r.attempts = cstream[i].attempts + 1
    BY <2>1 DEF StreamState
  <2>3. cstream' = [cstream EXCEPT ![i] = r]
    BY DEF SendHello
  <2> HIDE DEF r
  <2> QED
    BY <2>1, <2>2, <2>3
<1>4. PICK h \in Packet : h.kind = "hello" /\ h.idx = i /\ net' = net \cup {h}
  <2>1. Hello(i, cstream[i].attempts + 1) \in Packet
    BY <1>1, StreamFields DEF Hello, Packet
  <2> QED
    BY <2>1 DEF SendHello, Hello
<1>5. HelloShape'
  BY <1>1, <1>2, <1>3, <1>4 DEF HelloShape, Failing
<1>6. SocketInv'
  BY <1>1, <1>2, <1>3, <1>4 DEF SocketInv, Witness
<1>7. PhaseInv'
  BY <1>1, <1>2 DEF PhaseInv
<1>8. ~Excused => \A j \in Streams : Counted(j)'
  <2> SUFFICES ASSUME ~Excused, NEW j \in Streams PROVE Counted(j)'
    OBVIOUS
  <2>1. Counted(j)
    BY <1>1, <1>2 DEF CountInv
  <2>2. CASE j = i
    BY <1>1, <1>2, <1>3, <1>4, <2>1, <2>2, HistoryFields, StreamFields
    DEF Counted, Mishaps, Live
  <2>3. CASE j # i
    BY <1>2, <1>3, <1>4, <2>1, <2>3 DEF Counted, Mishaps, Live
  <2> QED
    BY <2>2, <2>3
<1>9. CountInv'
  BY <1>2, <1>8 DEF CountInv, Failing, Excused
<1> QED
  BY <1>5, <1>6, <1>7, <1>9 DEF UdpInv

LEMMA PeekReplyStep ==
    ASSUME UdpInv, NEW i \in Streams, PeekReply(i)
    PROVE  UdpInv'
<1>1. HelloShape /\ SocketInv /\ PhaseInv /\ CountInv
  BY DEF UdpInv
<1>2. /\ cphase = "handshake"
      /\ UNCHANGED <<cphase, sockbuf, hellos, disp, route, chan, received, handlers, stest, ctl,
                     env, history>>
      /\ \E p \in net : p.idx = i /\ p.kind \in {"ack", "data"} /\ net' \in {net, net \ {p}}
  BY DEF PeekReply, serverHelloVars, Ack, Data
<1>3. /\ cstream' \in [Streams -> StreamState]
      /\ cstream'[i].st = "done" /\ \A j \in Streams \ {i} : cstream'[j] = cstream[j]
  BY <1>1, StreamFields DEF PeekReply
<1>4. history.made[i] = 1
  BY <1>1, <1>2 DEF SocketInv, Witness
<1>5. HelloShape'
  BY <1>1, <1>2, <1>3 DEF HelloShape, Failing
<1>6. SocketInv'
  BY <1>1, <1>2, <1>3, <1>4 DEF SocketInv, Witness
<1>7. PhaseInv'
  BY <1>1, <1>2 DEF PhaseInv
<1>8. ~Excused => \A j \in Streams : Counted(j)'
  BY <1>1, <1>2, <1>3 DEF CountInv, Counted, Mishaps, Live
<1>9. CountInv'
  BY <1>2, <1>8 DEF CountInv, Failing, Excused
<1> QED
  BY <1>5, <1>6, <1>7, <1>9 DEF UdpInv

LEMMA RetryTimerStep ==
    ASSUME UdpInv, NEW i \in Streams, RetryTimer(i)
    PROVE  UdpInv'
<1>1. HelloShape /\ SocketInv /\ PhaseInv /\ CountInv
  BY DEF UdpInv
<1>2. /\ cphase = "handshake" /\ cstream[i].st = "wait"
      /\ UNCHANGED <<cphase, net, sockbuf, hellos, disp, route, chan, received, handlers, stest,
                     ctl, env>>
      /\ IF InFlight(i) THEN Fault ELSE UNCHANGED history
  BY DEF RetryTimer, serverHelloVars
<1>3. /\ cstream' \in [Streams -> StreamState]
      /\ cstream'[i].st = "send" /\ cstream'[i].attempts = cstream[i].attempts
      /\ \A j \in Streams \ {i} : cstream'[j] = cstream[j]
  BY <1>1, StreamFields DEF RetryTimer
<1>4. /\ history' \in History /\ history'.made = history.made
      /\ history'.errors = history.errors /\ history'.strayed = history.strayed
      /\ history'.expired = history.expired
      /\ IF InFlight(i) THEN history'.faults = history.faults + 1
                        ELSE history'.faults = history.faults
  BY <1>1, <1>2, FaultEffect DEF HelloShape
<1>5. HelloShape'
  BY <1>1, <1>2, <1>3, <1>4 DEF HelloShape, Failing
<1>6. SocketInv'
  BY <1>1, <1>2, <1>3, <1>4 DEF SocketInv, Witness
<1>7. PhaseInv'
  BY <1>1, <1>2, <1>4 DEF PhaseInv
<1>8. ~Excused => \A j \in Streams : Counted(j)'
  <2> SUFFICES ASSUME ~Excused, NEW j \in Streams PROVE Counted(j)'
    OBVIOUS
  <2>1. Counted(j) /\ stest = "running"
    BY <1>1, <1>2 DEF CountInv, PhaseInv, Excused
  <2>2. Live(j) => InFlight(j)
    BY <1>1, <2>1 DEF Live, InFlight, HelloShape
  <2>3. CASE j = i
    BY <1>1, <1>2, <1>3, <1>4, <2>1, <2>2, <2>3, HistoryFields, StreamFields
    DEF Counted, Mishaps
  <2>4. CASE j # i
    BY <1>1, <1>2, <1>3, <1>4, <2>1, <2>4, HistoryFields, StreamFields
    DEF Counted, Mishaps, Live
  <2> QED
    BY <2>3, <2>4
<1>9. CountInv'
  BY <1>2, <1>4, <1>8 DEF CountInv, Failing, Excused
<1> QED
  BY <1>5, <1>6, <1>7, <1>9 DEF UdpInv

LEMMA ReackStep ==
    ASSUME UdpInv, NEW i \in Streams, Reack(i)
    PROVE  UdpInv'
<1>1. HelloShape /\ SocketInv /\ PhaseInv /\ CountInv
  BY DEF UdpInv
<1>2. /\ i \in handlers
      /\ UNCHANGED <<cphase, cstream, hellos, disp, route, chan, received, handlers, stest, ctl,
                     env, history>>
      /\ \E p : sockbuf' = [sockbuf EXCEPT ![i] = @ \ {p}]
  BY DEF Reack, serverHelloVars
<1>3. /\ sockbuf' \in [Streams -> SUBSET Packet]
      /\ \A j \in Streams \ {i} : sockbuf'[j] = sockbuf[j]
  BY <1>1, <1>2 DEF HelloShape
<1>4. PICK a \in Packet : a.kind = "ack" /\ a.idx = i /\ net' = net \cup {a}
  BY DEF Reack, Ack, Packet
<1>5. HelloShape'
  BY <1>1, <1>2, <1>3, <1>4 DEF HelloShape, Failing
<1>6. SocketInv'
  BY <1>1, <1>2, <1>4 DEF SocketInv, Witness
<1>7. PhaseInv'
  BY <1>1, <1>2 DEF PhaseInv
<1>8. \A j \in Streams : Live(j) => Live(j)'
  BY <1>2, <1>3, <1>4 DEF Live
<1>9. CountInv'
  BY <1>1, <1>2, <1>8 DEF CountInv, Counted, Failing, Excused, Mishaps
<1> QED
  BY <1>5, <1>6, <1>7, <1>9 DEF UdpInv

LEMMA SendDataStep ==
    ASSUME UdpInv, NEW i \in Streams, SendData(i)
    PROVE  UdpInv'
<1>1. HelloShape /\ SocketInv /\ PhaseInv /\ CountInv
  BY DEF UdpInv
<1>2. /\ i \in handlers
      /\ UNCHANGED <<cphase, cstream, sockbuf, hellos, disp, route, chan, received, handlers,
                     stest, ctl, env, history>>
  BY DEF SendData, serverHelloVars
<1>3. PICK d \in Packet : d.kind = "data" /\ d.idx = i /\ net' = net \cup {d}
  BY DEF SendData, Data, Packet
<1>4. HelloShape'
  BY <1>1, <1>2, <1>3 DEF HelloShape, Failing
<1>5. SocketInv'
  BY <1>1, <1>2, <1>3 DEF SocketInv, Witness
<1>6. PhaseInv'
  BY <1>1, <1>2 DEF PhaseInv
<1>7. CountInv'
  BY <1>1, <1>2, <1>3 DEF CountInv, Counted, Failing, Excused, Mishaps, Live
<1> QED
  BY <1>4, <1>5, <1>6, <1>7 DEF UdpInv

\* What is left of a queue after its head was taken.
LEMMA TailFacts ==
    ASSUME NEW S, NEW q \in Seq(S), q # <<>>
    PROVE  /\ Head(q) \in S /\ Head(q) = q[1] /\ Tail(q) \in Seq(S)
           /\ Len(q) \in Nat /\ 1 \in 1..Len(q) /\ Len(Tail(q)) = Len(q) - 1
           /\ \A k \in 1..Len(Tail(q)) : k + 1 \in 1..Len(q) /\ Tail(q)[k] = q[k + 1]
           /\ \A k \in 1..Len(q) : k = 1 \/ (k - 1 \in 1..Len(Tail(q)) /\ Tail(q)[k - 1] = q[k])
<1>1. /\ Head(q) \in S /\ Tail(q) \in Seq(S) /\ Len(Tail(q)) = Len(q) - 1
      /\ \A k \in 1..Len(Tail(q)) : Tail(q)[k] = q[k + 1]
  BY HeadTailProperties
<1>2. Len(q) \in Nat \ {0} /\ Head(q) = q[1]
  OBVIOUS
<1> QED
  BY <1>1, <1>2

LEMMA DispatchStep ==
    ASSUME UdpInv, Dispatch
    PROVE  UdpInv'
<1>1. HelloShape /\ SocketInv /\ PhaseInv /\ CountInv
  BY DEF UdpInv
<1> DEFINE i == Head(hellos).idx
<1>2. /\ disp.st = "idle" /\ hellos # <<>> /\ hellos' = Tail(hellos)
      /\ UNCHANGED <<cphase, cstream, sockbuf, route, chan, received, handlers, stest, ctl, env,
                     history>>
  BY DEF Dispatch
<1>3. /\ Head(hellos) \in Packet /\ hellos' \in Seq(Packet) /\ i \in Streams
      /\ Len(hellos') = Len(hellos) - 1 /\ Len(hellos) \in Nat
      /\ Head(hellos) = hellos[1]
      /\ \A k \in 1..Len(hellos) :
            k = 1 \/ (k - 1 \in 1..Len(hellos') /\ hellos'[k - 1] = hellos[k])
  <2>1. hellos \in Seq(Packet)
    BY <1>1 DEF HelloShape
  <2>2. \A p \in Packet : p.idx \in Streams
    BY DEF Packet
  <2> QED
    BY <1>2, <2>1, <2>2, TailFacts
<1>4. \/ /\ route.present /\ i \notin route.sockets
         /\ disp' = [st |-> "making", idx |-> i] /\ UNCHANGED net
      \/ /\ i \in route.sockets
         /\ net' = net \cup {Ack(i)} /\ UNCHANGED disp
      \/ ~route.present /\ UNCHANGED <<net, disp>>
  BY DEF Dispatch, check_udp_hello
<1>5. Ack(i) \in Packet /\ Ack(i).kind = "ack" /\ Ack(i).idx = i
  BY <1>3 DEF Ack, Packet
<1> HIDE DEF i
<1>6. HelloShape'
  <2>1. disp' \in [st : {"idle"}] \cup [st : {"making", "made"}, idx : Streams]
    BY <1>1, <1>3, <1>4 DEF HelloShape
  <2>2. net' \subseteq Packet /\ Len(hellos') <= HelloCap
    BY <1>1, <1>3, <1>4, <1>5, HelloAssumption DEF HelloAssumption, HelloShape
  <2> QED
    BY <1>1, <1>2, <1>3, <2>1, <2>2 DEF HelloShape, Failing
<1>7. SocketInv' /\ PhaseInv'
  <2>1. CASE route.present /\ i \notin route.sockets
             /\ disp' = [st |-> "making", idx |-> i] /\ UNCHANGED net
    <3>1. history.made[i] = 0
      BY <1>1, <1>2, <1>3, <2>1 DEF SocketInv
    <3> QED
      BY <1>1, <1>2, <1>3, <2>1, <3>1 DEF SocketInv, PhaseInv, Witness
  <2>2. CASE i \in route.sockets /\ net' = net \cup {Ack(i)} /\ UNCHANGED disp
    BY <1>1, <1>2, <1>5, <2>2 DEF SocketInv, PhaseInv, Witness
  <2>3. CASE UNCHANGED <<net, disp>>
    BY <1>1, <1>2, <2>3 DEF SocketInv, PhaseInv, Witness
  <2> QED
    BY <1>4, <2>1, <2>2, <2>3
<1>8. cphase = "handshake" /\ ~Excused => \A j \in Streams : Live(j) => Live(j)'
  <2> SUFFICES ASSUME cphase = "handshake", ~Excused, NEW j \in Streams, Live(j)
               PROVE  Live(j)'
    OBVIOUS
  <2>1. route.present
    BY <1>1 DEF PhaseInv, Excused
  <2>2. CASE \E k \in 1..Len(hellos) : hellos[k].idx = j
    <3>1. CASE j = i
      BY <1>4, <1>5, <2>1, <3>1 DEF Live
    <3>2. CASE j # i
      BY <1>3, <2>2, <3>2 DEF Live, i
    <3> QED
      BY <3>1, <3>2
  <2>3. CASE (\E p \in net : p.idx = j) \/ sockbuf[j] # {}
    BY <1>2, <1>4, <2>3 DEF Live
  <2> QED
    BY <1>2, <2>2, <2>3 DEF Live
<1>9. CountInv'
  BY <1>1, <1>2, <1>8 DEF CountInv, Counted, Failing, Excused, Mishaps
<1> QED
  BY <1>6, <1>7, <1>9 DEF UdpInv

LEMMA MakeSocketStep ==
    ASSUME UdpInv, MakeSocket
    PROVE  UdpInv'
<1>1. HelloShape /\ SocketInv /\ PhaseInv /\ CountInv
  BY DEF UdpInv
<1> DEFINE i == disp.idx
<1>2. /\ disp.st = "making" /\ i \in Streams
      /\ UNCHANGED <<cphase, cstream, hellos, route, chan, received, handlers, stest, ctl, env>>
  BY <1>1 DEF MakeSocket, HelloShape
<1>3. Ack(i) \in Packet /\ Ack(i).kind = "ack" /\ Ack(i).idx = i
  BY <1>2 DEF Ack, Packet
<1>4. history.made[i] = 0
  BY <1>1, <1>2 DEF SocketInv
<1>5. history \in History /\ history.made \in [Streams -> Nat] /\ history.errors + 1 \in Nat
      /\ history.errors \in Nat /\ history.faults \in Nat /\ history.strayed \in Nat
  BY <1>1, HistoryFields DEF HelloShape
<1>6. CASE i \in env.refused
  <2>1. /\ history' = [history EXCEPT !.errors = @ + 1] /\ disp' = [st |-> "idle"]
        /\ sockbuf' = [sockbuf EXCEPT ![i] = {}] /\ UNCHANGED net
    BY <1>6 DEF MakeSocket
  <2>2. /\ history' \in History /\ history'.made = history.made
        /\ history'.errors = history.errors + 1 /\ history'.expired = history.expired
    BY <1>5, <2>1 DEF History
  <2>3. HelloShape'
    BY <1>1, <1>2, <2>1, <2>2 DEF HelloShape, Failing
  <2>4. SocketInv' /\ PhaseInv'
    BY <1>1, <1>2, <2>1, <2>2 DEF SocketInv, PhaseInv, Witness
  <2>5. Excused'
    BY <1>2, <1>5, <1>6, <2>2 DEF Excused
  <2>6. CountInv'
    BY <2>5 DEF CountInv
  <2> QED
    BY <2>3, <2>4, <2>6 DEF UdpInv
<1>7. CASE i \notin env.refused
  <2>1. /\ disp' = [disp EXCEPT !.st = "made"] /\ UNCHANGED sockbuf
        /\ \/ /\ net' = net \cup {Ack(i)}
              /\ history' = [history EXCEPT !.made[i] = @ + 1]
           \/ /\ history.faults < MaxNetFaults /\ UNCHANGED net
              /\ history' = [history EXCEPT !.made[i] = @ + 1, !.errors = @ + 1,
                                            !.faults = @ + 1]
    BY <1>7 DEF MakeSocket
  <2>2. /\ disp' \in [st : {"making", "made"}, idx : Streams]
        /\ disp'.st = "made" /\ disp'.idx = i
    <3>1. disp \in [st : {"making", "made"}, idx : Streams]
      BY <1>1, <1>2 DEF HelloShape
    <3> QED
      BY <2>1, <3>1
  <2>3. /\ history' \in History /\ history'.made[i] = 1
        /\ \A j \in Streams \ {i} : history'.made[j] = history.made[j]
        /\ history'.expired = history.expired /\ history'.strayed = history.strayed
        /\ history'.errors \in {history.errors, history.errors + 1}
        /\ history'.faults = history.faults \/ history'.faults = history.faults + 1
        /\ Ack(i) \in net' \/ history'.faults = history.faults + 1
    <3> DEFINE m == [history.made EXCEPT ![i] = @ + 1]
    <3>1. m \in [Streams -> Nat] /\ m[i] = 1 /\ \A j \in Streams \ {i} : m[j] = history.made[j]
      BY <1>2, <1>4, <1>5
    <3> HIDE DEF m
    <3>2. CASE net' = net \cup {Ack(i)} /\ history' = [history EXCEPT !.made = m]
      BY <1>5, <3>1, <3>2 DEF History
    <3>3. CASE /\ history.faults < MaxNetFaults
               /\ history' = [history EXCEPT !.made = m, !.errors = @ + 1, !.faults = @ + 1]
      <4>1. history.faults + 1 \in 0..MaxNetFaults
        BY <1>5, <3>3, HelloAssumption DEF HelloAssumption
      <4> QED
        BY <1>5, <3>1, <3>3, <4>1 DEF History
    <3> QED
      BY <2>1, <3>2, <3>3 DEF m
  <2>4. HelloShape'
    BY <1>1, <1>2, <1>3, <2>1, <2>2, <2>3 DEF HelloShape, Failing
  <2>5. SocketInv' /\ PhaseInv'
    BY <1>1, <1>2, <1>3, <2>1, <2>2, <2>3 DEF SocketInv, PhaseInv, Witness
  <2>6. cphase = "handshake" /\ ~Excused' => \A j \in Streams : Counted(j)'
    <3> SUFFICES ASSUME cphase = "handshake", ~Excused', NEW j \in Streams
                 PROVE  Counted(j)'
      OBVIOUS
    <3>1. Counted(j)
      BY <1>1, <1>2, <1>5, <2>3 DEF CountInv, Excused
    <3>2. Live(j)' \/ ~Live(j) \/ history'.faults = history.faults + 1
      BY <1>2, <1>3, <2>1, <2>3 DEF Live
    <3> QED
      BY <1>1, <1>2, <1>5, <2>3, <3>1, <3>2, StreamFields DEF Counted, Mishaps
  <2>7. CountInv'
    BY <1>1, <1>2, <1>5, <2>3, <2>6, HelloAssumption
    DEF HelloAssumption, CountInv, Failing, Excused, Mishaps
  <2> QED
    BY <2>4, <2>5, <2>7 DEF UdpInv
<1> QED
  BY <1>6, <1>7

LEMMA StoreSocketStep ==
    ASSUME UdpInv, StoreSocket
    PROVE  UdpInv'
<1>1. HelloShape /\ SocketInv /\ PhaseInv /\ CountInv
  BY DEF UdpInv
<1> DEFINE i == disp.idx
<1>2. /\ disp.st = "made" /\ i \in Streams /\ disp' = [st |-> "idle"]
      /\ UNCHANGED <<cphase, cstream, net, sockbuf, hellos, received, handlers, stest, ctl, env,
                     history>>
  BY <1>1 DEF StoreSocket, HelloShape
<1>3. history.made[i] = 1
  BY <1>1, <1>2 DEF SocketInv, Witness
<1>4. /\ route' \in [present : BOOLEAN, sockets : SUBSET Streams]
      /\ route'.present = route.present
      /\ route'.sockets \subseteq route.sockets \cup {i}
      /\ route.present => i \in route'.sockets /\ route.sockets \subseteq route'.sockets
  <2>1. route \in [present : BOOLEAN, sockets : SUBSET Streams]
    BY <1>1 DEF HelloShape
  <2>2. \/ route' = [route EXCEPT !.sockets = @ \cup {i}]
        \/ ~route.present /\ UNCHANGED route
    BY DEF StoreSocket
  <2> QED
    BY <1>2, <2>1, <2>2
<1>5. chan' \in Seq(Streams) /\ \A k \in 1..Len(chan') : chan'[k] = i \/ \E l \in 1..Len(chan) : chan'[k] = chan[l]
  <2>1. chan \in Seq(Streams) /\ (chan' = Append(chan, i) \/ UNCHANGED chan)
    BY <1>1 DEF HelloShape, StoreSocket
  <2> QED
    BY <1>2, <2>1, AppendProperties, LenProperties
<1> HIDE DEF i
<1>6. HelloShape'
  BY <1>1, <1>2, <1>4, <1>5 DEF HelloShape, Failing
<1>7. SocketInv'
  BY <1>1, <1>2, <1>3, <1>4, <1>5 DEF SocketInv, Witness, i
<1>8. PhaseInv'
  BY <1>1, <1>2, <1>4 DEF PhaseInv
<1>9. CountInv'
  BY <1>1, <1>2 DEF CountInv, Counted, Failing, Excused, Mishaps, Live
<1> QED
  BY <1>6, <1>7, <1>8, <1>9 DEF UdpInv

LEMMA CollectSocketStep ==
    ASSUME UdpInv, CollectSocket
    PROVE  UdpInv'
<1>1. HelloShape /\ SocketInv /\ PhaseInv /\ CountInv
  BY DEF UdpInv
<1> DEFINE i == Head(chan)
<1>2. /\ chan # <<>> /\ chan' = Tail(chan) /\ received' = received \cup {i}
      /\ handlers' \in {handlers, handlers \cup {i}}
      /\ UNCHANGED <<cphase, cstream, net, sockbuf, hellos, disp, route, stest, ctl, env, history>>
  BY DEF CollectSocket
<1>3. /\ i \in Streams /\ chan' \in Seq(Streams) /\ i = chan[1] /\ 1 \in 1..Len(chan)
      /\ \A k \in 1..Len(chan') : k + 1 \in 1..Len(chan) /\ chan'[k] = chan[k + 1]
  BY <1>1, <1>2, TailFacts DEF HelloShape
<1> HIDE DEF i
<1>4. history.made[i] = 1
  BY <1>1, <1>3 DEF SocketInv, Witness
<1>5. HelloShape'
  BY <1>1, <1>2, <1>3 DEF HelloShape, Failing
<1>6. SocketInv'
  BY <1>1, <1>2, <1>3, <1>4 DEF SocketInv, Witness
<1>7. PhaseInv' /\ CountInv'
  BY <1>1, <1>2 DEF PhaseInv, CountInv, Counted, Failing, Excused, Mishaps, Live
<1> QED
  BY <1>5, <1>6, <1>7 DEF UdpInv

LEMMA HelloArrivesStep ==
    ASSUME UdpInv, NEW p \in net, HelloArrives(p)
    PROVE  UdpInv'
<1>1. HelloShape /\ SocketInv /\ PhaseInv /\ CountInv
  BY DEF UdpInv
<1>2. /\ p.kind = "hello" /\ p \in Packet /\ p.idx \in Streams /\ net' = net \ {p}
      /\ UNCHANGED <<cphase, cstream, disp, route, chan, received, handlers, stest, ctl, env>>
      /\ disp.st = "making" => disp.idx \in Streams
  BY <1>1 DEF HelloArrives, HelloShape, Packet
<1>3. \/ /\ sockbuf' = [sockbuf EXCEPT ![p.idx] = @ \cup {p}]
         /\ UNCHANGED <<hellos, history>>
      \/ /\ Len(hellos) < HelloCap /\ hellos' = Append(hellos, p)
         /\ UNCHANGED <<sockbuf, history>>
      \/ /\ history' = [history EXCEPT !.strayed = @ + 1]
         /\ UNCHANGED hellos
         /\ \/ UNCHANGED sockbuf
            \/ disp.st = "making" /\ sockbuf' = [sockbuf EXCEPT ![disp.idx] = @ \cup {p}]
  BY DEF HelloArrives, Divert
<1>4. /\ sockbuf \in [Streams -> SUBSET Packet] /\ hellos \in Seq(Packet) /\ Len(hellos) \in Nat
      /\ Len(hellos) <= HelloCap /\ history \in History
  BY <1>1, LenProperties DEF HelloShape
<1>5. /\ sockbuf' \in [Streams -> SUBSET Packet]
      /\ \A j \in Streams : sockbuf[j] \subseteq sockbuf'[j]
  BY <1>2, <1>3, <1>4
<1>6. /\ hellos' \in Seq(Packet) /\ Len(hellos') <= HelloCap
      /\ \A k \in 1..Len(hellos) : k \in 1..Len(hellos') /\ hellos'[k] = hellos[k]
  <2>1. CASE UNCHANGED hellos
    BY <1>4, <2>1
  <2>2. CASE Len(hellos) < HelloCap /\ hellos' = Append(hellos, p)
    BY <1>2, <1>4, <2>2, AppendProperties, HelloAssumption DEF HelloAssumption
  <2> QED
    BY <1>3, <2>1, <2>2
<1>7. /\ history' \in History /\ history'.made = history.made
      /\ history'.errors = history.errors /\ history'.faults = history.faults
      /\ history'.expired = history.expired
      /\ history'.strayed = history.strayed \/ history'.strayed = history.strayed + 1
  BY <1>1, <1>3, <1>4, StrayEffect
<1>8. HelloShape'
  BY <1>1, <1>2, <1>5, <1>6, <1>7 DEF HelloShape, Failing
<1>9. SocketInv' /\ PhaseInv'
  BY <1>1, <1>2, <1>7 DEF SocketInv, Witness, PhaseInv
<1>10. \/ \A j \in Streams : Live(j) => Live(j)'
       \/ history'.strayed = history.strayed + 1
  <2>1. CASE history' = [history EXCEPT !.strayed = @ + 1]
    BY <1>1, <2>1, StrayEffect
  <2>2. CASE sockbuf' = [sockbuf EXCEPT ![p.idx] = @ \cup {p}]
    <3>1. sockbuf'[p.idx] # {}
      BY <1>2, <1>4, <2>2
    <3> QED
      BY <1>2, <1>5, <1>6, <3>1 DEF Live
  <2>3. CASE hellos' = Append(hellos, p)
    <3>1. Len(hellos) + 1 \in 1..Len(hellos') /\ hellos'[Len(hellos) + 1] = p
      BY <1>2, <1>4, <2>3, AppendProperties
    <3> QED
      BY <1>2, <1>5, <1>6, <3>1 DEF Live
  <2> QED
    BY <1>3, <2>1, <2>2, <2>3
<1>11. CountInv'
  <2>1. cphase = "handshake" /\ ~Excused => \A j \in Streams : Counted(j)'
    <3> SUFFICES ASSUME cphase = "handshake", ~Excused, NEW j \in Streams PROVE Counted(j)'
      OBVIOUS
    <3>1. Counted(j)
      BY <1>1 DEF CountInv
    <3> QED
      BY <1>1, <1>2, <1>7, <1>10, <3>1, HistoryFields, StreamFields DEF Counted, Mishaps
  <2> QED
    BY <1>1, <1>2, <1>7, <2>1, HistoryFields, HelloAssumption
    DEF HelloAssumption, CountInv, Failing, Excused, Mishaps
<1> QED
  BY <1>8, <1>9, <1>11 DEF UdpInv

LEMMA UdpInvInit == Init => UdpInv
<1> SUFFICES ASSUME HelloInit PROVE UdpInv
  BY DEF Init
<1>1. HelloShape
  <2>1. history \in History
    BY HelloAssumption DEF HelloAssumption, HelloInit, History
  <2>2. cstream \in [Streams -> StreamState]
    BY HelloAssumption DEF HelloAssumption, HelloInit, StreamState
  <2> QED
    BY <2>1, <2>2, HelloAssumption DEF HelloAssumption, HelloInit, HelloShape
<1>2. SocketInv /\ PhaseInv /\ CountInv
  BY DEF HelloInit, SocketInv, Witness, PhaseInv, CountInv, Failing
<1> QED
  BY <1>1, <1>2 DEF UdpInv

LEMMA UdpInvStep == UdpInv /\ [Next]_vars => UdpInv'
<1> SUFFICES ASSUME UdpInv, [Next]_vars PROVE UdpInv'
  OBVIOUS
<1>1. CASE UNCHANGED helloVars
  BY <1>1 DEF helloVars, UdpInv, HelloShape, Failing, SocketInv, Witness, PhaseInv, CountInv,
              Counted, Excused, Mishaps, Live
<1>2. CASE HelloSteps
  BY <1>2, HandshakeFailsStep, DataStartsStep, SendSetupCancelStep, FetchResultStep,
     DispatchStep, MakeSocketStep, StoreSocketStep, CollectSocketStep, CancelTestStep,
     TestEndsStep, LoseDatagramStep, SendHelloStep, PeekReplyStep, RetryTimerStep, ReackStep,
     SendDataStep, HandlerEndsStep, HelloArrivesStep
  DEF HelloSteps
<1>3. CASE StartHandshake
  BY <1>3, StartHandshakeStep
<1> QED
  BY <1>1, <1>2, <1>3
  DEF Next, vars, Shake, StartUdpStreams, Hellos, UdpSetupFails, StartMtuProbe, Probing,
      TestTimeUp, ProbeDone

LEMMA UdpInvariant == Spec => []UdpInv
  BY UdpInvInit, UdpInvStep, PTL DEF Spec

(***************************************************************************)
(* A stream never has two server sockets, and a client that sends finds one  *)
(* for each of its streams: for any number of streams, attempts, lost        *)
(* packets and premature timers (serve.rs spawn_udp_hello_dispatcher).       *)
(***************************************************************************)
THEOREM OneSocketPerStream == Spec => []StreamsHaveSockets
<1>1. UdpInv => StreamsHaveSockets
  <2> SUFFICES ASSUME UdpInv PROVE StreamsHaveSockets
    OBVIOUS
  <2>1. \A i \in Streams : history.made[i] <= 1
    BY DEF UdpInv, SocketInv
  <2>2. ASSUME cphase = "data", stest = "running", NEW i \in Streams PROVE SocketOpen(i)
    <3>1. history.made[i] = 1 /\ route.present
      BY <2>2 DEF UdpInv, SocketInv, PhaseInv, Witness
    <3> QED
      BY <3>1 DEF UdpInv, SocketInv, SocketOpen
  <2> QED
    BY <2>1, <2>2 DEF StreamsHaveSockets
<1> QED
  BY <1>1, UdpInvariant, PTL

(***************************************************************************)
(* A setup that fails had a reason: for any number of streams and attempts,  *)
(* a stream gives up only after as many mishaps as it has attempts, unless   *)
(* the server refused its sockets, which it then counted, or the test was    *)
(* over (udp.rs single_port_udp_handshake, client.rs                         *)
(* cancel_and_fetch_server_udp_send_errors).                                 *)
(***************************************************************************)
THEOREM FailureHasReason == Spec => []SetupFailsForAReason
<1>1. UdpInv => SetupFailsForAReason
  <2> SUFFICES ASSUME UdpInv PROVE SetupFailsForAReason
    OBVIOUS
  <2>1. Failing /\ ~Excused => MaxAttempts <= Mishaps
    BY DEF UdpInv, CountInv
  <2>2. /\ history.errors \in Nat /\ history.strayed \in Nat /\ history.faults \in Nat
        /\ MaxAttempts \in Nat
    BY HistoryFields, HelloAssumption DEF UdpInv, HelloAssumption
  <2> QED
    BY <2>1, <2>2 DEF SetupFailsForAReason, Failing, Excused, Mishaps
<1> QED
  BY <1>1, UdpInvariant, PTL

-----------------------------------------------------------------------------
(* ------------------------------ The MTU probe -------------------------- *)

MinSize == min_probe_payload(path.ipv6)
MaxSize == max_probe_payload(path.ipv6)
Ladder == size_ladder(path.ipv6)
ReverseLimit == Carried(path.rev)

Testing == probe.phase \in {"send", "wait", "verdict"}

\* The verdicts so far are the path's own.
Exact == faults < PROBES_PER_SIZE /\ responder

Tries == 0..PROBES_PER_SIZE
Echoes == 0..1

ProbeState ==
    [phase : ProbePhases, size : Nat, attempts : Tries, seq : Nat,
     forward_ok : Tries, reverse_ok : Echoes, got_ack : BOOLEAN, local : BOOLEAN]

SearchState ==
    [ladder : {Ladder}, ladder_idx : Nat, low : Nat, high : Nat, in_binary : BOOLEAN,
     pending : Nat]

ProbePacket == [kind : {"probe", "ack", "echo"}, seq : Nat, size : Nat]

ProbeShape ==
    /\ path.local \in Nat /\ path.fwd \in Nat /\ path.rev \in Nat /\ path.budget \in Nat
    /\ path.ipv6 \in BOOLEAN /\ path.df \in BOOLEAN
    /\ search \in SearchState /\ probe \in ProbeState /\ reverseMax \in Nat
    /\ pnet \subseteq ProbePacket
    /\ responder \in BOOLEAN /\ faults \in Nat /\ faults <= path.budget
    /\ probe.phase = "idle" =>
          /\ pnet = {} /\ reverseMax = NoSize /\ faults = 0 /\ probe = IdleProbe
          /\ search = NewSearch(path.ipv6)

\* The bracket: what passed is within the limit, what failed is beyond it while
\* the verdicts are exact, and the rungs below `ladder_idx` have been tried.
BracketInv ==
    /\ search.low = NoSize \/ search.low \in MinSize..MaxSize
    /\ search.high = NoSize \/ search.high \in MinSize..MaxSize
    /\ search.low <= ForwardLimit
    /\ reverseMax <= search.low /\ reverseMax <= ReverseLimit
    /\ Exact /\ search.high # NoSize => search.high > ForwardLimit

RungsInv ==
    /\ search.ladder_idx \in 1..(Len(Ladder) + 1)
    /\ search.in_binary => search.ladder_idx = Len(Ladder) + 1
    /\ search.ladder_idx = 1 => search.low = NoSize /\ search.high = NoSize
    /\ search.ladder_idx > 1 /\ search.high = NoSize =>
          search.low >= Ladder[search.ladder_idx - 1]
    /\ search.ladder_idx > 1 /\ search.low = NoSize => search.high = MinSize

\* The size in hand: what its replies prove, and what its attempts cost.
SizeInv ==
    /\ probe.got_ack => probe.phase = "wait"
    /\ Testing =>
          /\ probe.size \in MinSize..MaxSize
          /\ ~search.in_binary => /\ search.ladder_idx <= Len(Ladder)
                                  /\ probe.size = Ladder[search.ladder_idx]
          /\ probe.got_ack \/ probe.forward_ok > 0 => probe.size <= ForwardLimit
          /\ probe.reverse_ok > 0 => probe.size <= path.rev /\ probe.forward_ok > 0
          /\ probe.local => path.df /\ probe.size > path.local
    /\ probe.phase = "send" => /\ probe.reverse_ok = 0 /\ probe.attempts < PROBES_PER_SIZE
                               /\ probe.forward_ok <= probe.attempts /\ ~probe.local
    /\ probe.phase = "wait" => /\ probe.reverse_ok = 0 /\ ~probe.local
                               /\ probe.forward_ok < probe.attempts
    /\ probe.phase = "verdict" =>
          probe.local \/ probe.reverse_ok > 0 \/ probe.attempts = PROBES_PER_SIZE

PacketsInv ==
    \A pkt \in pnet :
        /\ pkt.size \in MinSize..MaxSize /\ pkt.size <= ForwardLimit
        /\ pkt.kind = "echo" => pkt.size <= path.rev
        /\ pkt.seq <= probe.seq
        /\ probe.phase = "wait" /\ pkt.seq = probe.seq => pkt.size = probe.size

\* An attempt of a size that the path carries fails only by a fault.
AttemptsInv ==
    responder /\ Testing /\ probe.size <= ForwardLimit /\ probe.forward_ok = 0 =>
        \/ probe.attempts <= faults
        \/ /\ probe.phase = "wait" /\ probe.attempts <= faults + 1
           /\ probe.got_ack \/ \E pkt \in pnet : pkt.seq = probe.seq

DoneInv == probe.phase = "done" /\ Exact => search.low = ForwardLimit

MtuInv == ProbeShape /\ BracketInv /\ RungsInv /\ SizeInv /\ PacketsInv /\ AttemptsInv /\ DoneInv
LEMMA LadderFacts ==
    ASSUME NEW v6 \in BOOLEAN
    PROVE  LET n == Len(size_ladder(v6))
           IN  /\ n \in Nat \ {0}
               /\ \A k \in 1..n : size_ladder(v6)[k] \in min_probe_payload(v6)..max_probe_payload(v6)
               /\ size_ladder(v6)[1] = min_probe_payload(v6)
               /\ size_ladder(v6)[n] = max_probe_payload(v6)
<1> DEFINE payload == [i \in 1..7 |->
                      <<576, 1280, 1492, 1500, 4352, 9000, 9216>>[i] - ip_overhead(v6)]
           kept == {i \in 1..7 : payload[i] \in min_probe_payload(v6)..max_probe_payload(v6)}
           first == CHOOSE i \in kept : \A j \in kept : i <= j
           last == CHOOSE i \in kept : \A j \in kept : j <= i
<1>0. size_ladder(v6) = SubSeq(payload, first, last)
  BY DEF size_ladder
<1>1. CASE v6 = FALSE
  <2>1. /\ payload[1] = 548 /\ payload[2] = 1252 /\ payload[3] = 1464 /\ payload[4] = 1472
        /\ payload[5] = 4324 /\ payload[6] = 8972 /\ payload[7] = 9188
    BY <1>1 DEF ip_overhead
  <2>2. min_probe_payload(v6) = 548 /\ max_probe_payload(v6) = 9188
    BY <1>1 DEF ip_overhead, min_probe_payload, max_probe_payload
  <2>3. min_probe_payload(v6) \in Int /\ max_probe_payload(v6) \in Int
    BY <2>2
  <2>4. payload \in Seq(Int) /\ Len(payload) = 7
    BY <1>1 DEF ip_overhead
  <2> HIDE DEF payload
  <2>5. \A k \in 1..7 :
           /\ payload[k] \in Int /\ payload[k] <= max_probe_payload(v6)
           /\ payload[k] >= min_probe_payload(v6) <=> k >= 1
    BY <2>1, <2>2
  <2>6. kept = 1..7
    BY <2>3, <2>5
  <2>7. first = 1 /\ last = 7
    BY <2>6
  <2> HIDE DEF kept, first, last
  <2>8. size_ladder(v6) = SubSeq(payload, 1, 7)
    BY <1>0, <2>7
  <2>9. /\ Len(size_ladder(v6)) = 7
        /\ \A k \in 1..7 : size_ladder(v6)[k] = payload[k]
    BY <2>4, <2>8
  <2>10. \A k \in 1..7 : size_ladder(v6)[k] \in min_probe_payload(v6)..max_probe_payload(v6)
    BY <2>3, <2>9, <2>5
  <2>11. size_ladder(v6)[1] = min_probe_payload(v6) /\ size_ladder(v6)[7] = max_probe_payload(v6)
    BY <2>1, <2>2, <2>9
  <2> QED
    BY <2>9, <2>10, <2>11
<1>2. CASE v6 = TRUE
  <2>1. /\ payload[1] = 528 /\ payload[2] = 1232 /\ payload[3] = 1444 /\ payload[4] = 1452
        /\ payload[5] = 4304 /\ payload[6] = 8952 /\ payload[7] = 9168
    BY <1>2 DEF ip_overhead
  <2>2. min_probe_payload(v6) = 1232 /\ max_probe_payload(v6) = 9168
    BY <1>2 DEF ip_overhead, min_probe_payload, max_probe_payload
  <2>3. min_probe_payload(v6) \in Int /\ max_probe_payload(v6) \in Int
    BY <2>2
  <2>4. payload \in Seq(Int) /\ Len(payload) = 7
    BY <1>2 DEF ip_overhead
  <2> HIDE DEF payload
  <2>5. \A k \in 1..7 :
           /\ payload[k] \in Int /\ payload[k] <= max_probe_payload(v6)
           /\ payload[k] >= min_probe_payload(v6) <=> k >= 2
    BY <2>1, <2>2
  <2>6. kept = 2..7
    BY <2>3, <2>5
  <2>7. first = 2 /\ last = 7
    BY <2>6
  <2> HIDE DEF kept, first, last
  <2>8. size_ladder(v6) = SubSeq(payload, 2, 7)
    BY <1>0, <2>7
  <2>9. /\ Len(size_ladder(v6)) = 6
        /\ \A k \in 1..6 : size_ladder(v6)[k] = payload[k + 1]
    BY <2>4, <2>8
  <2>10. \A k \in 1..6 : size_ladder(v6)[k] \in min_probe_payload(v6)..max_probe_payload(v6)
    BY <2>3, <2>9, <2>5
  <2>11. size_ladder(v6)[1] = min_probe_payload(v6) /\ size_ladder(v6)[6] = max_probe_payload(v6)
    BY <2>1, <2>2, <2>9
  <2> QED
    BY <2>9, <2>10, <2>11
<1> QED
  BY <1>1, <1>2


\* What the limits of a path mean for a size within the range.
LimitFacts ==
    /\ MinSize \in Nat /\ MaxSize \in Nat /\ 0 < MinSize /\ MinSize < MaxSize
    /\ ForwardLimit \in Nat /\ ReverseLimit \in Nat
    /\ ForwardLimit = NoSize \/ ForwardLimit \in MinSize..MaxSize
    /\ \A x \in MinSize..MaxSize :
          /\ x <= ForwardLimit <=> (path.df => x <= path.local /\ x <= path.fwd)
          /\ x <= ReverseLimit <=> x <= path.rev
    /\ Len(Ladder) \in Nat \ {0}
    /\ \A k \in 1..Len(Ladder) : Ladder[k] \in MinSize..MaxSize
    /\ Ladder[1] = MinSize /\ Ladder[Len(Ladder)] = MaxSize

LEMMA PathLimits == ProbeShape => LimitFacts
<1> SUFFICES ASSUME ProbeShape PROVE LimitFacts
  OBVIOUS
<1>1. /\ path.local \in Nat /\ path.fwd \in Nat /\ path.rev \in Nat
      /\ path.ipv6 \in BOOLEAN /\ path.df \in BOOLEAN
  BY DEF ProbeShape
<1>2. MinSize \in Nat /\ MaxSize \in Nat /\ 0 < MinSize /\ MinSize < MaxSize
  BY <1>1 DEF MinSize, MaxSize, min_probe_payload, max_probe_payload, ip_overhead
<1>3. \A limit \in Nat : /\ Carried(limit) \in Nat
                         /\ Carried(limit) = NoSize \/ Carried(limit) \in MinSize..MaxSize
                         /\ \A x \in MinSize..MaxSize : x <= Carried(limit) <=> x <= limit
  BY <1>2 DEF Carried, MinSize, MaxSize, NoSize
<1>4. /\ Len(Ladder) \in Nat \ {0}
      /\ \A k \in 1..Len(Ladder) : Ladder[k] \in MinSize..MaxSize
      /\ Ladder[1] = MinSize /\ Ladder[Len(Ladder)] = MaxSize
  BY <1>1, LadderFacts DEF Ladder, MinSize, MaxSize
<1>5. ReverseLimit \in Nat /\ \A x \in MinSize..MaxSize : x <= ReverseLimit <=> x <= path.rev
  BY <1>1, <1>3 DEF ReverseLimit
<1>6. /\ ForwardLimit \in Nat /\ (ForwardLimit = NoSize \/ ForwardLimit \in MinSize..MaxSize)
      /\ \A x \in MinSize..MaxSize :
            x <= ForwardLimit <=> (path.df => x <= path.local /\ x <= path.fwd)
  <2>1. CASE ~path.df
    BY <1>1, <1>2, <2>1 DEF ForwardLimit, MaxSize
  <2>2. CASE path.df
    <3> DEFINE least == IF path.local < path.fwd THEN path.local ELSE path.fwd
    <3>1. least \in Nat /\ \A x \in Nat : x <= least <=> x <= path.local /\ x <= path.fwd
      BY <1>1
    <3>2. ForwardLimit = Carried(least)
      BY <2>2 DEF ForwardLimit
    <3> HIDE DEF least
    <3> QED
      BY <1>1, <1>2, <1>3, <2>2, <3>1, <3>2
  <2> QED
    BY <1>1, <2>1, <2>2
<1> QED
  BY <1>2, <1>4, <1>5, <1>6 DEF LimitFacts

LEMMA PathLimitsNext == ProbeShape' => LimitFacts'
BY PathLimits, PTL

\* On the same path the limits and the ladder are the same.
LEMMA SamePath ==
    ASSUME path' = path
    PROVE  /\ MinSize' = MinSize /\ MaxSize' = MaxSize /\ Ladder' = Ladder
           /\ ForwardLimit' = ForwardLimit /\ ReverseLimit' = ReverseLimit
BY DEF MinSize, MaxSize, Ladder, ForwardLimit, ReverseLimit, Carried

LEMMA ProbeInitial ==
    ASSUME ProbeInit
    PROVE  MtuInv
<1>1. /\ search = NewSearch(FALSE) /\ probe = IdleProbe /\ reverseMax = 0 /\ pnet = {}
      /\ responder = TRUE /\ faults = 0
      /\ path = [local |-> 0, fwd |-> 0, rev |-> 0, ipv6 |-> FALSE, df |-> TRUE,
                 short |-> FALSE, budget |-> 0]
  BY DEF ProbeInit, NoSize
<1>2. /\ probe \in ProbeState /\ probe.phase = "idle" /\ probe.got_ack = FALSE
  BY <1>1 DEF IdleProbe, ProbeState, ProbePhases, Tries, Echoes, PROBES_PER_SIZE, NoSize
<1>3. /\ search \in SearchState /\ search.low = 0 /\ search.high = 0 /\ search.ladder_idx = 1
      /\ search.in_binary = FALSE
  BY <1>1 DEF NewSearch, SearchState, NoSize, Ladder
<1>4. /\ path.local = 0 /\ path.fwd = 0 /\ path.rev = 0 /\ path.budget = 0
      /\ path.df \in BOOLEAN /\ path.ipv6 \in BOOLEAN
  BY <1>1
<1>5. path.ipv6 = FALSE
  BY <1>1
<1>6. /\ reverseMax = 0 /\ pnet = {} /\ faults = 0 /\ responder \in BOOLEAN
  BY <1>1
<1>7. /\ pnet = {} /\ reverseMax = NoSize /\ faults = 0 /\ probe = IdleProbe
      /\ search = NewSearch(path.ipv6)
  BY <1>1, <1>5, Zenon DEF NoSize
<1>8. ProbeShape
  <2>1. /\ path.local \in Nat /\ path.fwd \in Nat /\ path.rev \in Nat /\ path.budget \in Nat
        /\ pnet \subseteq ProbePacket /\ reverseMax \in Nat /\ faults \in Nat
        /\ faults <= path.budget
    BY <1>4, <1>6
  <2> QED
    BY <1>2, <1>3, <1>4, <1>6, <1>7, <2>1, Zenon DEF ProbeShape
<1>9. BracketInv
  BY <1>3, <1>6, <1>8, PathLimits DEF BracketInv, LimitFacts, NoSize
<1>10. RungsInv
  BY <1>3, <1>8, PathLimits DEF RungsInv, LimitFacts, NoSize
<1> QED
  BY <1>2, <1>6, <1>8, <1>9, <1>10
  DEF MtuInv, SizeInv, PacketsInv, AttemptsInv, DoneInv, Testing

LEMMA ProbeQuiet ==
    ASSUME MtuInv, UNCHANGED probeVars
    PROVE  MtuInv'
<1>1. /\ search' = search /\ probe' = probe /\ reverseMax' = reverseMax /\ pnet' = pnet
      /\ path' = path /\ responder' = responder /\ faults' = faults
  BY DEF probeVars
<1> QED
  BY <1>1, SamePath
  DEF MtuInv, ProbeShape, SearchState, BracketInv, RungsInv, SizeInv, PacketsInv, AttemptsInv,
      DoneInv, Testing, Exact

LEMMA StartProbeStep ==
    ASSUME MtuInv, StartProbe
    PROVE  MtuInv'
<1>1. /\ probe.phase = "idle" /\ path' \in Paths /\ search' = NewSearch(path'.ipv6)
      /\ probe' = [probe EXCEPT !.phase = "next"]
      /\ reverseMax' = reverseMax /\ pnet' = pnet /\ responder' = responder /\ faults' = faults
  BY DEF StartProbe
<1>2. /\ probe \in ProbeState /\ responder \in BOOLEAN /\ probe.got_ack = FALSE
      /\ pnet = {} /\ reverseMax = 0 /\ faults = 0
  <2>1. probe \in ProbeState /\ responder \in BOOLEAN /\ SizeInv
    BY DEF MtuInv, ProbeShape
  <2>2. probe.got_ack = FALSE
    BY <1>1, <2>1 DEF SizeInv, ProbeState
  <2> QED
    BY <1>1, <2>1, <2>2 DEF MtuInv, ProbeShape, NoSize
<1>3. probe' \in ProbeState /\ probe'.phase = "next" /\ probe'.got_ack = FALSE
  BY <1>1, <1>2 DEF ProbeState, ProbePhases
<1>4. /\ path'.local \in Nat /\ path'.fwd \in Nat /\ path'.rev \in Nat /\ path'.budget \in Nat
      /\ path'.ipv6 \in BOOLEAN /\ path'.df \in BOOLEAN
  BY <1>1, PathsAssumption
<1>5. /\ search' \in SearchState' /\ search'.low = 0 /\ search'.high = 0
      /\ search'.ladder_idx = 1 /\ search'.in_binary = FALSE
  BY <1>1 DEF NewSearch, SearchState, NoSize, Ladder
<1>6. ProbeShape'
  BY <1>1, <1>2, <1>3, <1>4, <1>5 DEF ProbeShape
<1>7. LimitFacts'
  BY <1>6, PathLimitsNext
<1>8. BracketInv' /\ RungsInv'
  BY <1>1, <1>2, <1>5, <1>7 DEF BracketInv, RungsInv, LimitFacts, NoSize
<1> QED
  BY <1>1, <1>2, <1>3, <1>6, <1>8
  DEF MtuInv, SizeInv, PacketsInv, AttemptsInv, DoneInv, Testing
\* A nonempty set of positions has a first one.
LEMMA FirstOf ==
    ASSUME NEW S, S # {}, S \subseteq Nat
    PROVE  LET first == CHOOSE i \in S : \A j \in S : i <= j
           IN  first \in S /\ \A j \in S : first <= j
<1>1. PICK n \in S : \A m \in S : <<m, n>> \notin OpToRel(<, Nat)
  BY NatLessThanWellFounded, WFMin
<1>2. \A m \in S : <<m, n>> \notin {ss \in Nat \X Nat : ss[1] < ss[2]}
  BY <1>1, Zenon DEF OpToRel
<1>3. ASSUME NEW m \in S PROVE n <= m
  <2>1. n \in Nat /\ m \in Nat /\ <<m, n>> \in Nat \X Nat
    BY <1>1
  <2>2. ~(<<m, n>>[1] < <<m, n>>[2])
    BY <1>2, <2>1, Zenon
  <2> QED
    BY <2>1, <2>2
<1> QED
  BY <1>3

\* The search after next_size(): a rung of the ladder, a midpoint of the
\* bracket, or nothing left to try.
LEMMA NextSizeFacts ==
    ASSUME ProbeShape, BracketInv, RungsInv
    PROVE  /\ next_size(search) \in SearchState
           /\ next_size(search).low = search.low /\ next_size(search).high = search.high
           /\ next_size(search).ladder_idx \in 1..(Len(Ladder) + 1)
           /\ \/ /\ next_size(search).in_binary = FALSE
                 /\ next_size(search).ladder_idx <= Len(Ladder)
                 /\ next_size(search).pending = Ladder[next_size(search).ladder_idx]
                 /\ search.ladder_idx <= next_size(search).ladder_idx
                 /\ search.high = NoSize => next_size(search).ladder_idx = search.ladder_idx
              \/ /\ next_size(search).in_binary = TRUE
                 /\ next_size(search).ladder_idx = Len(Ladder) + 1
                 /\ next_size(search).pending = binary_midpoint(search)
                 /\ search.high = NoSize => search.ladder_idx = Len(Ladder) + 1
<1>1. LimitFacts
  BY PathLimits
<1>2. /\ search \in SearchState /\ search.ladder = Ladder
  BY DEF ProbeShape, SearchState
<1>3. Len(Ladder) \in Nat /\ search.ladder_idx \in 1..(Len(Ladder) + 1) /\ search.high \in Nat
      /\ search.low \in Nat /\ \A k \in 1..Len(Ladder) : Ladder[k] \in Nat
  BY <1>1, <1>2 DEF LimitFacts, RungsInv, SearchState
<1> DEFINE rungs == {i \in search.ladder_idx..Len(search.ladder) :
                        search.high = NoSize \/ search.ladder[i] < search.high}
           first == CHOOSE i \in rungs : \A j \in rungs : i <= j
<1>4. CASE ~search.in_binary /\ rungs # {}
  <2>1. next_size(search) = [search EXCEPT !.ladder_idx = first, !.pending = search.ladder[first]]
    BY <1>4 DEF next_size
  <2>2. first \in rungs /\ \A j \in rungs : first <= j
    <3>1. rungs \subseteq Nat
      BY <1>2, <1>3
    <3> HIDE DEF rungs
    <3> QED
      BY <1>4, <3>1, FirstOf
  <2>3. first \in search.ladder_idx..Len(Ladder)
    BY <1>2, <2>2
  <2>4. search.high = NoSize => first = search.ladder_idx
    BY <1>2, <1>3, <2>2, <2>3
  <2>5. first \in Nat /\ search.ladder[first] = Ladder[first] /\ Ladder[first] \in Nat
    BY <1>2, <1>3, <2>3
  <2>6. search.in_binary = FALSE
    BY <1>2, <1>4 DEF SearchState
  <2> HIDE DEF rungs, first
  <2>7. /\ next_size(search) \in SearchState
        /\ next_size(search).low = search.low /\ next_size(search).high = search.high
        /\ next_size(search).ladder_idx = first /\ next_size(search).in_binary = FALSE
        /\ next_size(search).pending = Ladder[first]
    BY <1>2, <2>1, <2>5, <2>6 DEF SearchState
  <2> QED
    BY <1>3, <2>3, <2>4, <2>7
<1>5. CASE search.in_binary \/ rungs = {}
  <2>1. next_size(search) =
          [search EXCEPT !.in_binary = TRUE,
                         !.ladder_idx = IF search.in_binary THEN @ ELSE Len(search.ladder) + 1,
                         !.pending = binary_midpoint(search)]
    BY <1>5 DEF next_size
  <2>2. binary_midpoint(search) \in Nat
    BY <1>3 DEF binary_midpoint, NoSize
  <2>3. search.in_binary => search.ladder_idx = Len(Ladder) + 1
    BY DEF RungsInv
  <2>4. search.high = NoSize => search.ladder_idx = Len(Ladder) + 1
    BY <1>2, <1>3, <1>5, <2>3
  <2> HIDE DEF rungs, first
  <2>5. next_size(search) = [search EXCEPT !.in_binary = TRUE,
                                           !.ladder_idx = Len(Ladder) + 1,
                                           !.pending = binary_midpoint(search)]
    BY <1>2, <2>1, <2>3 DEF SearchState
  <2>6. Len(Ladder) + 1 \in Nat
    BY <1>3
  <2>7. /\ next_size(search) \in SearchState
        /\ next_size(search).low = search.low /\ next_size(search).high = search.high
        /\ next_size(search).ladder_idx = Len(Ladder) + 1
        /\ next_size(search).in_binary = TRUE
        /\ next_size(search).pending = binary_midpoint(search)
    BY <1>2, <2>2, <2>5, <2>6 DEF SearchState
  <2> QED
    BY <1>3, <2>4, <2>7
<1> QED
  BY <1>4, <1>5

LEMMA NextSizeStep ==
    ASSUME MtuInv, NextSize
    PROVE  MtuInv'
<1> USE DEF MtuInv
<1>1. LimitFacts
  BY PathLimits
<1>2. /\ probe.phase = "next" /\ search' = next_size(search)
      /\ reverseMax' = reverseMax /\ pnet' = pnet /\ path' = path
      /\ responder' = responder /\ faults' = faults
      /\ IF search'.pending = NoSize THEN probe' = [probe EXCEPT !.phase = "done"]
         ELSE probe' = [probe EXCEPT !.phase = "send", !.size = search'.pending,
                                     !.attempts = 0, !.forward_ok = 0, !.reverse_ok = 0,
                                     !.local = FALSE]
  BY DEF NextSize
<1>3. /\ search' \in SearchState
      /\ search'.low = search.low /\ search'.high = search.high
      /\ search'.ladder_idx \in 1..(Len(Ladder) + 1)
      /\ \/ /\ search'.in_binary = FALSE
            /\ search'.ladder_idx <= Len(Ladder)
            /\ search'.pending = Ladder[search'.ladder_idx]
            /\ search.ladder_idx <= search'.ladder_idx
            /\ search.high = NoSize => search'.ladder_idx = search.ladder_idx
         \/ /\ search'.in_binary = TRUE
            /\ search'.ladder_idx = Len(Ladder) + 1
            /\ search'.pending = binary_midpoint(search)
            /\ search.high = NoSize => search.ladder_idx = Len(Ladder) + 1
  BY <1>2, NextSizeFacts
<1>4. /\ probe \in ProbeState /\ probe.got_ack = FALSE /\ faults \in Nat
      /\ search.low \in Nat /\ search.high \in Nat /\ search.ladder_idx \in Nat
  BY <1>2 DEF ProbeShape, SizeInv, ProbeState, SearchState
<1>5. /\ probe' \in ProbeState /\ probe'.got_ack = FALSE /\ probe'.seq = probe.seq
      /\ \/ search'.pending = NoSize /\ probe'.phase = "done"
         \/ /\ search'.pending # NoSize /\ probe'.phase = "send" /\ probe'.size = search'.pending
            /\ probe'.attempts = 0 /\ probe'.forward_ok = 0 /\ probe'.reverse_ok = 0
            /\ probe'.local = FALSE
  <2>1. search'.pending \in Nat
    BY <1>3 DEF SearchState
  <2>2. CASE search'.pending = NoSize
    BY <1>2, <1>4, <2>2 DEF ProbeState, ProbePhases
  <2>3. CASE search'.pending # NoSize
    <3>1. probe' = [probe EXCEPT !.phase = "send", !.size = search'.pending, !.attempts = 0,
                                 !.forward_ok = 0, !.reverse_ok = 0, !.local = FALSE]
      BY <1>2, <2>3
    <3>2. /\ probe'.phase = "send" /\ probe'.size = search'.pending
          /\ probe'.attempts = 0 /\ probe'.forward_ok = 0 /\ probe'.reverse_ok = 0
          /\ probe'.local = FALSE /\ probe'.got_ack = probe.got_ack /\ probe'.seq = probe.seq
      BY <1>4, <3>1 DEF ProbeState
    <3> DEFINE chosen == [probe EXCEPT !.phase = "send", !.size = search'.pending]
               counted == [chosen EXCEPT !.attempts = 0, !.forward_ok = 0, !.reverse_ok = 0]
    <3>3. probe' = [counted EXCEPT !.local = FALSE]
      BY <3>1
    <3>4. chosen \in ProbeState
      BY <1>4, <2>1 DEF ProbeState, ProbePhases
    <3> HIDE DEF chosen
    <3>5. counted \in ProbeState
      <4>1. 0 \in Tries /\ 0 \in Echoes
        BY DEF Tries, Echoes, PROBES_PER_SIZE
      <4> QED
        BY <3>4, <4>1 DEF ProbeState
    <3> HIDE DEF counted
    <3>6. probe' \in ProbeState
      BY <3>3, <3>5 DEF ProbeState
    <3> QED
      BY <1>4, <2>3, <3>2, <3>6
  <2> QED
    BY <2>2, <2>3
<1>6. SearchState' = SearchState
  BY <1>2, SamePath DEF SearchState
<1>7. ProbeShape'
  BY <1>2, <1>3, <1>5, <1>6 DEF ProbeShape
<1>8. BracketInv'
  BY <1>2, <1>3, SamePath DEF BracketInv, Exact
<1>9. RungsInv'
  BY <1>1, <1>2, <1>3, <1>4, SamePath DEF RungsInv, LimitFacts
<1>10. search'.pending # NoSize => search'.pending \in MinSize..MaxSize
  <2>1. CASE search'.in_binary = FALSE
    BY <1>1, <1>3, <2>1 DEF LimitFacts
  <2>2. CASE search'.in_binary = TRUE
    <3>0. search.high - search.low > 1 =>
             /\ search.low < search.low + (search.high - search.low) \div 2
             /\ search.low + (search.high - search.low) \div 2 < search.high
      BY <1>4
    <3>1. \/ binary_midpoint(search) = NoSize
          \/ /\ search.low # NoSize /\ search.high # NoSize
             /\ search.low < binary_midpoint(search) /\ binary_midpoint(search) < search.high
      BY <1>4, <3>0 DEF binary_midpoint
    <3>2. binary_midpoint(search) \in Nat
      BY <1>4 DEF binary_midpoint, NoSize
    <3> QED
      BY <1>1, <1>3, <1>4, <2>2, <3>1, <3>2 DEF LimitFacts, BracketInv
  <2> QED
    BY <1>3, <2>1, <2>2
<1>11. SizeInv' /\ PacketsInv' /\ AttemptsInv'
  BY <1>2, <1>3, <1>4, <1>5, <1>10, SamePath
  DEF SizeInv, PacketsInv, AttemptsInv, Testing, PROBES_PER_SIZE
<1>12. DoneInv'
  <2> SUFFICES ASSUME search'.pending = NoSize, Exact PROVE search.low = ForwardLimit
    BY <1>2, <1>3, <1>5, SamePath DEF DoneInv, Exact
  <2>1. search'.in_binary = TRUE
    BY <1>1, <1>3 DEF LimitFacts, NoSize
  <2>2. /\ binary_midpoint(search) = NoSize
        /\ search.high = NoSize => search.ladder_idx = Len(Ladder) + 1
    BY <1>3, <2>1
  <2>3. search.low = NoSize \/ search.high = NoSize \/ search.high - search.low <= 1
    BY <1>4, <2>2 DEF binary_midpoint, NoSize
  <2>4. search.low = NoSize => search.high = MinSize
    BY <1>1, <1>4, <2>2 DEF RungsInv, LimitFacts
  <2>5. search.high = NoSize => search.low >= MaxSize
    BY <1>1, <1>4, <2>2 DEF RungsInv, LimitFacts
  <2> QED
    BY <1>1, <1>4, <2>3, <2>4, <2>5 DEF BracketInv, LimitFacts, NoSize
<1> QED
  BY <1>7, <1>8, <1>9, <1>11, <1>12

\* What MtuInv says of the fields the next steps read.
LEMMA ProbeFields ==
    ASSUME MtuInv
    PROVE  /\ LimitFacts
           /\ probe \in ProbeState /\ search \in SearchState /\ pnet \subseteq ProbePacket
           /\ probe.size \in Nat /\ probe.seq \in Nat /\ probe.attempts \in 0..3
           /\ probe.forward_ok \in 0..3 /\ probe.reverse_ok \in 0..1
           /\ probe.got_ack \in BOOLEAN /\ probe.local \in BOOLEAN
           /\ faults \in Nat /\ faults <= path.budget /\ path.budget \in Nat
           /\ path.local \in Nat /\ path.fwd \in Nat /\ path.rev \in Nat
           /\ responder \in BOOLEAN
           /\ probe.phase # "wait" => probe.got_ack = FALSE
<1>1. ProbeShape /\ SizeInv
  BY DEF MtuInv
<1>2. probe \in ProbeState
  BY <1>1 DEF ProbeShape
<1>3. /\ probe.size \in Nat /\ probe.seq \in Nat /\ probe.attempts \in 0..3
      /\ probe.forward_ok \in 0..3 /\ probe.reverse_ok \in 0..1
      /\ probe.got_ack \in BOOLEAN /\ probe.local \in BOOLEAN
  BY <1>2 DEF ProbeState, Tries, Echoes, PROBES_PER_SIZE
<1>4. probe.phase # "wait" => probe.got_ack = FALSE
  BY <1>1, <1>3 DEF SizeInv
<1> QED
  BY <1>1, <1>2, <1>3, <1>4, PathLimits DEF ProbeShape

\* A step of the network or the responder keeps the bracket; what it makes of
\* the packets and the faults is all there is to show.
LEMMA NetworkStep ==
    ASSUME MtuInv,
           UNCHANGED <<search, probe, sizes, reverseMax, path>>,
           responder' \in BOOLEAN, responder' => responder,
           faults' \in Nat, faults <= faults', faults' <= path.budget,
           pnet' \subseteq ProbePacket, PacketsInv', AttemptsInv',
           probe.phase # "idle"
    PROVE  MtuInv'
<1>1. SearchState' = SearchState
  BY SamePath DEF SearchState
<1>2. Exact' => Exact
  <2>1. faults \in Nat
    BY ProbeFields
  <2> QED
    BY <2>1 DEF Exact, PROBES_PER_SIZE
<1>3. ProbeShape'
  BY <1>1 DEF MtuInv, ProbeShape
<1>4. BracketInv' /\ RungsInv' /\ SizeInv' /\ DoneInv'
  BY <1>2, SamePath DEF MtuInv, BracketInv, RungsInv, SizeInv, DoneInv, Testing
<1> QED
  BY <1>3, <1>4 DEF MtuInv

LEMMA LosePacketStep ==
    ASSUME MtuInv, LosePacket
    PROVE  MtuInv'
<1>1. PICK gone \in pnet : pnet' = pnet \ {gone}
  BY DEF LosePacket
<1>2. /\ UNCHANGED <<search, probe, sizes, reverseMax, path, responder>>
      /\ faults < path.budget /\ faults' = faults + 1
  BY DEF LosePacket
<1>3. probe.phase # "idle"
  BY <1>1 DEF MtuInv, ProbeShape
<1>4. PacketsInv'
  BY <1>1, <1>2, SamePath DEF MtuInv, PacketsInv
<1>5. AttemptsInv'
  <2>1. faults \in Nat /\ probe.attempts \in Nat
    BY ProbeFields
  <2>2. responder /\ Testing /\ probe.size <= ForwardLimit /\ probe.forward_ok = 0 =>
          probe.attempts <= faults + 1
    BY <2>1 DEF MtuInv, AttemptsInv
  <2> QED
    BY <1>2, <2>2, SamePath DEF AttemptsInv, Testing
<1> QED
  BY <1>1, <1>2, <1>3, <1>4, <1>5, ProbeFields, NetworkStep

LEMMA ResponderStopsStep ==
    ASSUME MtuInv, ResponderStops
    PROVE  MtuInv'
<1>1. /\ UNCHANGED <<search, probe, sizes, reverseMax, path>>
      /\ responder' = FALSE /\ faults' = path.budget /\ pnet' = {pkt \in pnet : pkt.kind # "probe"}
      /\ probe.phase # "idle"
  BY DEF ResponderStops
<1>2. PacketsInv'
  BY <1>1, SamePath DEF MtuInv, PacketsInv
<1>3. AttemptsInv'
  BY <1>1 DEF AttemptsInv
<1>4. /\ faults' \in Nat /\ faults <= faults' /\ faults' <= path.budget
      /\ pnet' \subseteq ProbePacket
  BY <1>1, ProbeFields
<1> QED
  BY <1>1, <1>2, <1>3, <1>4, NetworkStep

LEMMA RespondProbeStep ==
    ASSUME MtuInv, RespondProbe
    PROVE  MtuInv'
<1>1. PICK pkt \in pnet :
        pnet' = (pnet \ {pkt}) \cup {[pkt EXCEPT !.kind = "ack"]}
                  \cup Delivered([pkt EXCEPT !.kind = "echo"], path.rev)
  BY DEF RespondProbe
<1>2. UNCHANGED <<search, probe, sizes, reverseMax, path, responder, faults>>
  BY DEF RespondProbe
<1> DEFINE ack == [pkt EXCEPT !.kind = "ack"]
           echo == [pkt EXCEPT !.kind = "echo"]
<1>3. pkt \in ProbePacket
  BY ProbeFields
<1>4. /\ ack \in ProbePacket /\ ack.kind = "ack" /\ ack.seq = pkt.seq /\ ack.size = pkt.size
      /\ echo \in ProbePacket /\ echo.kind = "echo" /\ echo.seq = pkt.seq /\ echo.size = pkt.size
  BY <1>3 DEF ProbePacket
<1>5. pnet' = (pnet \ {pkt}) \cup {ack} \cup Delivered(echo, path.rev)
  BY <1>1
<1> HIDE DEF ack, echo
<1>6. /\ pnet' \subseteq (pnet \cup {ack, echo}) /\ ack \in pnet'
      /\ echo \in pnet' => echo \in pnet \/ echo.size <= path.rev
      /\ \A q \in pnet : q # pkt => q \in pnet'
  BY <1>4, <1>5 DEF Delivered
<1>7. probe.phase # "idle"
  BY DEF MtuInv, ProbeShape
<1>8. pnet' \subseteq ProbePacket
  BY <1>4, <1>6, ProbeFields
<1>9. PacketsInv'
  <2>1. /\ pkt.size \in MinSize..MaxSize /\ pkt.size <= ForwardLimit
        /\ pkt.seq <= probe.seq
        /\ probe.phase = "wait" /\ pkt.seq = probe.seq => pkt.size = probe.size
    BY DEF MtuInv, PacketsInv
  <2> QED
    BY <1>2, <1>4, <1>6, <2>1, SamePath DEF MtuInv, PacketsInv
<1>10. AttemptsInv'
  <2>1. ASSUME NEW q \in pnet PROVE \E r \in pnet' : r.seq = q.seq
    BY <1>4, <1>5
  <2> QED
    BY <1>2, <2>1, SamePath DEF MtuInv, AttemptsInv, Testing
<1> QED
  BY <1>2, <1>7, <1>8, <1>9, <1>10, ProbeFields, NetworkStep

\* The search and the responder stay as they are while a size is tried.
LEMMA AttemptStep ==
    ASSUME MtuInv, Testing,
           UNCHANGED <<search, sizes, reverseMax, path, responder>>,
           faults' \in Nat, faults <= faults', faults' <= path.budget,
           probe' \in ProbeState, Testing', pnet' \subseteq ProbePacket,
           SizeInv', PacketsInv', AttemptsInv'
    PROVE  MtuInv'
<1>1. SearchState' = SearchState
  BY SamePath DEF SearchState
<1>2. Exact' => Exact
  <2>1. faults \in Nat
    BY ProbeFields
  <2> QED
    BY <2>1 DEF Exact, PROBES_PER_SIZE
<1>3. probe'.phase # "idle" /\ probe'.phase # "done"
  BY DEF Testing
<1>4. ProbeShape' /\ DoneInv'
  BY <1>1, <1>3 DEF MtuInv, ProbeShape, DoneInv
<1>5. BracketInv' /\ RungsInv'
  BY <1>2, SamePath DEF MtuInv, BracketInv, RungsInv
<1> QED
  BY <1>4, <1>5 DEF MtuInv

LEMMA SendProbeStep ==
    ASSUME MtuInv, SendProbe
    PROVE  MtuInv'
<1>1. /\ probe.phase = "send"
      /\ UNCHANGED <<search, sizes, reverseMax, path, responder>>
  BY DEF SendProbe
<1>2. /\ LimitFacts /\ probe \in ProbeState /\ pnet \subseteq ProbePacket
      /\ probe.seq \in Nat /\ faults \in Nat /\ path.budget \in Nat
      /\ probe.attempts \in 0..2 /\ probe.forward_ok \in 0..2 /\ probe.reverse_ok = 0
      /\ probe.forward_ok <= probe.attempts /\ probe.local = FALSE /\ probe.got_ack = FALSE
      /\ probe.size \in MinSize..MaxSize /\ probe.size \in Nat /\ faults <= path.budget
  <2>1. SizeInv
    BY DEF MtuInv
  <2>2. /\ probe.attempts \in Nat /\ probe.forward_ok \in Nat /\ probe.attempts < 3
        /\ probe.forward_ok <= probe.attempts
    BY <1>1, <2>1, ProbeFields DEF SizeInv, PROBES_PER_SIZE
  <2> QED
    BY <1>1, <2>1, <2>2, ProbeFields DEF SizeInv, Testing
<1> DEFINE p == [probe EXCEPT !.attempts = @ + 1, !.seq = @ + 1]
           pkt == [kind |-> "probe", seq |-> p.seq, size |-> p.size]
<1>3. /\ p \in ProbeState /\ p.seq = probe.seq + 1 /\ p.attempts = probe.attempts + 1
      /\ p.size = probe.size /\ p.forward_ok = probe.forward_ok /\ p.reverse_ok = 0
      /\ p.local = FALSE /\ p.got_ack = FALSE
  <2>1. probe.attempts + 1 \in Tries /\ probe.seq + 1 \in Nat
    BY <1>2 DEF Tries, PROBES_PER_SIZE
  <2> QED
    BY <1>2, <2>1 DEF ProbeState
<1>4. /\ pkt \in ProbePacket /\ pkt.seq = probe.seq + 1 /\ pkt.size = probe.size
      /\ pkt.kind = "probe"
  BY <1>2, <1>3 DEF ProbePacket
<1>5. \/ /\ path.df /\ probe.size > path.local
         /\ probe' = [p EXCEPT !.local = TRUE, !.phase = "verdict"]
         /\ pnet' = pnet /\ faults' = faults
      \/ /\ ~path.df \/ probe.size <= path.local
         /\ probe' = [p EXCEPT !.phase = "wait"]
         /\ pnet' = pnet \cup (IF ~responder THEN {}
                               ELSE IF path.df THEN Delivered(pkt, path.fwd) ELSE {pkt})
         /\ faults' = faults
      \/ /\ ~path.df \/ probe.size <= path.local
         /\ faults < path.budget /\ faults' = faults + 1
         /\ probe' = [p EXCEPT !.phase = AfterAttempt(p)]
         /\ pnet' = pnet
  BY <1>3 DEF SendProbe
<1> HIDE DEF p, pkt
<1>6. CASE /\ path.df /\ probe.size > path.local
           /\ probe' = [p EXCEPT !.local = TRUE, !.phase = "verdict"]
           /\ pnet' = pnet /\ faults' = faults
  <2>1. /\ probe' \in ProbeState /\ probe'.phase = "verdict" /\ probe'.local = TRUE
        /\ probe'.seq = probe.seq + 1 /\ probe'.size = probe.size /\ probe'.got_ack = FALSE
        /\ probe'.forward_ok = probe.forward_ok /\ probe'.reverse_ok = 0
    BY <1>3, <1>6 DEF ProbeState, ProbePhases
  <2>2. probe.size > ForwardLimit
    BY <1>2, <1>6, ProbeFields DEF LimitFacts
  <2>3. SizeInv'
    BY <1>1, <1>2, <1>6, <2>1, SamePath DEF MtuInv, SizeInv, Testing
  <2>4. PacketsInv'
    BY <1>1, <1>2, <1>6, <2>1, SamePath DEF MtuInv, PacketsInv, ProbePacket
  <2>5. AttemptsInv'
    BY <1>1, <1>2, <2>1, <2>2, SamePath DEF AttemptsInv, LimitFacts
  <2> QED
    BY <1>1, <1>2, <1>6, <2>1, <2>3, <2>4, <2>5, AttemptStep DEF Testing
<1>7. CASE /\ ~path.df \/ probe.size <= path.local
           /\ probe' = [p EXCEPT !.phase = "wait"]
           /\ pnet' = pnet \cup (IF ~responder THEN {}
                                 ELSE IF path.df THEN Delivered(pkt, path.fwd) ELSE {pkt})
           /\ faults' = faults
  <2>1. /\ probe' \in ProbeState /\ probe'.phase = "wait" /\ probe'.local = FALSE
        /\ probe'.seq = probe.seq + 1 /\ probe'.size = probe.size /\ probe'.got_ack = FALSE
        /\ probe'.forward_ok = probe.forward_ok /\ probe'.reverse_ok = 0
        /\ probe'.attempts = probe.attempts + 1
    BY <1>3, <1>7 DEF ProbeState, ProbePhases
  <2>2. /\ pnet' \subseteq pnet \cup {pkt} /\ pnet \subseteq pnet'
        /\ pkt \in pnet' => pkt \in pnet \/ probe.size <= ForwardLimit
        /\ responder /\ probe.size <= ForwardLimit => pkt \in pnet'
    BY <1>2, <1>4, <1>7, ProbeFields DEF LimitFacts, Delivered
  <2>3. SizeInv'
    BY <1>1, <1>2, <2>1, SamePath DEF MtuInv, SizeInv, Testing
  <2>4. PacketsInv'
    BY <1>1, <1>2, <1>4, <2>1, <2>2, SamePath DEF MtuInv, PacketsInv, ProbePacket
  <2>5. AttemptsInv'
    BY <1>1, <1>2, <1>4, <1>7, <2>1, <2>2, SamePath DEF MtuInv, AttemptsInv, Testing
  <2> QED
    BY <1>1, <1>2, <1>4, <1>7, <2>1, <2>2, <2>3, <2>4, <2>5, AttemptStep DEF Testing
<1>8. CASE /\ ~path.df \/ probe.size <= path.local
           /\ faults < path.budget /\ faults' = faults + 1
           /\ probe' = [p EXCEPT !.phase = AfterAttempt(p)]
           /\ pnet' = pnet
  <2>1. /\ AfterAttempt(p) \in {"send", "verdict"}
        /\ AfterAttempt(p) = "send" => p.attempts # 3
        /\ AfterAttempt(p) = "verdict" => p.attempts = 3
    BY <1>3 DEF AfterAttempt, PROBES_PER_SIZE
  <2>2. /\ probe' \in ProbeState /\ probe'.phase = AfterAttempt(p) /\ probe'.local = FALSE
        /\ probe'.seq = probe.seq + 1 /\ probe'.size = probe.size /\ probe'.got_ack = FALSE
        /\ probe'.forward_ok = probe.forward_ok /\ probe'.reverse_ok = 0
        /\ probe'.attempts = probe.attempts + 1
    BY <1>3, <1>8, <2>1 DEF ProbeState, ProbePhases
  <2>3. SizeInv'
    BY <1>1, <1>2, <1>3, <2>1, <2>2, SamePath DEF MtuInv, SizeInv, Testing, PROBES_PER_SIZE
  <2>4. PacketsInv'
    BY <1>1, <1>2, <1>8, <2>1, <2>2, SamePath DEF MtuInv, PacketsInv, ProbePacket
  <2>5. AttemptsInv'
    BY <1>1, <1>2, <1>8, <2>1, <2>2, SamePath DEF MtuInv, AttemptsInv, Testing
  <2> QED
    BY <1>1, <1>2, <1>8, <2>1, <2>2, <2>3, <2>4, <2>5, AttemptStep DEF Testing
<1> QED
  BY <1>5, <1>6, <1>7, <1>8

\* What an attempt's end makes of the counts.
LEMMA AttemptDoneFacts ==
    ASSUME MtuInv, probe.phase = "wait", NEW got_echo \in BOOLEAN
    PROVE  LET p == AttemptDone(probe, probe.got_ack, got_echo)
           IN  /\ p \in ProbeState /\ p.size = probe.size /\ p.seq = probe.seq
               /\ p.attempts = probe.attempts /\ p.local = probe.local /\ p.got_ack = FALSE
               /\ p.forward_ok = IF probe.got_ack \/ got_echo THEN probe.forward_ok + 1
                                 ELSE probe.forward_ok
               /\ p.reverse_ok = IF got_echo THEN 1 ELSE 0
               /\ p.phase = IF got_echo \/ p.attempts = 3 THEN "verdict" ELSE "send"
<1>1. /\ probe \in ProbeState /\ probe.got_ack \in BOOLEAN /\ probe.reverse_ok = 0
      /\ probe.forward_ok \in Nat /\ probe.attempts \in 0..3 /\ probe.forward_ok < probe.attempts
  BY ProbeFields DEF MtuInv, SizeInv
<1> DEFINE f == IF probe.got_ack \/ got_echo THEN probe.forward_ok + 1 ELSE probe.forward_ok
           r == IF got_echo THEN probe.reverse_ok + 1 ELSE probe.reverse_ok
           q == [probe EXCEPT !.forward_ok = f, !.reverse_ok = r, !.got_ack = FALSE]
<1>2. f \in Tries /\ r \in Echoes /\ r = IF got_echo THEN 1 ELSE 0
  BY <1>1 DEF Tries, Echoes, PROBES_PER_SIZE
<1>3. AttemptDone(probe, probe.got_ack, got_echo) = [q EXCEPT !.phase = AfterAttempt(q)]
  BY <1>1 DEF AttemptDone, ProbeState
<1> HIDE DEF f, r
<1>4. /\ q \in ProbeState /\ q.forward_ok = f /\ q.reverse_ok = r /\ q.got_ack = FALSE
      /\ q.size = probe.size /\ q.seq = probe.seq /\ q.attempts = probe.attempts
      /\ q.local = probe.local
  BY <1>1, <1>2 DEF ProbeState
<1>5. AfterAttempt(q) = IF got_echo \/ probe.attempts = 3 THEN "verdict" ELSE "send"
  BY <1>2, <1>4 DEF AfterAttempt, PROBES_PER_SIZE
<1> HIDE DEF q
<1>6. AfterAttempt(q) \in ProbePhases
  BY <1>5 DEF ProbePhases
<1>7. [q EXCEPT !.phase = AfterAttempt(q)] \in ProbeState
  BY <1>4, <1>6 DEF ProbeState
<1>8. LET p == [q EXCEPT !.phase = AfterAttempt(q)]
      IN  /\ p.size = probe.size /\ p.seq = probe.seq
          /\ p.attempts = probe.attempts /\ p.local = probe.local /\ p.got_ack = FALSE
          /\ p.forward_ok = f /\ p.reverse_ok = r /\ p.phase = AfterAttempt(q)
  BY <1>4 DEF ProbeState
<1> QED
  BY <1>2, <1>3, <1>5, <1>7, <1>8 DEF f

LEMMA ReplyTimeoutStep ==
    ASSUME MtuInv, ReplyTimeout
    PROVE  MtuInv'
<1>1. /\ probe.phase = "wait" /\ pnet' = pnet
      /\ UNCHANGED <<search, sizes, reverseMax, path, responder>>
      /\ probe' = AttemptDone(probe, probe.got_ack, FALSE)
  BY DEF ReplyTimeout
<1>2. \/ (\E pkt \in pnet : pkt.seq = probe.seq) /\ faults < path.budget /\ faults' = faults + 1
      \/ ~(\E pkt \in pnet : pkt.seq = probe.seq) /\ faults' = faults
  BY DEF ReplyTimeout
<1>3. /\ probe' \in ProbeState /\ probe'.size = probe.size /\ probe'.seq = probe.seq
      /\ probe'.attempts = probe.attempts /\ probe'.local = probe.local /\ probe'.got_ack = FALSE
      /\ probe'.forward_ok = IF probe.got_ack THEN probe.forward_ok + 1 ELSE probe.forward_ok
      /\ probe'.reverse_ok = 0
      /\ probe'.phase = IF probe.attempts = 3 THEN "verdict" ELSE "send"
  BY <1>1, AttemptDoneFacts
<1>4. /\ faults \in Nat /\ path.budget \in Nat /\ probe.forward_ok \in Nat
      /\ probe.attempts \in 0..3 /\ probe.forward_ok < probe.attempts /\ probe.local = FALSE
      /\ faults <= path.budget
  BY <1>1, ProbeFields DEF MtuInv, SizeInv
<1>5. SizeInv'
  <2>1. /\ probe.size \in MinSize..MaxSize
        /\ ~search.in_binary => /\ search.ladder_idx <= Len(Ladder)
                                /\ probe.size = Ladder[search.ladder_idx]
        /\ probe.got_ack \/ probe.forward_ok > 0 => probe.size <= ForwardLimit
    BY <1>1 DEF MtuInv, SizeInv, Testing
  <2>2. /\ probe'.forward_ok > 0 => probe.size <= ForwardLimit
        /\ probe'.forward_ok <= probe.attempts
    BY <1>3, <1>4, <2>1
  <2>3. /\ probe'.phase = "send" => probe.attempts < 3
        /\ probe'.phase = "verdict" => probe.attempts = 3
        /\ probe'.phase \in {"send", "verdict"} /\ probe'.local = FALSE
    BY <1>3, <1>4
  <2>4. /\ probe'.size = probe.size /\ probe'.attempts = probe.attempts
        /\ probe'.got_ack = FALSE /\ probe'.reverse_ok = 0
    BY <1>3
  <2>5. /\ probe'.size \in MinSize'..MaxSize'
        /\ ~search'.in_binary => /\ search'.ladder_idx <= Len(Ladder')
                                 /\ probe'.size = Ladder'[search'.ladder_idx]
        /\ probe'.forward_ok > 0 => probe'.size <= ForwardLimit'
    BY <1>1, <2>1, <2>2, <2>4, SamePath
  <2> QED
    BY <2>2, <2>3, <2>4, <2>5 DEF SizeInv, PROBES_PER_SIZE
<1>6. PacketsInv'
  BY <1>1, <1>3, SamePath DEF MtuInv, PacketsInv
<1>7. AttemptsInv'
  <2>1. probe'.forward_ok = 0 => probe.forward_ok = 0 /\ ~probe.got_ack
    BY <1>3, <1>4
  <2>2. responder /\ probe.size <= ForwardLimit /\ probe.forward_ok = 0 /\ ~probe.got_ack =>
          \/ probe.attempts <= faults
          \/ probe.attempts <= faults + 1 /\ \E pkt \in pnet : pkt.seq = probe.seq
    BY <1>1 DEF MtuInv, AttemptsInv, Testing
  <2>3. responder /\ probe.size <= ForwardLimit /\ probe'.forward_ok = 0 =>
          probe.attempts <= faults'
    BY <1>2, <1>4, <2>1, <2>2
  <2> QED
    BY <1>1, <1>3, <2>3, SamePath DEF AttemptsInv, Testing
<1>8. faults' \in Nat /\ faults <= faults' /\ faults' <= path.budget
  BY <1>2, <1>4
<1>9. Testing /\ Testing' /\ pnet' \subseteq ProbePacket
  BY <1>1, <1>3, ProbeFields DEF Testing
<1> QED
  BY <1>1, <1>3, <1>5, <1>6, <1>7, <1>8, <1>9, AttemptStep

LEMMA CollectReplyStep ==
    ASSUME MtuInv, CollectReply
    PROVE  MtuInv'
<1>1. /\ probe.phase = "wait" /\ UNCHANGED <<search, sizes, reverseMax, path, responder>>
  BY DEF CollectReply
<1>2. PICK pkt \in pnet :
        /\ pkt.kind # "probe" /\ pnet' = pnet \ {pkt}
        /\ faults' = faults \/ (faults < path.budget /\ faults' = faults + 1)
        /\ probe' = IF ~IsReply(pkt) THEN probe
                    ELSE IF pkt.kind = "ack" THEN [probe EXCEPT !.got_ack = TRUE]
                    ELSE AttemptDone(probe, probe.got_ack, TRUE)
  BY DEF CollectReply
<1>3. /\ faults \in Nat /\ path.budget \in Nat /\ probe.forward_ok \in Nat
      /\ probe.attempts \in 0..3 /\ probe.forward_ok < probe.attempts
      /\ faults <= path.budget /\ probe \in ProbeState /\ probe.reverse_ok = 0
      /\ probe.local \in BOOLEAN /\ probe.size \in MinSize..MaxSize
  BY <1>1, ProbeFields DEF MtuInv, SizeInv, Testing
<1>4. /\ pkt.kind \in {"ack", "echo"} /\ pkt.size <= ForwardLimit
      /\ pkt.kind = "echo" => pkt.size <= path.rev
      /\ pkt.seq = probe.seq <=> IsReply(pkt)
      /\ IsReply(pkt) => pkt.size = probe.size
  <2>1. pkt \in ProbePacket
    BY ProbeFields
  <2> QED
    BY <1>1, <1>2, <2>1 DEF MtuInv, PacketsInv, IsReply, ProbePacket
<1>5. faults' \in Nat /\ faults <= faults' /\ faults' <= path.budget
  BY <1>2, <1>3
<1>6. Testing /\ pnet' \subseteq ProbePacket
  BY <1>1, <1>2, ProbeFields DEF Testing
<1>7. CASE ~IsReply(pkt)
  <2>1. probe' = probe
    BY <1>2, <1>7
  <2>2. SizeInv' /\ PacketsInv'
    BY <1>1, <1>2, <2>1, SamePath DEF MtuInv, SizeInv, PacketsInv, Testing
  <2>3. AttemptsInv'
    BY <1>1, <1>2, <1>3, <1>4, <1>7, <2>1, SamePath DEF MtuInv, AttemptsInv, Testing
  <2> QED
    BY <1>1, <1>3, <1>5, <1>6, <2>1, <2>2, <2>3, AttemptStep DEF Testing
<1>8. CASE IsReply(pkt) /\ pkt.kind = "ack"
  <2>1. /\ probe' \in ProbeState /\ probe'.size = probe.size /\ probe'.seq = probe.seq
        /\ probe'.attempts = probe.attempts /\ probe'.local = probe.local
        /\ probe'.got_ack = TRUE /\ probe'.forward_ok = probe.forward_ok
        /\ probe'.reverse_ok = probe.reverse_ok /\ probe'.phase = "wait"
    BY <1>1, <1>2, <1>3, <1>8 DEF ProbeState
  <2>2. SizeInv' /\ PacketsInv'
    BY <1>1, <1>2, <1>4, <1>8, <2>1, SamePath DEF MtuInv, SizeInv, PacketsInv, Testing
  <2>3. AttemptsInv'
    <3>1. responder /\ probe.size <= ForwardLimit /\ probe.forward_ok = 0 =>
            probe.attempts <= faults + 1
      BY <1>1, <1>3 DEF MtuInv, AttemptsInv, Testing
    <3>2. responder /\ probe.size <= ForwardLimit /\ probe.forward_ok = 0 =>
            probe.attempts <= faults' + 1
      BY <1>3, <1>5, <3>1
    <3> QED
      BY <1>1, <2>1, <3>2, SamePath DEF AttemptsInv, Testing
  <2> QED
    BY <1>1, <1>3, <1>5, <1>6, <2>1, <2>2, <2>3, AttemptStep DEF Testing
<1>9. CASE IsReply(pkt) /\ pkt.kind = "echo"
  <2>1. /\ probe' \in ProbeState /\ probe'.size = probe.size /\ probe'.seq = probe.seq
        /\ probe'.attempts = probe.attempts /\ probe'.local = probe.local
        /\ probe'.got_ack = FALSE /\ probe'.forward_ok = probe.forward_ok + 1
        /\ probe'.reverse_ok = 1 /\ probe'.phase = "verdict"
    BY <1>1, <1>2, <1>9, AttemptDoneFacts
  <2>2. PacketsInv'
    BY <1>1, <1>2, <2>1, SamePath DEF MtuInv, PacketsInv
  <2>3. SizeInv'
    <3>1. /\ probe.size <= ForwardLimit /\ probe.size <= path.rev /\ probe'.forward_ok > 0
      BY <1>3, <1>4, <1>9, <2>1
    <3>2. /\ ~search.in_binary => /\ search.ladder_idx <= Len(Ladder)
                                  /\ probe.size = Ladder[search.ladder_idx]
          /\ probe'.local = FALSE
      BY <1>1, <1>3, <2>1 DEF MtuInv, SizeInv, Testing
    <3> QED
      BY <1>1, <1>3, <2>1, <3>1, <3>2, SamePath DEF SizeInv, Testing
  <2>4. AttemptsInv'
    BY <1>3, <2>1 DEF AttemptsInv
  <2> QED
    BY <1>1, <1>3, <1>5, <1>6, <2>1, <2>2, <2>3, <2>4, AttemptStep DEF Testing
<1> QED
  BY <1>4, <1>7, <1>8, <1>9

LEMMA VerdictStep ==
    ASSUME MtuInv, Verdict
    PROVE  MtuInv'
<1> DEFINE forward == IF probe.local THEN "local"
                      ELSE IF probe.forward_ok > 0 THEN "pass" ELSE "fail"
           size == probe.size
<1>1. /\ probe.phase = "verdict" /\ pnet' = pnet /\ path' = path /\ responder' = responder
      /\ faults' = faults /\ probe' = [probe EXCEPT !.phase = "next"]
      /\ search' = record(search, size, forward)
  BY DEF Verdict
<1>2. \/ reverseMax' = reverseMax
      \/ reverseMax' = size /\ probe.reverse_ok > 0
  <2> DEFINE reverse == IF probe.reverse_ok > 0 THEN "pass"
                        ELSE IF forward = "pass" THEN "fail" ELSE "untested"
  <2>1. reverseMax' = IF reverse = "pass" /\ size > reverseMax THEN size ELSE reverseMax
    BY DEF Verdict
  <2>2. reverse = "pass" => probe.reverse_ok > 0
    OBVIOUS
  <2> HIDE DEF reverse
  <2> QED
    BY <2>1, <2>2
<1>3. /\ LimitFacts /\ probe \in ProbeState /\ search \in SearchState
      /\ probe.forward_ok \in Nat /\ probe.attempts \in Nat /\ probe.got_ack = FALSE
      /\ faults \in Nat /\ probe.local \in BOOLEAN
  <2>1. probe.forward_ok \in Nat /\ probe.attempts \in Nat
    <3>1. probe.forward_ok \in 0..3 /\ probe.attempts \in 0..3
      BY ProbeFields
    <3> QED
      BY <3>1
  <2>2. probe.got_ack = FALSE
    BY <1>1, ProbeFields
  <2> QED
    BY <2>1, <2>2, ProbeFields
<1>4. size \in MinSize..MaxSize /\ size \in Nat /\ size # NoSize
  BY <1>1, <1>3, ProbeFields DEF MtuInv, SizeInv, Testing, LimitFacts, NoSize
<1>5. /\ probe.forward_ok > 0 => size <= ForwardLimit
      /\ probe.reverse_ok > 0 => /\ size <= ForwardLimit /\ size <= ReverseLimit
                                 /\ probe.forward_ok > 0
      /\ probe.local => size > ForwardLimit
  <2>1. /\ probe.forward_ok > 0 => size <= ForwardLimit
        /\ probe.reverse_ok > 0 => size <= path.rev /\ probe.forward_ok > 0
        /\ probe.local => path.df /\ size > path.local
    BY <1>1 DEF MtuInv, SizeInv, Testing
  <2>2. probe.local => ~(size <= ForwardLimit)
    BY <1>3, <1>4, <2>1, ProbeFields DEF LimitFacts
  <2> QED
    BY <1>3, <1>4, <2>1, <2>2 DEF LimitFacts
<1>6. /\ forward \in {"pass", "fail", "local"}
      /\ forward = "pass" => size <= ForwardLimit
      /\ probe.reverse_ok > 0 => forward = "pass"
      /\ forward # "pass" /\ Exact => size > ForwardLimit
  <2>1. forward = "fail" => /\ ~probe.local /\ probe.forward_ok = 0
                            /\ ~(probe.reverse_ok > 0)
    BY <1>3, <1>5
  <2>2. forward = "fail" => probe.attempts = 3
    BY <1>1, <2>1 DEF MtuInv, SizeInv, PROBES_PER_SIZE
  <2>3. forward = "fail" /\ responder /\ size <= ForwardLimit => probe.attempts <= faults
    BY <1>1, <2>1 DEF MtuInv, AttemptsInv, Testing
  <2>4. forward = "fail" /\ Exact => size > ForwardLimit
    BY <1>3, <1>4, <2>2, <2>3 DEF Exact, PROBES_PER_SIZE, LimitFacts
  <2>5. probe.reverse_ok > 0 => forward = "pass"
    BY <1>3, <1>4, <1>5 DEF LimitFacts
  <2> QED
    BY <1>3, <1>5, <2>4, <2>5
<1> HIDE DEF forward, size
<1>7. /\ search' \in SearchState /\ search'.in_binary = search.in_binary
      /\ search'.ladder_idx = IF search.in_binary THEN search.ladder_idx
                              ELSE search.ladder_idx + 1
      /\ search'.low = IF forward = "pass" /\ (search.low = NoSize \/ size > search.low)
                       THEN size ELSE search.low
      /\ search'.high = IF forward # "pass" /\ (search.high = NoSize \/ size < search.high)
                        THEN size ELSE search.high
  <2> DEFINE i == IF search.in_binary THEN search.ladder_idx ELSE search.ladder_idx + 1
             l == IF forward = "pass" /\ (search.low = NoSize \/ size > search.low)
                  THEN size ELSE search.low
             h == IF forward \in {"fail", "local"} /\ (search.high = NoSize \/ size < search.high)
                  THEN size ELSE search.high
  <2>1. search' = [search EXCEPT !.pending = NoSize, !.ladder_idx = i, !.low = l, !.high = h]
    BY <1>1, <1>3 DEF record, SearchState
  <2>2. i \in Nat /\ l \in Nat /\ h \in Nat /\ NoSize \in Nat
    BY <1>3, <1>4 DEF SearchState, NoSize
  <2>3. h = IF forward # "pass" /\ (search.high = NoSize \/ size < search.high)
            THEN size ELSE search.high
    BY <1>6
  <2> HIDE DEF i, l, h
  <2>4. /\ search' \in SearchState /\ search'.in_binary = search.in_binary
        /\ search'.ladder_idx = i /\ search'.low = l /\ search'.high = h
    BY <1>3, <2>1, <2>2 DEF SearchState
  <2> QED
    BY <2>3, <2>4 DEF i, l
<1>8. /\ probe' \in ProbeState /\ probe'.phase = "next" /\ probe'.got_ack = FALSE
      /\ probe'.seq = probe.seq
  BY <1>1, <1>3 DEF ProbeState, ProbePhases
<1>9. search.low \in Nat /\ search.high \in Nat /\ search.ladder_idx \in Nat /\ reverseMax \in Nat
  BY <1>3 DEF SearchState, MtuInv, ProbeShape
<1>10. ProbeShape'
  <2>1. SearchState' = SearchState
    BY <1>1, SamePath DEF SearchState
  <2>2. reverseMax' \in Nat
    BY <1>2, <1>4, <1>9
  <2> QED
    BY <1>1, <1>7, <1>8, <2>1, <2>2 DEF MtuInv, ProbeShape
<1>11. BracketInv'
  <2>1. /\ search.low = NoSize \/ search.low \in MinSize..MaxSize
        /\ search.high = NoSize \/ search.high \in MinSize..MaxSize
        /\ search.low <= ForwardLimit
        /\ reverseMax <= search.low /\ reverseMax <= ReverseLimit
        /\ Exact /\ search.high # NoSize => search.high > ForwardLimit
    BY DEF MtuInv, BracketInv
  <2>2. /\ search'.low = NoSize \/ search'.low \in MinSize..MaxSize
        /\ search'.high = NoSize \/ search'.high \in MinSize..MaxSize
        /\ search'.low <= ForwardLimit /\ search.low <= search'.low
        /\ forward = "pass" => size <= search'.low
    BY <1>4, <1>6, <1>7, <1>9, <2>1 DEF NoSize
  <2>3. reverseMax' <= search'.low /\ reverseMax' <= ReverseLimit
    <3>1. search'.low \in Nat
      BY <1>7 DEF SearchState
    <3> QED
      BY <1>2, <1>4, <1>5, <1>6, <1>9, <2>1, <2>2, <3>1
  <2>4. Exact /\ search'.high # NoSize => search'.high > ForwardLimit
    BY <1>6, <1>7, <2>1
  <2>5. Exact' = Exact
    BY <1>1 DEF Exact
  <2> QED
    BY <1>1, <2>2, <2>3, <2>4, <2>5, SamePath DEF BracketInv
<1>12. RungsInv'
  <2>1. RungsInv /\ (~search.in_binary => /\ search.ladder_idx <= Len(Ladder)
                                          /\ size = Ladder[search.ladder_idx])
    BY <1>1 DEF MtuInv, SizeInv, Testing, size
  <2>2. /\ Len(Ladder) \in Nat \ {0} /\ Ladder[1] = MinSize /\ MinSize \in Nat
        /\ Ladder[Len(Ladder)] \in Nat /\ MinSize > 0
    BY <1>3 DEF LimitFacts
  <2>3. /\ search'.ladder_idx \in 2..(Len(Ladder) + 1)
        /\ search'.in_binary => search'.ladder_idx = Len(Ladder) + 1
    BY <1>7, <1>9, <2>1, <2>2 DEF RungsInv
  <2>4. search'.high = NoSize => search'.low >= Ladder[search'.ladder_idx - 1]
    <3>1. ASSUME search'.high = NoSize
          PROVE  /\ search.high = NoSize /\ forward = "pass" /\ search'.low >= size
                 /\ search'.low >= search.low
      BY <1>4, <1>7, <1>9, <3>1 DEF NoSize
    <3>2. CASE search.in_binary
      <4>1. search'.ladder_idx - 1 = Len(Ladder)
        BY <2>2, <2>3, <3>2, <1>7
      <4>2. search'.high = NoSize => search.low >= Ladder[Len(Ladder)]
        <5>1. search.ladder_idx = Len(Ladder) + 1
          BY <2>1, <3>2 DEF RungsInv
        <5>2. search.ladder_idx > 1 /\ search.ladder_idx - 1 = Len(Ladder)
          BY <2>2, <5>1
        <5> QED
          BY <2>1, <3>1, <5>2 DEF RungsInv
      <4>3. search'.low \in Nat
        BY <1>7 DEF SearchState
      <4> QED
        BY <1>9, <2>2, <3>1, <4>1, <4>2, <4>3
    <3>3. CASE ~search.in_binary
      BY <1>7, <1>9, <2>1, <3>1, <3>3
    <3> QED
      BY <3>2, <3>3
  <2>5. search'.low = NoSize => search'.high = MinSize
    <3>1. ASSUME search'.low = NoSize PROVE search.low = NoSize /\ forward # "pass"
      BY <1>4, <1>7, <1>9, <3>1 DEF NoSize
    <3>2. CASE search.ladder_idx = 1
      BY <1>6, <1>7, <2>1, <2>2, <3>1, <3>2 DEF RungsInv
    <3>3. CASE search.ladder_idx > 1
      BY <1>4, <1>7, <2>1, <2>2, <3>1, <3>3 DEF RungsInv, NoSize
    <3> QED
      BY <1>9, <2>1, <3>2, <3>3 DEF RungsInv
  <2> QED
    BY <1>1, <2>2, <2>3, <2>4, <2>5, SamePath DEF RungsInv
<1>13. SizeInv' /\ PacketsInv' /\ AttemptsInv' /\ DoneInv'
  BY <1>1, <1>8, SamePath DEF MtuInv, SizeInv, PacketsInv, AttemptsInv, DoneInv, Testing
<1> QED
  BY <1>10, <1>11, <1>12, <1>13 DEF MtuInv

LEMMA MtuInvStep == MtuInv /\ [Next]_vars => MtuInv'
<1> SUFFICES ASSUME MtuInv, [Next]_vars PROVE MtuInv'
  OBVIOUS
<1>1. CASE UNCHANGED probeVars
  BY <1>1, ProbeQuiet
<1>2. CASE ProbeSteps
  BY <1>2, NextSizeStep, SendProbeStep, CollectReplyStep, ReplyTimeoutStep, VerdictStep,
     RespondProbeStep, LosePacketStep
  DEF ProbeSteps
<1>3. CASE StartProbe
  BY <1>3, StartProbeStep
<1>4. CASE ResponderStops
  BY <1>4, ResponderStopsStep
<1> QED
  BY <1>1, <1>2, <1>3, <1>4
  DEF Next, vars, Shake, StartUdpStreams, Hellos, UdpSetupFails, StartMtuProbe, Probing,
      TestTimeUp, ProbeDone

LEMMA MtuInvariant == Spec => []MtuInv
<1>1. Init => MtuInv
  BY ProbeInitial DEF Init
<1> QED
  BY <1>1, MtuInvStep, PTL DEF Spec

(***************************************************************************)
(* What `--probe-mtu` reports is right on every path, whatever the limits of *)
(* its two directions and whatever number of packets it loses or delays: no  *)
(* size is claimed that a direction does not carry, and with fewer faults    *)
(* than the attempts of one size the search ends on the exact limit          *)
(* (probe.rs run_probe, SizeSearch::next_size, SizeSearch::record).          *)
(***************************************************************************)
THEOREM ProbeRight == Spec => []ProbeReportRight
<1>1. MtuInv => ProbeReportRight
  <2> SUFFICES ASSUME MtuInv PROVE ProbeReportRight
    OBVIOUS
  <2>1. /\ search.low <= ForwardLimit /\ reverseMax <= search.low
        /\ reverseMax <= Carried(path.rev)
        /\ probe.phase = "done" /\ faults < PROBES_PER_SIZE /\ responder =>
              search.low = ForwardLimit
    BY DEF MtuInv, BracketInv, DoneInv, Exact, ReverseLimit
  <2>2. ForwardLimit \in Nat /\ search.low \in Nat /\ reverseMax \in Nat
    BY ProbeFields DEF LimitFacts, SearchState, MtuInv, ProbeShape
  <2> QED
    BY <2>1, <2>2 DEF ProbeReportRight
<1> QED
  BY <1>1, MtuInvariant, PTL

(***************************************************************************)
(* Type correctness of the setup: of the handshake, the hello handshakes     *)
(* and the probe.                                                           *)
(***************************************************************************)
THEOREM TypeCorrect == Spec => []TypeOK
<1>1. ShakeInv => ShakeTypeOK
  BY DEF ShakeInv, ClientShape, ServerShape, IsTransport, ShakeTypeOK
<1>2. UdpInv => HelloTypeOK
  BY DEF UdpInv, HelloShape, HelloTypeOK, Packet, StreamState, History, Failing
<1>3. MtuInv => ProbeTypeOK
  <2> SUFFICES ASSUME MtuInv PROVE ProbeTypeOK
    OBVIOUS
  <2>1. /\ search.low \in Nat /\ search.high \in Nat /\ search.pending \in Nat
        /\ search.ladder_idx \in 1..(Len(search.ladder) + 1) /\ search.in_binary \in BOOLEAN
    BY ProbeFields DEF MtuInv, RungsInv, SearchState
  <2>2. probe.phase \in ProbePhases
    BY ProbeFields DEF ProbeState
  <2>3. \A pkt \in pnet : pkt.kind \in {"probe", "ack", "echo"} /\ pkt.size \in Nat
    BY ProbeFields DEF ProbePacket
  <2>4. reverseMax \in Nat /\ faults \in 0..path.budget
    BY ProbeFields DEF MtuInv, ProbeShape
  <2> QED
    BY <2>1, <2>2, <2>3, <2>4, ProbeFields DEF ProbeTypeOK, PROBES_PER_SIZE
<1>4. ShakeInv /\ UdpInv /\ MtuInv => TypeOK
  BY <1>1, <1>2, <1>3 DEF TypeOK
<1> QED
  BY <1>4, ShakeInvariant, UdpInvariant, MtuInvariant, PTL
=============================================================================
