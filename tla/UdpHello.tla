------------------------------ MODULE UdpHello ------------------------------
(***************************************************************************)
(* The start of a UDP test on one port: the client's hello handshake per     *)
(* stream (udp.rs single_port_udp_handshake under client.rs                  *)
(* spawn_udp_streams), the server's hello dispatcher, which turns the first  *)
(* hello of a stream into a connected socket on the shared port and hands it *)
(* to the test (serve.rs), the test's collection of these sockets and the    *)
(* handlers that answer repeated hellos.  When a handshake fails, the client *)
(* cancels the test and fetches the server's Result, which counts the        *)
(* sockets the server could not create.                                     *)
(*                                                                         *)
(* The network loses packets, and the retry timer may fire while an answer   *)
(* is on its way.  The kernel routes a client's datagram to the socket       *)
(* connected to it if there is one, else to the shared socket; in the        *)
(* window between bind and connect a new socket may catch anybody's.         *)
(* A hello carries the number of its attempt, which only tells retries       *)
(* apart.  Tokens are left out: the hellos are those of one test.            *)
(***************************************************************************)
EXTENDS Integers, Sequences, FiniteSets

CONSTANTS
    Streams,      \* the stream indices of the test
    MaxAttempts,  \* UDP_HELLO_MAX_ATTEMPTS
    HelloCap,     \* capacity of the channel from the shared socket
    MaxNetFaults  \* bound on lost packets and premature timers

ASSUME HelloAssumption ==
    /\ IsFiniteSet(Streams) /\ Streams \subseteq Nat
    /\ MaxAttempts \in Nat \ {0} /\ HelloCap \in Nat \ {0} /\ MaxNetFaults \in Nat

VARIABLES
    cphase,    \* the client's setup: idle, handshake, data, cancel, fetch, failed
    cstream,   \* per stream: its handshake and the hellos sent
    net,       \* hellos, acks and data in flight
    sockbuf,   \* per stream: hellos in the receive buffer of its server socket
    hellos,    \* the channel from the shared socket to the dispatcher
    disp,      \* the dispatcher: idle, or the stream whose socket it makes
    route,     \* the test's UdpHelloRoute: there or not, and its sockets
    chan,      \* the channel of connected sockets to the test
    received,  \* the streams the collection has seen
    handlers,  \* the streams whose handler runs
    stest,     \* the server's test: running, cancelled or ended
    ctl,       \* the control channel: the client's Cancel, the server's Result
    env,       \* direction of the test and streams the server cannot serve
    history    \* sockets made per stream, the errors counted, hellos that
               \* strayed, whether the test's time ran out, and the faults

clientHelloVars == <<cphase, cstream>>
serverHelloVars == <<hellos, disp, route, chan, received, handlers, stest>>
helloVars == <<cphase, cstream, net, sockbuf, hellos, disp, route, chan, received,
               handlers, stest, ctl, env, history>>

Hello(i, n) == [kind |-> "hello", idx |-> i, n |-> n]
Ack(i) == [kind |-> "ack", idx |-> i, n |-> 0]
Data(i) == [kind |-> "data", idx |-> i, n |-> 0]

HelloInit ==
    /\ cphase = "idle"
    /\ cstream = [i \in Streams |-> [st |-> "send", attempts |-> 0]]
    /\ net = {}
    /\ sockbuf = [i \in Streams |-> {}]
    /\ hellos = <<>>
    /\ disp = [st |-> "idle"]
    /\ route = [present |-> FALSE, sockets |-> {}]
    /\ chan = <<>>
    /\ received = {}
    /\ handlers = {}
    /\ stest = "none"
    /\ ctl = "quiet"
    /\ env = [dir |-> "upload", refused |-> {}]
    /\ history = [made |-> [i \in Streams |-> 0], errors |-> 0, strayed |-> 0,
                  expired |-> FALSE, faults |-> 0]

\* A fault, while the budget lasts.
Fault == /\ history.faults < MaxNetFaults
         /\ history' = [history EXCEPT !.faults = @ + 1]

(* ------------------------------ The client ----------------------------- *)

\* The server registers the route before it sends the TestAck; the client
\* then makes all its sockets.  `refused` are the streams whose connected
\* socket the server's system will not create.
StartHandshake ==
    /\ cphase = "idle"
    /\ cphase' = "handshake"
    /\ route' = [route EXCEPT !.present = TRUE]
    /\ stest' = "running"
    /\ env' \in {[dir |-> "upload", refused |-> {}], [dir |-> "download", refused |-> {}],
                 [dir |-> "upload", refused |-> Streams]}
    /\ UNCHANGED <<cstream, net, sockbuf, hellos, disp, chan, received, handlers, ctl, history>>

\* One attempt's hello.
SendHello(i) ==
    /\ cphase = "handshake"
    /\ cstream[i].st = "send" /\ cstream[i].attempts < MaxAttempts
    /\ cstream' = [cstream EXCEPT ![i].st = "wait", ![i].attempts = @ + 1]
    /\ net' = net \cup {Hello(i, cstream[i].attempts + 1)}
    /\ UNCHANGED <<cphase, sockbuf, serverHelloVars, ctl, env, history>>

\* peek: a matching ack is consumed; data of the test, which only flows once
\* the hello was routed, completes the handshake and stays queued.
PeekReply(i) ==
    /\ cphase = "handshake" /\ cstream[i].st = "wait"
    /\ \/ Ack(i) \in net /\ net' = net \ {Ack(i)}
       \/ Data(i) \in net /\ UNCHANGED net
    /\ cstream' = [cstream EXCEPT ![i].st = "done"]
    /\ UNCHANGED <<cphase, sockbuf, serverHelloVars, ctl, env, history>>

\* Something of stream i is on its way or waits to be answered.
InFlight(i) ==
    \/ \E p \in net : p.idx = i
    \/ sockbuf[i] # {} /\ stest = "running"
    \/ \E k \in DOMAIN hellos : hellos[k].idx = i
    \/ disp.st # "idle" /\ disp.idx = i

\* The retry interval elapses: send again, or give up after the last attempt.
\* A timer that beats an answer on its way is a fault.
RetryTimer(i) ==
    /\ cphase = "handshake" /\ cstream[i].st = "wait"
    /\ IF InFlight(i) THEN Fault ELSE UNCHANGED history
    /\ cstream' = [cstream EXCEPT ![i].st = "send"]
    /\ UNCHANGED <<cphase, net, sockbuf, serverHelloVars, ctl, env>>

\* try_join_all: one stream that gives up fails the whole setup; the others'
\* handshakes are dropped.
HandshakeFails ==
    /\ cphase = "handshake"
    /\ \E i \in Streams : cstream[i].st = "send" /\ cstream[i].attempts = MaxAttempts
    /\ cphase' = "cancel"
    /\ UNCHANGED <<cstream, net, sockbuf, serverHelloVars, ctl, env, history>>

\* Mutant: a stream's data task starts as soon as its own hello is sent.
DataStartsAtOnce ==
    /\ cphase = "handshake"
    /\ \A i \in Streams : cstream[i].attempts > 0
    /\ cphase' = "data"
    /\ UNCHANGED <<cstream, net, sockbuf, serverHelloVars, ctl, env, history>>

\* Every handshake is done: the data tasks start.
DataStarts ==
    /\ cphase = "handshake"
    /\ \A i \in Streams : cstream[i].st = "done"
    /\ cphase' = "data"
    /\ UNCHANGED <<cstream, net, sockbuf, serverHelloVars, ctl, env, history>>

\* cancel_and_fetch_server_udp_send_errors: the Cancel goes out ...
SendSetupCancel ==
    /\ cphase = "cancel"
    /\ cphase' = "fetch"
    /\ ctl' = IF ctl = "quiet" THEN "cancel" ELSE ctl
    /\ UNCHANGED <<cstream, net, sockbuf, serverHelloVars, env, history>>

\* ... and the Result is read, or CONTROL_CANCEL_RESULT_TIMEOUT runs out.
FetchResult ==
    /\ cphase = "fetch"
    /\ \/ ctl = "result" /\ cphase' = "explained" /\ UNCHANGED history
       \/ ctl # "result" /\ Fault /\ cphase' = "failed"
    /\ UNCHANGED <<cstream, net, sockbuf, serverHelloVars, ctl, env>>

(* --------------------------- The dispatcher ---------------------------- *)

\* The server's connected socket of stream i is open: somebody holds it.
SocketOpen(i) ==
    \/ i \in handlers \/ i \in route.sockets
    \/ \E k \in DOMAIN chan : chan[k] = i
    \/ disp.st = "made" /\ disp.idx = i

\* XfrLaneTee on the shared socket diverts a hello to the dispatcher, if the
\* channel has room (try_send); what is neither hello nor QUIC it drops.
Divert(p) ==
    IF Len(hellos) < HelloCap
    THEN hellos' = Append(hellos, p) /\ UNCHANGED history
    ELSE history' = [history EXCEPT !.strayed = @ + 1] /\ UNCHANGED hellos

\* A hello arrives.  The connected socket takes it if there is one, else the
\* shared socket.
HelloArrives(p) ==
    /\ p \in net /\ p.kind = "hello"
    /\ net' = net \ {p}
    /\ \/ /\ SocketOpen(p.idx)
          /\ sockbuf' = [sockbuf EXCEPT ![p.idx] = @ \cup {p}]
          /\ UNCHANGED <<hellos, history>>
       \/ /\ ~SocketOpen(p.idx)
          /\ Divert(p)
          /\ UNCHANGED sockbuf
       \/ /\ ~SocketOpen(p.idx) /\ disp.st = "making"      \* between bind and connect
          /\ sockbuf' = [sockbuf EXCEPT ![disp.idx] = @ \cup {p}]
          /\ history' = [history EXCEPT !.strayed = @ + 1]
          /\ UNCHANGED hellos
    /\ UNCHANGED <<cphase, cstream, disp, route, chan, received, handlers, stest, ctl, env>>

\* Mutant: a repeated hello is not recognised.
check_udp_hello_always(i) == IF ~route.present THEN "UnknownToken" ELSE "Accept"

\* The verdict on a hello, taken under the lock of the routes.
check_udp_hello(i) ==
    CASE ~route.present -> "UnknownToken"
      [] route.present /\ i \in route.sockets -> "Resend"
      [] OTHER -> "Accept"

\* The dispatcher takes a hello and acts on its verdict.
Dispatch ==
    /\ disp.st = "idle" /\ hellos # <<>>
    /\ hellos' = Tail(hellos)
    /\ LET i == Head(hellos).idx
       IN  CASE check_udp_hello(i) = "Accept" ->
                  disp' = [st |-> "making", idx |-> i] /\ UNCHANGED net
             [] check_udp_hello(i) = "Resend" ->
                  net' = net \cup {Ack(i)} /\ UNCHANGED disp
             [] OTHER -> UNCHANGED <<net, disp>>
    /\ UNCHANGED <<cphase, cstream, sockbuf, route, chan, received, handlers, stest, ctl, env,
                   history>>

\* create_connected_udp_same_port: refused, and counted in the stream's
\* statistics; or made, and the ack sent from it.
MakeSocket ==
    /\ disp.st = "making"
    /\ IF disp.idx \in env.refused
       THEN /\ history' = [history EXCEPT !.errors = @ + 1]
            /\ disp' = [st |-> "idle"]
            /\ sockbuf' = [sockbuf EXCEPT ![disp.idx] = {}]
            /\ UNCHANGED net
       ELSE /\ disp' = [disp EXCEPT !.st = "made"]
            /\ \/ /\ net' = net \cup {Ack(disp.idx)}
                  /\ history' = [history EXCEPT !.made[disp.idx] = @ + 1]
               \/ /\ history.faults < MaxNetFaults             \* the ack's send fails
                  /\ history' = [history EXCEPT !.made[disp.idx] = @ + 1, !.errors = @ + 1,
                                                !.faults = @ + 1]
                  /\ UNCHANGED net
            /\ UNCHANGED sockbuf
    /\ UNCHANGED <<cphase, cstream, hellos, route, chan, received, handlers, stest, ctl, env>>

\* The socket is stored in the route and handed to the test, unless the test
\* ended meanwhile: then it is dropped.
StoreSocket ==
    /\ disp.st = "made"
    /\ disp' = [st |-> "idle"]
    /\ IF route.present
       THEN /\ route' = [route EXCEPT !.sockets = @ \cup {disp.idx}]
            /\ chan' = IF stest = "running" /\ received # Streams
                       THEN Append(chan, disp.idx) ELSE chan
       ELSE UNCHANGED <<route, chan>>
    /\ UNCHANGED <<cphase, cstream, net, sockbuf, hellos, received, handlers, stest, ctl, env,
                   history>>

(* ------------------------------- The test ------------------------------ *)

\* spawn_single_port_udp_handlers: a socket of a stream not seen yet gets its
\* handler; a second one would be dropped.
CollectSocket ==
    /\ stest = "running" /\ received # Streams /\ chan # <<>>
    /\ LET i == Head(chan)
       IN  /\ received' = received \cup {i}
           /\ handlers' = IF i \in received THEN handlers ELSE handlers \cup {i}
    /\ chan' = Tail(chan)
    /\ UNCHANGED <<cphase, cstream, net, sockbuf, hellos, disp, route, stest, ctl, env, history>>

\* Mutant: a handler drops a retried hello instead of answering it.
ReackDropped(i) ==
    /\ i \in handlers /\ stest = "running"
    /\ \E p \in sockbuf[i] : sockbuf' = [sockbuf EXCEPT ![i] = @ \ {p}]
    /\ UNCHANGED <<cphase, cstream, net, serverHelloVars, ctl, env, history>>

\* A handler reads a hello that was retried: it answers with its own ack,
\* to the client its socket is connected to.
Reack(i) ==
    /\ i \in handlers /\ stest = "running"
    /\ \E p \in sockbuf[i] : sockbuf' = [sockbuf EXCEPT ![i] = @ \ {p}]
    /\ net' = net \cup {Ack(i)}
    /\ UNCHANGED <<cphase, cstream, serverHelloVars, ctl, env, history>>

\* A download's handler sends as soon as it runs.
SendData(i) ==
    /\ i \in handlers /\ stest = "running" /\ env.dir = "download"
    /\ Data(i) \notin net /\ cphase = "handshake"
    /\ cstream[i].st # "done"
    /\ net' = net \cup {Data(i)}
    /\ UNCHANGED <<cphase, cstream, sockbuf, serverHelloVars, ctl, env, history>>

\* The test is cancelled: by the client, or because its time is up.
CancelTest ==
    /\ stest = "running"
    /\ \/ ctl = "cancel" /\ UNCHANGED history
       \/ /\ ~history.expired
          /\ history' = [history EXCEPT !.expired = TRUE]
    /\ stest' = "cancelled"
    /\ UNCHANGED <<cphase, cstream, net, sockbuf, hellos, disp, route, chan, received, handlers,
                   ctl, env>>

\* A handler sees the cancel and returns.
HandlerEnds(i) ==
    /\ stest = "cancelled" /\ i \in handlers
    /\ handlers' = handlers \ {i}
    /\ UNCHANGED <<cphase, cstream, net, sockbuf, hellos, disp, route, chan, received, stest,
                   ctl, env, history>>

\* Mutant: the route outlives the test that failed.
TestEndsKeepsRoute ==
    /\ stest = "cancelled" /\ handlers = {}
    /\ stest' = "ended"
    /\ ctl' = "result"
    /\ chan' = <<>>
    /\ UNCHANGED <<cphase, cstream, net, sockbuf, hellos, disp, route, received, handlers, env,
                   history>>

\* run_test sends the Result and returns; the guard removes the route, and the
\* collection's channel closes.
TestEnds ==
    /\ stest = "cancelled" /\ handlers = {}
    /\ stest' = "ended"
    /\ ctl' = "result"
    /\ route' = [present |-> FALSE, sockets |-> {}]
    /\ chan' = <<>>
    /\ UNCHANGED <<cphase, cstream, net, sockbuf, hellos, disp, received, handlers, env, history>>

\* The network loses a packet.
LoseDatagram ==
    /\ Fault
    /\ \E p \in net : net' = net \ {p}
    /\ UNCHANGED <<cphase, cstream, sockbuf, serverHelloVars, ctl, env>>

HelloSteps ==
    \/ HandshakeFails \/ DataStarts \/ SendSetupCancel \/ FetchResult
    \/ Dispatch \/ MakeSocket \/ StoreSocket \/ CollectSocket \/ CancelTest \/ TestEnds
    \/ LoseDatagram
    \/ \E i \in Streams : \/ SendHello(i) \/ PeekReply(i) \/ RetryTimer(i)
                          \/ Reack(i) \/ SendData(i) \/ HandlerEnds(i)
    \/ \E p \in net : HelloArrives(p)

\* Every task runs when it can, timers fire, and what is not lost arrives.
\* Nothing forces a loss, or the end of the test before its Cancel.
HelloFairness ==
    /\ WF_helloVars(HandshakeFails \/ DataStarts \/ SendSetupCancel \/ FetchResult)
    /\ \A i \in Streams : WF_helloVars(SendHello(i) \/ PeekReply(i) \/ RetryTimer(i))
    /\ WF_helloVars(Dispatch \/ MakeSocket \/ StoreSocket)
    /\ WF_helloVars(CollectSocket) /\ WF_helloVars(ctl = "cancel" /\ CancelTest)
    /\ WF_helloVars(TestEnds \/ \E i \in Streams : HandlerEnds(i))
    /\ \A i \in Streams : WF_helloVars(Reack(i))
    /\ WF_helloVars(\E p \in net : HelloArrives(p))

(* ----------------------------- Properties ------------------------------ *)

(***************************************************************************)
(* Every variable of the UDP setup has its type.                            *)
(***************************************************************************)
HelloTypeOK ==
    /\ cphase \in {"idle", "handshake", "data", "cancel", "fetch", "failed", "explained"}
    /\ cstream \in [Streams -> [st : {"send", "wait", "done"}, attempts : 0..MaxAttempts]]
    /\ \A p \in net : p.kind \in {"hello", "ack", "data"} /\ p.idx \in Streams
    /\ Len(hellos) <= HelloCap
    /\ disp.st \in {"idle", "making", "made"}
    /\ route.sockets \subseteq Streams /\ received \subseteq Streams
    /\ handlers \subseteq received
    /\ stest \in {"none", "running", "cancelled", "ended"}
    /\ ctl \in {"quiet", "cancel", "result"}
    /\ history.faults \in 0..MaxNetFaults

(***************************************************************************)
(* A stream has one server socket, however often its hello is sent, and      *)
(* whichever of the shared and the connected socket the retries reach: two   *)
(* sockets connected to one client would split its data (serve.rs            *)
(* spawn_udp_hello_dispatcher, "gets a fresh ack instead of a duplicate      *)
(* socket").  And data only flows to sockets that exist: once the client      *)
(* sends, every stream has its connected socket, so that the data of a       *)
(* running test never reaches the shared QUIC socket.                        *)
(***************************************************************************)
StreamsHaveSockets ==
    /\ \A i \in Streams : history.made[i] <= 1
    /\ cphase = "data" /\ stest = "running" => \A i \in Streams : SocketOpen(i)

(***************************************************************************)
(* The setup fails for a reason: the server could not make a socket, the     *)
(* test's time ran out, or a stream's every attempt met a fault, a full       *)
(* channel or a socket that was being bound.  Retries make up for anything    *)
(* less.  And the reason is known: when nothing but the server's refusal of   *)
(* the sockets is in the way and its Result is fetched, it counts errors.     *)
(***************************************************************************)
SetupFailsForAReason ==
    /\ cphase \in {"cancel", "fetch", "failed", "explained"} =>
          \/ env.refused # {}
          \/ history.expired
          \/ history.faults + history.strayed >= MaxAttempts
    /\ /\ cphase = "explained" /\ env.refused # {} /\ ~history.expired
       /\ history.faults + history.strayed < MaxAttempts
       => history.errors > 0
=============================================================================
