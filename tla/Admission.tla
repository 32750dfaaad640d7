----------------------------- MODULE Admission -----------------------------
(***************************************************************************)
(* How the server lets clients in (Server::run_until, handle_new_connection *)
(* and rate_limit.rs): the two accept loops, the pre-handshake and handler *)
(* semaphores, the per-IP limiter with its cleanup task, and the shutdown  *)
(* of a one-off server.                                                    *)
(*                                                                         *)
(* A TCP connection passes the ACL, takes a pre-handshake permit, sends    *)
(* its first line and, if that is a Hello, takes a slot of its address and *)
(* then a handler permit.  A QUIC connection takes the handler permit      *)
(* first and the slot second.  Every such access is a step of its own: the *)
(* loops and the connection tasks run on several threads.                  *)
(***************************************************************************)
EXTENDS Integers, FiniteSets

CONSTANTS
    Conns,           \* the connections ever made
    Ips,             \* client addresses
    Allowed,         \* addresses the ACLs let through
    MaxConcurrent,   \* config.max_concurrent
    MaxPerIp,        \* rate_limit.max_per_ip (none: as large as Conns)
    Modes,           \* values of config.one_off
    Transports,      \* transports the clients use
    Clients,         \* who may connect: the address and transport of each connection
    Panics           \* transports whose handler task may panic

ASSUME AdmissionAssumption ==
    /\ IsFiniteSet(Conns)
    /\ Allowed \subseteq Ips
    /\ MaxConcurrent \in Nat \ {0}
    /\ MaxPerIp \in Nat
    /\ Modes \subseteq BOOLEAN
    /\ Transports \subseteq {"tcp", "quic"}
    /\ Clients \subseteq [Conns -> [ip : Ips, via : Transports]]
    /\ Panics \subseteq Transports

VARIABLES
    one_off,      \* config.one_off
    pc,           \* where each connection is
    ip, via,      \* its address and transport
    connFree,     \* permits of conn_semaphore
    handlerFree,  \* permits of handler_semaphore
    entries,      \* addresses with an IpState in RateLimiter.limits
    count,        \* IpState.count
    passed,       \* connections whose test completed successfully
    panicked,     \* history: connections whose handler panicked
    shutdown,     \* the value of the shutdown channel
    signalled,    \* the shutdown future (SIGTERM) has completed
    tcpUp, quicUp \* the accept loops

vars == <<one_off, pc, ip, via, connFree, handlerFree, entries, count, passed, panicked,
          shutdown, signalled, tcpUp, quicUp>>

Labels == {"new", "first", "permit", "slot", "run", "unslotted", "freed", "closed"}

ConnLimit == 4 * MaxConcurrent

TypeOK ==
    /\ one_off \in Modes
    /\ pc \in [Conns -> Labels]
    /\ ip \in [Conns -> Ips]
    /\ via \in [Conns -> Transports]
    /\ connFree \in 0..ConnLimit
    /\ handlerFree \in 0..MaxConcurrent
    /\ entries \subseteq Ips
    /\ count \in [Ips -> 0..MaxPerIp]
    /\ passed \subseteq Conns /\ panicked \subseteq Conns
    /\ shutdown \in BOOLEAN /\ signalled \in BOOLEAN
    /\ tcpUp \in BOOLEAN /\ quicUp \in BOOLEAN

\* Each connection has its address and transport from the start.
Init ==
    /\ one_off \in Modes
    /\ pc = [c \in Conns |-> "new"]
    /\ \E who \in Clients : /\ ip = [c \in Conns |-> who[c].ip]
                            /\ via = [c \in Conns |-> who[c].via]
    /\ connFree = ConnLimit
    /\ handlerFree = MaxConcurrent
    /\ entries = {}
    /\ count = [i \in Ips |-> 0]
    /\ passed = {} /\ panicked = {}
    /\ shutdown = FALSE /\ signalled = FALSE
    /\ tcpUp = TRUE /\ quicUp = TRUE

Goto(c, label) == pc' = [pc EXCEPT ![c] = label]

limiterVars == <<entries, count>>
serverVars == <<one_off, shutdown, signalled, tcpUp, quicUp>>

-----------------------------------------------------------------------------
(* rate_limit.rs.  The entry guard makes check, release and the removal of  *)
(* one entry atomic.                                                       *)

\* current_count(ip); check() inserts a missing entry with this count.
Held(i) == IF i \in entries THEN count[i] ELSE 0

\* check(ip), where it returns Ok.
Admit(i) ==
    /\ Held(i) < MaxPerIp
    /\ entries' = entries \cup {i}
    /\ count' = [count EXCEPT ![i] = Held(i) + 1]

\* check(ip), where it returns Err: the entry is there afterwards.
Refuse(i) ==
    /\ Held(i) >= MaxPerIp
    /\ entries' = entries \cup {i}
    /\ count' = [count EXCEPT ![i] = Held(i)]

\* release(ip): nothing to do for an address without an entry.
Release(i) ==
    /\ count' = IF i \in entries /\ count[i] > 0
                THEN [count EXCEPT ![i] = @ - 1] ELSE count
    /\ UNCHANGED entries

\* Mutant: cleanup looks at the window and not at the count.
CleanupActive(i) ==
    /\ i \in entries
    /\ entries' = entries \ {i}
    /\ UNCHANGED <<pc, ip, via, connFree, handlerFree, count, passed, panicked, serverVars>>

\* cleanup(): an idle entry goes once its window is over.
Cleanup(i) ==
    /\ i \in entries /\ Held(i) = 0
    /\ entries' = entries \ {i}
    /\ UNCHANGED <<pc, ip, via, connFree, handlerFree, count, passed, panicked, serverVars>>

-----------------------------------------------------------------------------
(* TCP *)

\* The TCP accept loop takes a connection.  select! may prefer it to a
\* pending shutdown.
TcpAccept(c) ==
    /\ pc[c] = "new" /\ via[c] = "tcp" /\ tcpUp
    /\ IF ip[c] \in Allowed /\ connFree > 0
       THEN Goto(c, "first") /\ connFree' = connFree - 1
       ELSE Goto(c, "closed") /\ UNCHANGED connFree
    /\ UNCHANGED <<ip, via, handlerFree, limiterVars, passed, panicked, serverVars>>

\* handle_new_connection ends without a Hello: a timeout, a malformed or
\* unexpected line, or a DataHello passed on to its test.
NoHello(c) ==
    /\ pc[c] = "first"
    /\ Goto(c, "closed") /\ connFree' = connFree + 1
    /\ UNCHANGED <<ip, via, handlerFree, limiterVars, passed, panicked, serverVars>>

\* A Hello asks for a slot of its address.
Hello(c) ==
    /\ pc[c] = "first"
    /\ \/ Admit(ip[c]) /\ Goto(c, "permit") /\ UNCHANGED connFree
       \/ Refuse(ip[c]) /\ Goto(c, "closed") /\ connFree' = connFree + 1
    /\ UNCHANGED <<ip, via, handlerFree, passed, panicked, serverVars>>

\* Mutant: the semaphore is only looked at, no permit is taken.
TakePermitLooksOnly(c) ==
    /\ pc[c] = "permit"
    /\ IF handlerFree > 0
       THEN /\ Goto(c, "run")
            /\ connFree' = IF one_off THEN connFree ELSE connFree + 1
            /\ UNCHANGED limiterVars
       ELSE /\ Goto(c, "closed")
            /\ connFree' = connFree + 1
            /\ Release(ip[c])
    /\ UNCHANGED <<ip, via, handlerFree, passed, panicked, serverVars>>

\* handler_semaphore.try_acquire_owned(); without a permit the guard gives
\* the slot back.  A one-off server waits for the test, and keeps the
\* pre-handshake permit meanwhile.
TakePermit(c) ==
    /\ pc[c] = "permit"
    /\ IF handlerFree > 0
       THEN /\ Goto(c, "run")
            /\ handlerFree' = handlerFree - 1
            /\ connFree' = IF one_off THEN connFree ELSE connFree + 1
            /\ UNCHANGED limiterVars
       ELSE /\ Goto(c, "closed")
            /\ connFree' = connFree + 1
            /\ Release(ip[c])
            /\ UNCHANGED handlerFree
    /\ UNCHANGED <<ip, via, passed, panicked, serverVars>>

-----------------------------------------------------------------------------
(* QUIC: one task accepts, checks and spawns. *)

QuicBusy == \E c \in Conns : pc[c] = "slot"

QuicAccept(c) ==
    /\ pc[c] = "new" /\ via[c] = "quic" /\ quicUp /\ ~QuicBusy
    /\ IF ip[c] \in Allowed /\ handlerFree > 0
       THEN Goto(c, "slot") /\ handlerFree' = handlerFree - 1
       ELSE Goto(c, "closed") /\ UNCHANGED handlerFree
    /\ UNCHANGED <<ip, via, connFree, limiterVars, passed, panicked, serverVars>>

\* Mutant: a connection refused by the limiter keeps its permit.
QuicCheckKeepsPermit(c) ==
    /\ pc[c] = "slot"
    /\ \/ Admit(ip[c]) /\ Goto(c, "run")
       \/ Refuse(ip[c]) /\ Goto(c, "closed")
    /\ UNCHANGED <<ip, via, connFree, handlerFree, passed, panicked, serverVars>>

QuicCheck(c) ==
    /\ pc[c] = "slot"
    /\ \/ Admit(ip[c]) /\ Goto(c, "run") /\ UNCHANGED handlerFree
       \/ Refuse(ip[c]) /\ Goto(c, "closed") /\ handlerFree' = handlerFree + 1
    /\ UNCHANGED <<ip, via, connFree, passed, panicked, serverVars>>

-----------------------------------------------------------------------------
(* The handler tasks *)

\* The client is served, with or without success, and its slot released.
ServeEnds(c) ==
    /\ pc[c] = "run"
    /\ Goto(c, "unslotted")
    /\ passed' \in {passed, passed \cup {c}}
    /\ Release(ip[c])
    /\ UNCHANGED <<panicked, ip, via, connFree, handlerFree, serverVars>>

\* The handler panics.  TCP holds the slot in a RateLimitGuard; QUIC calls
\* release() after the handler, so that the slot stays taken.
ServePanics(c) ==
    /\ pc[c] = "run" /\ via[c] \in Panics
    /\ Goto(c, "unslotted")
    /\ panicked' = panicked \cup {c}
    /\ IF via[c] = "tcp" THEN Release(ip[c]) ELSE UNCHANGED limiterVars
    /\ UNCHANGED <<ip, via, connFree, handlerFree, passed, serverVars>>

\* The task drops its permit; then the one-off watcher, if any, is told.
DropPermit(c) ==
    /\ pc[c] = "unslotted"
    /\ handlerFree' = handlerFree + 1
    /\ Goto(c, IF one_off THEN "freed" ELSE "closed")
    /\ UNCHANGED <<ip, via, connFree, limiterVars, passed, panicked, serverVars>>

\* Mutant: a completed QUIC test is not passed on.
NotifyTcpOnly(c) ==
    /\ pc[c] = "freed"
    /\ shutdown' = (shutdown \/ (c \in passed /\ via[c] = "tcp"))
    /\ connFree' = IF via[c] = "tcp" THEN connFree + 1 ELSE connFree
    /\ Goto(c, "closed")
    /\ UNCHANGED <<ip, via, handlerFree, limiterVars, passed, panicked, one_off,
                   signalled, tcpUp, quicUp>>

\* One-off: a completed test shuts the server down.
Notify(c) ==
    /\ pc[c] = "freed"
    /\ shutdown' = (shutdown \/ c \in passed)
    /\ connFree' = IF via[c] = "tcp" THEN connFree + 1 ELSE connFree
    /\ Goto(c, "closed")
    /\ UNCHANGED <<ip, via, handlerFree, limiterVars, passed, panicked, one_off,
                   signalled, tcpUp, quicUp>>

-----------------------------------------------------------------------------
(* Shutdown *)

\* The shutdown future completes, and the TCP loop passes it on.
Sigterm ==
    /\ tcpUp /\ ~signalled
    /\ signalled' = TRUE /\ shutdown' = TRUE /\ tcpUp' = FALSE
    /\ UNCHANGED <<pc, ip, via, connFree, handlerFree, limiterVars, passed, panicked, one_off,
                   quicUp>>

TcpStops ==
    /\ tcpUp /\ shutdown
    /\ tcpUp' = FALSE
    /\ UNCHANGED <<pc, ip, via, connFree, handlerFree, limiterVars, passed, panicked, one_off,
                   shutdown, signalled, quicUp>>

QuicStops ==
    /\ quicUp /\ shutdown /\ ~QuicBusy
    /\ quicUp' = FALSE
    /\ UNCHANGED <<pc, ip, via, connFree, handlerFree, limiterVars, passed, panicked, one_off,
                   shutdown, signalled, tcpUp>>

\* The loops have ended and no connection task is left.
Finished ==
    /\ ~tcpUp /\ ~quicUp
    /\ \A c \in Conns : pc[c] \in {"new", "closed"}
    /\ UNCHANGED vars

ConnStep(c) ==
    \/ TcpAccept(c) \/ NoHello(c) \/ Hello(c) \/ TakePermit(c)
    \/ QuicAccept(c) \/ QuicCheck(c)
    \/ ServeEnds(c) \/ ServePanics(c) \/ DropPermit(c) \/ Notify(c)

Next ==
    \/ \E c \in Conns : ConnStep(c)
    \/ \E i \in Ips : Cleanup(i)
    \/ Sigterm \/ TcpStops \/ QuicStops \/ Finished

Spec == Init /\ [][Next]_vars

\* Tasks that have something to do without the client are run, and an accept
\* loop sees the shutdown value.
Fairness ==
    /\ \A c \in Conns :
         WF_vars(QuicCheck(c)) /\ WF_vars(DropPermit(c)) /\ WF_vars(Notify(c))
    /\ WF_vars(TcpStops) /\ SF_vars(QuicStops)

FairSpec == Spec /\ Fairness

-----------------------------------------------------------------------------
(* Properties *)

HasSlot(c) == pc[c] \in {"permit", "run"}
HasPermit(c) == pc[c] \in {"slot", "run", "unslotted"}
HasConnPermit(c) ==
    \/ pc[c] \in {"first", "permit"}
    \/ one_off /\ via[c] = "tcp" /\ pc[c] \in {"run", "unslotted", "freed"}

\* Slots that are never given back.
Leaked(c) == via[c] = "quic" /\ c \in panicked

\* The limiter counts exactly the connections that hold a slot of the address,
\* however refusals, cleanup and the ends of tests interleave: none is given out
\* twice, and none is lost but by a QUIC handler that panics before its release (serve.rs:850).
SlotsMatch ==
    \A i \in Ips : Held(i) = Cardinality({c \in Conns : ip[c] = i /\ (HasSlot(c) \/ Leaked(c))})

\* The semaphores count exactly those that hold a permit: every path out of a
\* connection returns its permits, a panic included (serve.rs:837).
PermitsMatch ==
    /\ handlerFree + Cardinality({c \in Conns : HasPermit(c)}) = MaxConcurrent
    /\ connFree + Cardinality({c \in Conns : HasConnPermit(c)}) = ConnLimit

\* Never more than max_concurrent tests, nor max_per_ip of one address, though
\* TCP and QUIC take the two in opposite order (serve.rs:806, 1050).  And however many tests of a
\* one-off server keep their pre-handshake permit, three in four are left to connections that have
\* not said what they are, the data connections of those tests among them (serve.rs:745).
LimitsHold ==
    /\ Cardinality({c \in Conns : pc[c] = "run"}) <= MaxConcurrent
    /\ \A i \in Ips : Cardinality({c \in Conns : pc[c] = "run" /\ ip[c] = i}) <= MaxPerIp
    /\ connFree + Cardinality({c \in Conns : HasConnPermit(c) /\ ~HasPermit(c)})
         >= 3 * MaxConcurrent

\* A one-off server serves one test: one completed test, over either transport, ends both accept
\* loops, and without a signal nothing else does; failed handshakes and tests do not (serve.rs:1102).
OneOffEnds ==
    /\ [](shutdown => signalled \/ (one_off /\ passed # {}))
    /\ (one_off /\ passed # {}) ~> (~tcpUp /\ ~quicUp)
=============================================================================
