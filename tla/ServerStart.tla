---------------------------- MODULE ServerStart ----------------------------
(***************************************************************************)
(* Servers that start and stop on one machine (serve.rs, net.rs, quic.rs,  *)
(* acl.rs).                                                                *)
(*                                                                         *)
(* A server binds its TCP listener, tests whether the kernel can carry UDP *)
(* streams on the same port, binds the UDP socket of QUIC there, decides   *)
(* what it advertises, and only then builds its access lists.  With the    *)
(* UDP lane that socket joins an SO_REUSEPORT group, which another server  *)
(* may join: only the TCP listener keeps two servers apart.                *)
(***************************************************************************)
EXTENDS Options

CONSTANTS
    Locals,     \* the machine's addresses: [fam, host]
    Peers,      \* clients' addresses: [fam, host]
    Kernels,    \* what the kernel can do and which ports others hold, see MCLaunch
    Others      \* configurations of a second server

\* An address of --bind is a concrete one, of the server's family (ServerRefused).
ServerFamily(c) ==
    /\ c.family \in Families \cup {"dual"}
    /\ Given(c.bind) => ~c.bind.any /\ c.bind.fam = c.family
ASSUME ServersAssumption ==
    (\A l \in Locals : l.fam \in Families) /\ \A c \in Others : ServerFamily(c)

VARIABLES
    servers,    \* the servers on this machine; <<>> before they are launched
    kernel      \* [mptcp, precedes, taken]

serverVars == <<servers, kernel>>

\* A server that has bound nothing; tcp and udp are the addresses its sockets cover.
Launched(c) ==
    [pc |-> "start", cfg |-> c, tcp |-> {}, mptcp |-> FALSE, udp |-> {}, reuse |-> FALSE, lane |-> FALSE,
     advertised |-> FALSE, acl |-> Unset]

\* AddressFamily::bind_addr, or the address of --bind.
bind_addr(c) == IF Given(c.bind) THEN c.bind ELSE [fam |-> IF c.family = "v4" THEN "v4" ELSE "v6", any |-> TRUE]

\* The addresses a socket serves: the unspecified IPv6 address includes IPv4 unless v6only.
Covered(addr, v6only) ==
    {l \in Locals : IF addr.any THEN l.fam = addr.fam \/ (addr.fam = "v6" /\ ~v6only)
                    ELSE l.fam = addr.fam /\ l.host = addr.host}

\* set_v6only_for_addr: a concrete IPv6 address never takes mapped IPv4.
v6only_for_addr(addr, family) == addr.any => family = "v6"

\* Bind and listen: an address the machine does not have cannot be bound, and an overlapping
\* listener on the port is in the way, SO_REUSEADDR or not.
ListenerInUse(s, cover) ==
    \/ cover = {} \/ "tcp" \in kernel.taken
    \/ \E t \in DOMAIN servers \ {s} :
          servers[t].cfg.port = servers[s].cfg.port /\ servers[t].tcp \cap cover # {}

\* ServerConfig::validate.
ServerConfigValid(c) == Given(c.limit) => c.window > 0

\* A start that fails and a server that stops let go of their sockets.
Stopping(s) == servers' = [servers EXCEPT ![s].pc = "stopping"]

\* create_tcp_listener_on_addr and create_tcp_listener_auto_mptcp: MPTCP first; only a kernel without
\* it, at the socket or at bind, leads to a TCP listener.
CreateListener(s) ==
    LET c == servers[s].cfg
        cover == Covered(bind_addr(c), v6only_for_addr(bind_addr(c), c.family)) IN
    /\ servers[s].pc = "start"
    /\ \/ (~ServerConfigValid(c) \/ ListenerInUse(s, cover)) /\ Stopping(s)
       \/ /\ ServerConfigValid(c) /\ ~ListenerInUse(s, cover)
          /\ servers' = [servers EXCEPT ![s].pc = "listening", ![s].tcp = cover,
                                        ![s].mptcp = kernel.mptcp = "full"]
    /\ UNCHANGED kernel

\* check_connected_precedence for a class of clients: a peer's datagram reaches the socket connected
\* to it, a stranger's the shared one.
check_connected_precedence(class) == class \in kernel.precedes

\* single_port_udp_self_test: IPv4 clients of a dual-stack lane come mapped and are tested too.
single_port_udp_self_test(family) ==
    CASE family = "v4" -> check_connected_precedence("v4")
      [] family = "v6" -> check_connected_precedence("v6")
      [] OTHER -> check_connected_precedence("v6") /\ check_connected_precedence("mapped")

SelfTest(s) ==
    /\ servers[s].pc = "listening"
    /\ servers' = [servers EXCEPT ![s].pc = "tested", ![s].lane = single_port_udp_self_test(servers[s].cfg.family)]
    /\ UNCHANGED kernel

\* Sockets share addresses of a UDP port only if all of them have SO_REUSEPORT.
UdpInUse(s, cover) ==
    \/ "udp" \in kernel.taken
    \/ \E t \in DOMAIN servers \ {s} :
          /\ servers[t].cfg.port = servers[s].cfg.port /\ servers[t].udp \cap cover # {}
          /\ ~(servers[s].lane /\ servers[t].reuse)

\* create_server_endpoint binds where the listener does.
endpoint_cover(c) == Covered(bind_addr(c), c.family = "v6")

\* The QUIC endpoint, whose tee also receives the hellos of the lane; then the capability list.
CreateEndpoint(s) ==
    LET cover == endpoint_cover(servers[s].cfg) IN
    /\ servers[s].pc = "tested"
    /\ \/ UdpInUse(s, cover) /\ Stopping(s)
       \/ /\ ~UdpInUse(s, cover)
          /\ servers' = [servers EXCEPT ![s].pc = "bound", ![s].udp = cover, ![s].reuse = servers[s].lane,
                                        ![s].advertised = servers[s].lane]
    /\ UNCHANGED kernel

(***************************************************************************)
(* Access lists.  A network is the set of the peers in it; one that does   *)
(* not parse is the empty set.                                             *)
(***************************************************************************)
NoRules == [allow |-> {}, deny |-> {}]

\* Acl::from_file and from_rules: one bad rule spoils the list.
Parses(acl) == {} \notin acl.allow \cup acl.deny

\* AclConfig::build: the rules of the options on top of those of the ACL file.
build(c) ==
    LET file == IF Given(c.acl.aclFile) THEN c.acl.aclFile ELSE NoRules IN
    [allow |-> file.allow \cup c.acl.allow, deny |-> file.deny \cup c.acl.deny]

\* build_preset_acl: an empty list restricts nobody.
build_preset_acl(c) == [allow |-> c.acl.presetClients, deny |-> {}]

\* A client as a socket sees it: IPv4 arrives mapped on a dual-stack one.
Seen(p, c) == [ip |-> p, mapped |-> p.fam = "v4" /\ c.family = "dual"]
normalize_ip(seen) == [seen EXCEPT !.mapped = FALSE]
contains(network, seen) == ~seen.mapped /\ seen.ip \in network

\* Acl::is_allowed: deny first, then the allow list if there is one.
is_allowed(acl, seen) ==
    LET ip == normalize_ip(seen) IN
    /\ ~\E n \in acl.deny : contains(n, ip)
    /\ acl.allow = {} \/ \E n \in acl.allow : contains(n, ip)

\* The security context, and with it the accept loops (see Admission).
BuildSecurity(s) ==
    LET c == servers[s].cfg
        good == Parses(build(c)) /\ Parses(build_preset_acl(c)) IN
    /\ servers[s].pc = "bound"
    /\ \/ ~good /\ Stopping(s)
       \/ /\ good
          /\ servers' = [servers EXCEPT ![s].pc = "serving",
                                        ![s].acl = [main |-> build(c), preset |-> build_preset_acl(c)]]
    /\ UNCHANGED kernel

\* The accept loops let a client through: the main list and the preset must both agree.
LetsIn(s, p) ==
    LET seen == Seen(p, servers[s].cfg) IN
    is_allowed(servers[s].acl.main, seen) /\ is_allowed(servers[s].acl.preset, seen)

\* A signal, or the end of a one-off test.
Shutdown(s) == servers[s].pc = "serving" /\ Stopping(s) /\ UNCHANGED kernel

\* The endpoint's task may keep its socket until the process ends, after the listener is gone.
CloseUdp(s) ==
    /\ servers[s].pc = "stopping" /\ servers[s].udp # {}
    /\ servers' = [servers EXCEPT ![s].udp = {}, ![s].reuse = FALSE]
    /\ UNCHANGED kernel
CloseTcp(s) ==
    /\ servers[s].pc = "stopping" /\ servers[s].tcp # {}
    /\ servers' = [servers EXCEPT ![s].tcp = {}]
    /\ UNCHANGED kernel

\* Mutant: the UDP socket is tested and bound before the listener.
ServersNextUdpFirst ==
    \E s \in DOMAIN servers :
        \/ /\ servers[s].pc = "start" /\ UNCHANGED kernel
           /\ servers' = [servers EXCEPT ![s].pc = "tested",
                                         ![s].lane = single_port_udp_self_test(servers[s].cfg.family)]
        \/ CreateEndpoint(s)
        \/ LET cover == endpoint_cover(servers[s].cfg) IN
           /\ servers[s].pc = "bound" /\ servers[s].tcp = {} /\ UNCHANGED kernel
           /\ IF ListenerInUse(s, cover) THEN Stopping(s) ELSE servers' = [servers EXCEPT ![s].tcp = cover]
        \/ servers[s].tcp # {} /\ BuildSecurity(s)
        \/ Shutdown(s) \/ CloseUdp(s) \/ CloseTcp(s)

ServersNext ==
    \E s \in DOMAIN servers :
        \/ CreateListener(s) \/ SelfTest(s) \/ CreateEndpoint(s) \/ BuildSecurity(s)
        \/ Shutdown(s) \/ CloseUdp(s) \/ CloseTcp(s)

-----------------------------------------------------------------------------
Serving(s) == servers[s].pc = "serving"

\* What the self-test must have shown for a client of this family.
ClassOf(fam, c) == IF fam = "v4" /\ c.family = "dual" THEN "mapped" ELSE fam

\* Where a server answers no other one of the port has a socket, unless it is on its way out: not even
\* one that is still starting and will be refused, although the UDP group would let it take a share of
\* the datagrams (the order of the binds, serve.rs:603; quic.rs:189).  A server answers over UDP
\* exactly where it does over TCP; it advertises the single-port lane only if the kernel routes the
\* streams of every family it serves (net.rs:495); and it lets in nobody whom any source of its rules
\* denies or leaves out, mapped or not (acl.rs:97).
ServersApart ==
    \A s \in DOMAIN servers : Serving(s) =>
        LET me == servers[s]
            c == me.cfg IN
        /\ me.udp = me.tcp /\ me.tcp # {}
        /\ \A t \in DOMAIN servers \ {s} : servers[t].cfg.port = c.port /\ servers[t].pc # "stopping" =>
              me.udp \cap (servers[t].udp \cup servers[t].tcp) = {}
        /\ me.advertised => \A l \in me.udp : ClassOf(l.fam, c) \in kernel.precedes
        /\ \A p \in Peers : LetsIn(s, p) =>
              /\ p \notin UNION c.acl.deny /\ (Given(c.acl.aclFile) => p \notin UNION c.acl.aclFile.deny)
              /\ c.acl.allow # {} => p \in UNION build(c).allow
              /\ c.acl.presetClients # {} => p \in UNION c.acl.presetClients
=============================================================================
