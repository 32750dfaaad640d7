---------------------------- MODULE LaunchProofs ----------------------------
(***************************************************************************)
(* The start of the program (Options), servers on one machine              *)
(* (ServerStart) and the display of a UDP run (LossDisplay), for any       *)
(* options, configuration files, addresses, kernels and runs.              *)
(*                                                                         *)
(* The first part follows the servers: what a server has bound at each     *)
(* stage of its start, and that listeners of one port never overlap.  The  *)
(* second follows a client: the file its defaults come from, the           *)
(* configuration Settings edits, and the run made from it.  The third      *)
(* follows bytes and losses from the receivers to the screen: bars that    *)
(* tile the test, an account of the bytes on their way, and for a single   *)
(* stream one of its losses against the gaps opened at each reading.       *)
(***************************************************************************)
EXTENDS Launch, FiniteSetTheorems, TLAPS

-----------------------------------------------------------------------------
(* What was asked for, and the configuration file.                           *)

Decided == {"resolve", "ready", "connecting", "connected", "running", "failed", "serving"}

AskedInv ==
    /\ stage \in Decided \cup {"start", "refused", "displayed", "launched"}
    /\ stage \in Decided \cup {"start"} => asked \in Asked
    /\ stage \in Decided => TypedDefaults(defaults)

LEMMA AskedInit == LaunchInit => AskedInv
  BY DEF LaunchInit, OptionsInit, AskedInv, Decided

\* The steps that do not touch the options, or only the dialog.
OptionsQuiet == UNCHANGED <<stage, asked, defaults>>

LEMMA AskedStep == AskedInv /\ [LaunchNext]_launchVars => AskedInv'
<1> SUFFICES ASSUME AskedInv, [LaunchNext]_launchVars PROVE AskedInv'
  OBVIOUS
<1>1. CASE LoadConfig
  <2>1. stage = "start" /\ asked \in Asked /\ asked' = asked
    BY <1>1 DEF LoadConfig, AskedInv
  <2>2. TypedOptions(asked) /\ TypedDefaults(NoDefaults)
    BY <2>1, OptionsAssumption DEF OptionsAssumption
  <2>3. CASE stage' = "refused"
    BY <2>3 DEF AskedInv, Decided
  <2>4. CASE stage' = "resolve" /\ defaults' = NoDefaults
    BY <2>1, <2>2, <2>4 DEF AskedInv, Decided
  <2>5. CASE stage' = "resolve" /\ \E f \in Chosen(asked) : defaults' = f.has
    <3>1. PICK f \in Chosen(asked) : defaults' = f.has
      BY <2>5
    <3>2. TypedDefaults(f.has)
      BY <2>2 DEF Chosen, TypedOptions, Given, First
    <3> QED
      BY <2>1, <2>5, <3>1, <3>2 DEF AskedInv, Decided
  <2> QED
    BY <1>1, <2>3, <2>4, <2>5 DEF LoadConfig
<1>2. CASE ResolveClient
  BY <1>2 DEF ResolveClient, AskedInv, Decided
<1>3. CASE ResolveServer
  BY <1>3 DEF ResolveServer, AskedInv, Decided
<1>4. CASE StartRun \/ Connect \/ BindStreams
  BY <1>4 DEF StartRun, Connect, BindStreams, AskedInv, Decided
<1>5. ASSUME OptionsQuiet PROVE AskedInv'
  BY <1>5 DEF OptionsQuiet, AskedInv
<1>6. CASE toggle \/ close \/ move_up \/ move_down \/ switch_tab
  BY <1>5, <1>6 DEF toggle, close, move_up, move_down, switch_tab, DialogKey, OptionsQuiet
<1>7. ASSUME NEW step, value_key(step) PROVE AskedInv'
  BY <1>5, <1>7 DEF value_key, DialogKey, OptionsQuiet
<1>8. CASE on_enter \/ RestartKey
  <2>1. CASE stage' = "connecting" /\ UNCHANGED <<asked, defaults>> /\ Tui
    BY <2>1 DEF AskedInv, Decided, Tui
  <2> QED
    BY <1>5, <1>8, <2>1 DEF on_enter, RestartKey, DialogKey, OptionsQuiet, apply_tui_settings,
       Restarted, Dialog
<1>9. CASE BeginDisplay \/ BeginServe
  BY <1>9 DEF BeginDisplay, BeginServe, Forget, AskedInv, Decided
<1>10. CASE UNCHANGED optionVars
  BY <1>5, <1>10 DEF optionVars, OptionsQuiet
<1> QED
  BY <1>1, <1>2, <1>3, <1>4, <1>6, <1>7, <1>8, <1>9, <1>10
     DEF LaunchNext, OptionsNext, launchVars

-----------------------------------------------------------------------------
(* The servers.                                                              *)

IsServer(r) ==
    r = [pc |-> r.pc, cfg |-> r.cfg, tcp |-> r.tcp, mptcp |-> r.mptcp, udp |-> r.udp,
         reuse |-> r.reuse, lane |-> r.lane, advertised |-> r.advertised, acl |-> r.acl]

Cover(c) == Covered(bind_addr(c), v6only_for_addr(bind_addr(c), c.family))

\* What a server holds at each stage of its start.
ServerInv(r) ==
    /\ IsServer(r) /\ ServerFamily(r.cfg)
    /\ r.pc \in {"start", "listening", "tested", "bound", "serving", "stopping"}
    /\ r.pc = "start" => r.tcp = {}
    /\ r.pc \in {"listening", "tested", "bound", "serving"} => r.tcp = Cover(r.cfg) /\ r.tcp # {}
    /\ r.pc \in {"bound", "serving"} => r.udp = r.tcp
    /\ r.pc \in {"start", "listening", "tested"} => r.udp = {}
    /\ r.pc \in {"start", "listening", "tested"} => ~r.advertised
    /\ r.advertised => r.lane
    /\ r.lane => single_port_udp_self_test(r.cfg.family)
    /\ r.pc = "serving" => r.acl = [main |-> build(r.cfg), preset |-> build_preset_acl(r.cfg)]

\* Listeners of one port do not overlap.
Apart ==
    \A s, t \in DOMAIN servers :
        s # t /\ servers[s].cfg.port = servers[t].cfg.port => servers[s].tcp \cap servers[t].tcp = {}

ServersInv ==
    /\ stage = "serving" => ServerFamily(config)
    /\ servers # <<>> => stage = "launched"
    /\ \A s \in DOMAIN servers : ServerInv(servers[s])
    /\ Apart

\* The QUIC endpoint binds where the listener does: an address that is not the
\* unspecified one never takes mapped IPv4.
LEMMA SameCover ==
    ASSUME NEW c, ServerFamily(c)
    PROVE  endpoint_cover(c) = Cover(c)
  BY DEF endpoint_cover, Cover, Covered, v6only_for_addr, bind_addr, ServerFamily

\* Server s becomes u.
Becomes(s, u) ==
    /\ DOMAIN servers' = DOMAIN servers /\ servers'[s] = u
    /\ \A t \in DOMAIN servers \ {s} : servers'[t] = servers[t]

LEMMA ListenerStep ==
    ASSUME ServersInv, NEW s \in DOMAIN servers, CreateListener(s)
    PROVE  \E u : /\ Becomes(s, u) /\ kernel' = kernel /\ u.cfg = servers[s].cfg
                  /\ ServerInv(u)
                  /\ \A t \in DOMAIN servers \ {s} :
                        servers[t].cfg.port = u.cfg.port => u.tcp \cap servers[t].tcp = {}
<1> DEFINE r == servers[s]
           c == r.cfg
           cover == Cover(c)
<1>0. ServerInv(r) /\ r.pc = "start"
  BY DEF ServersInv, CreateListener
<1>s. IsServer(r)
  BY <1>0 DEF ServerInv
<1>1. CASE Stopping(s)
  <2> DEFINE u == [r EXCEPT !.pc = "stopping"]
  <2>1. Becomes(s, u) /\ kernel' = kernel
    BY <1>1 DEF Stopping, Becomes, CreateListener
  <2>2. ServerInv(u) /\ u.cfg = c /\ u.tcp = r.tcp
    BY <1>0 DEF ServerInv, IsServer
  <2>3. r.tcp = {}
    BY <1>0 DEF ServerInv
  <2> HIDE DEF u
  <2> QED
    BY <2>1, <2>2, <2>3
<1>2. CASE ~ListenerInUse(s, cover) /\ ~Stopping(s)
  <2> DEFINE m == kernel.mptcp = "full"
             u == [r EXCEPT !.pc = "listening", !.tcp = cover, !.mptcp = m]
  <2>1. /\ servers' = [servers EXCEPT ![s].pc = "listening", ![s].tcp = cover, ![s].mptcp = m]
        /\ kernel' = kernel
    BY <1>2 DEF CreateListener, Cover
  <2> HIDE DEF m
  <2>2. cover # {} /\ \A t \in DOMAIN servers \ {s} :
                         servers[t].cfg.port = c.port => cover \cap servers[t].tcp = {}
    BY <1>2 DEF ListenerInUse
  <2> HIDE DEF cover
  <2>b. Becomes(s, u)
    BY <2>1 DEF Becomes
  <2>u. u = [r EXCEPT !.pc = "listening", !.tcp = cover, !.mptcp = m]
    OBVIOUS
  <2> HIDE DEF r, u
  <2>r. u = [pc |-> "listening", cfg |-> r.cfg, tcp |-> cover, mptcp |-> m, udp |-> r.udp,
             reuse |-> r.reuse, lane |-> r.lane, advertised |-> r.advertised, acl |-> r.acl]
    BY <1>s, <2>u DEF IsServer
  <2> USE DEF r
  <2>3. /\ u.cfg = c /\ u.tcp = cover /\ u.pc = "listening" /\ u.lane = r.lane
        /\ u.advertised = r.advertised /\ u.udp = r.udp /\ IsServer(u)
    BY <2>r DEF IsServer
  <2>4. ServerInv(u)
    BY <1>0, <2>2, <2>3 DEF ServerInv, cover
  <2> QED
    BY <2>1, <2>b, <2>2, <2>3, <2>4
<1> QED
  BY <1>1, <1>2 DEF CreateListener, Cover

\* Every other step of a server keeps its listener or lets go of it.
LEMMA LaterStep ==
    ASSUME ServersInv, NEW s \in DOMAIN servers,
           \/ SelfTest(s) \/ CreateEndpoint(s) \/ BuildSecurity(s)
           \/ Shutdown(s) \/ CloseUdp(s) \/ CloseTcp(s)
    PROVE  \E u : /\ Becomes(s, u) /\ kernel' = kernel /\ u.cfg = servers[s].cfg
                  /\ ServerInv(u) /\ u.tcp \subseteq servers[s].tcp
<1> DEFINE r == servers[s]
           c == r.cfg
<1>0. ServerInv(r)
  BY DEF ServersInv
<1>s. IsServer(r)
  BY <1>0 DEF ServerInv
<1>1. CASE Stopping(s) /\ kernel' = kernel
  <2> DEFINE u == [r EXCEPT !.pc = "stopping"]
  <2>1. Becomes(s, u)
    BY <1>1 DEF Stopping, Becomes
  <2>2. ServerInv(u) /\ u.cfg = c /\ u.tcp = r.tcp
    BY <1>0 DEF ServerInv, IsServer
  <2> HIDE DEF u
  <2> QED
    BY <1>1, <2>1, <2>2
<1>2. CASE SelfTest(s)
  <2> DEFINE l == single_port_udp_self_test(c.family)
             u == [r EXCEPT !.pc = "tested", !.lane = l]
  <2>1. /\ servers' = [servers EXCEPT ![s].pc = "tested", ![s].lane = l]
        /\ kernel' = kernel /\ r.pc = "listening"
    BY <1>2 DEF SelfTest
  <2> HIDE DEF l
  <2>b. Becomes(s, u)
    BY <2>1 DEF Becomes
  <2>u. u = [r EXCEPT !.pc = "tested", !.lane = l]
    OBVIOUS
  <2> HIDE DEF r, u
  <2>r. u = [pc |-> "tested", cfg |-> r.cfg, tcp |-> r.tcp, mptcp |-> r.mptcp, udp |-> r.udp,
             reuse |-> r.reuse, lane |-> l, advertised |-> r.advertised, acl |-> r.acl]
    BY <1>s, <2>u DEF IsServer
  <2> USE DEF r
  <2>2. /\ u.cfg = c /\ u.tcp = r.tcp /\ u.pc = "tested" /\ u.lane = l
        /\ u.advertised = r.advertised /\ u.udp = r.udp /\ IsServer(u)
    BY <2>r DEF IsServer
  <2>3. ~r.advertised /\ r.udp = {}
    BY <1>0, <2>1 DEF ServerInv
  <2>4. ServerInv(u)
    BY <1>0, <2>1, <2>2, <2>3 DEF ServerInv, l
  <2> QED
    BY <2>1, <2>b, <2>2, <2>4
<1>3. CASE CreateEndpoint(s) /\ ~Stopping(s)
  <2> DEFINE cover == endpoint_cover(c)
             u == [r EXCEPT !.pc = "bound", !.udp = cover, !.reuse = r.lane, !.advertised = r.lane]
  <2>1. /\ servers' = [servers EXCEPT ![s].pc = "bound", ![s].udp = cover, ![s].reuse = r.lane,
                                       ![s].advertised = r.lane]
        /\ kernel' = kernel /\ r.pc = "tested"
    BY <1>3 DEF CreateEndpoint
  <2>b. Becomes(s, u)
    BY <2>1 DEF Becomes
  <2>u. u = [r EXCEPT !.pc = "bound", !.udp = cover, !.reuse = r.lane, !.advertised = r.lane]
    OBVIOUS
  <2> HIDE DEF r, u
  <2>r. u = [pc |-> "bound", cfg |-> r.cfg, tcp |-> r.tcp, mptcp |-> r.mptcp, udp |-> cover,
             reuse |-> r.lane, lane |-> r.lane, advertised |-> r.lane, acl |-> r.acl]
    BY <1>s, <2>u DEF IsServer
  <2> USE DEF r
  <2>2. /\ u.cfg = c /\ u.tcp = r.tcp /\ u.pc = "bound" /\ u.lane = r.lane /\ u.udp = cover
        /\ u.advertised = r.lane /\ IsServer(u)
    BY <2>r DEF IsServer
  <2>3. cover = r.tcp
    BY <1>0, <2>1, SameCover DEF ServerInv
  <2> HIDE DEF cover
  <2>4. ServerInv(u)
    BY <1>0, <2>1, <2>2, <2>3 DEF ServerInv
  <2> QED
    BY <2>1, <2>b, <2>2, <2>4
<1>4. CASE BuildSecurity(s) /\ ~Stopping(s)
  <2> DEFINE a == [main |-> build(c), preset |-> build_preset_acl(c)]
             u == [r EXCEPT !.pc = "serving", !.acl = a]
  <2>1. /\ servers' = [servers EXCEPT ![s].pc = "serving", ![s].acl = a]
        /\ kernel' = kernel /\ r.pc = "bound"
    BY <1>4 DEF BuildSecurity
  <2> HIDE DEF a
  <2>b. Becomes(s, u)
    BY <2>1 DEF Becomes
  <2>u. u = [r EXCEPT !.pc = "serving", !.acl = a]
    OBVIOUS
  <2> HIDE DEF r, u
  <2>r. u = [pc |-> "serving", cfg |-> r.cfg, tcp |-> r.tcp, mptcp |-> r.mptcp, udp |-> r.udp,
             reuse |-> r.reuse, lane |-> r.lane, advertised |-> r.advertised, acl |-> a]
    BY <1>s, <2>u DEF IsServer
  <2> USE DEF r
  <2>2. /\ u.cfg = c /\ u.tcp = r.tcp /\ u.pc = "serving" /\ u.lane = r.lane /\ u.udp = r.udp
        /\ u.advertised = r.advertised /\ u.acl = a /\ IsServer(u)
    BY <2>r DEF IsServer
  <2>4. ServerInv(u)
    BY <1>0, <2>1, <2>2 DEF ServerInv, a
  <2> QED
    BY <2>1, <2>b, <2>2, <2>4
<1>5. CASE CloseUdp(s)
  <2> DEFINE u == [r EXCEPT !.udp = {}, !.reuse = FALSE]
  <2>1. /\ servers' = [servers EXCEPT ![s].udp = {}, ![s].reuse = FALSE]
        /\ kernel' = kernel /\ r.pc = "stopping"
    BY <1>5 DEF CloseUdp
  <2>b. Becomes(s, u)
    BY <2>1 DEF Becomes
  <2>u. u = [r EXCEPT !.udp = {}, !.reuse = FALSE]
    OBVIOUS
  <2> HIDE DEF r, u
  <2>r. u = [pc |-> r.pc, cfg |-> r.cfg, tcp |-> r.tcp, mptcp |-> r.mptcp, udp |-> {},
             reuse |-> FALSE, lane |-> r.lane, advertised |-> r.advertised, acl |-> r.acl]
    BY <1>s, <2>u DEF IsServer
  <2> USE DEF r
  <2>2. /\ u.cfg = c /\ u.tcp = r.tcp /\ u.pc = r.pc /\ u.lane = r.lane
        /\ u.advertised = r.advertised /\ IsServer(u)
    BY <2>r DEF IsServer
  <2>3. ServerInv(u)
    BY <1>0, <2>1, <2>2 DEF ServerInv
  <2> QED
    BY <2>1, <2>b, <2>2, <2>3
<1>6. CASE CloseTcp(s)
  <2> DEFINE u == [r EXCEPT !.tcp = {}]
  <2>1. Becomes(s, u) /\ kernel' = kernel /\ r.pc = "stopping"
    BY <1>6 DEF CloseTcp, Becomes
  <2>2. ServerInv(u) /\ u.cfg = c /\ u.tcp = {}
    BY <1>0, <2>1 DEF ServerInv, IsServer
  <2> HIDE DEF u
  <2> QED
    BY <2>1, <2>2
<1> QED
  BY <1>1, <1>2, <1>3, <1>4, <1>5, <1>6 DEF CreateEndpoint, BuildSecurity, Shutdown

LEMMA ServersInit == LaunchInit => ServersInv
  BY DEF LaunchInit, OptionsInit, ServersInv, Apart

\* What ServersInv says of is untouched, and no server is being launched.
LEMMA ServersQuiet ==
    ASSUME ServersInv, UNCHANGED serverVars, stage = "launched" => stage' = "launched",
           stage' = "serving" => stage = "serving" /\ config' = config
    PROVE  ServersInv'
<1>1. servers' = servers /\ kernel' = kernel
  BY DEF serverVars
<1> QED
  BY <1>1 DEF ServersInv, Apart, ServerInv, single_port_udp_self_test, check_connected_precedence

LEMMA ResolvedFamily ==
    ASSUME AskedInv, ResolveServer, stage' = "serving"
    PROVE  ServerFamily(config')
<1> DEFINE a == asked
           d == defaults
<1>1. /\ stage = "resolve" /\ a.role = "server" /\ ~ServerRefused(a, d)
      /\ config'.bind = a.bind /\ config'.family = resolve_server_address_family(a, d)
  BY DEF ResolveServer
<1>2. a \in Asked /\ TypedDefaults(d)
  BY <1>1 DEF AskedInv, Decided
<1>3. TypedOptions(a)
  BY <1>2, OptionsAssumption DEF OptionsAssumption
<1>4. /\ a.bind = Unset \/ a.bind.fam \in Families
      /\ a.family \in Maybe(Families) /\ d.family \in Maybe(Families \cup {"dual"})
  BY <1>1, <1>2, <1>3 DEF TypedOptions, TypedDefaults
<1>5. Given(a.bind) => ~a.bind.any
  BY <1>1 DEF ServerRefused
<1> HIDE DEF a, d
<1> QED
  BY <1>1, <1>4, <1>5 DEF ServerFamily, resolve_server_address_family, resolve_address_family, Given, Or, Maybe

LEMMA ServersStep == AskedInv /\ ServersInv /\ [LaunchNext]_launchVars => ServersInv'
<1> SUFFICES ASSUME AskedInv, ServersInv, [LaunchNext]_launchVars PROVE ServersInv'
  OBVIOUS
<1>1. CASE ResolveServer /\ UNCHANGED serverVars
  <2>1. stage = "resolve" /\ stage' \in {"refused", "serving"}
    BY <1>1 DEF ResolveServer
  <2>2. servers = <<>> /\ servers' = <<>>
    BY <1>1, <2>1 DEF ServersInv, serverVars
  <2> QED
    BY <1>1, <2>1, <2>2, ResolvedFamily DEF ServersInv, Apart
<1>2. CASE BeginServe
  <2>1. PICK other \in Others : servers' = <<Launched(config), Launched(other)>>
    BY <1>2 DEF BeginServe
  <2>2. stage = "serving" /\ stage' = "launched"
    BY <1>2 DEF BeginServe, Forget
  <2>3. ServerFamily(config) /\ ServerFamily(other)
    BY <2>2, ServersAssumption DEF ServersInv, ServersAssumption
  <2>4. \A c : ServerFamily(c) => (ServerInv(Launched(c)))'
    BY DEF ServerInv, IsServer, Launched
  <2>5. DOMAIN servers' = {1, 2} /\ servers'[1] = Launched(config) /\ servers'[2] = Launched(other)
    BY <2>1
  <2>6. Launched(config).tcp = {} /\ Launched(other).tcp = {}
    BY DEF Launched
  <2>7. \A s \in DOMAIN servers' : ServerInv(servers[s])'
    BY <2>3, <2>4, <2>5
  <2>8. Apart'
    BY <2>5, <2>6 DEF Apart
  <2> QED
    BY <2>2, <2>7, <2>8 DEF ServersInv
<1>3. CASE ServersNext /\ UNCHANGED <<optionVars, vars>>
  <2>1. PICK s \in DOMAIN servers :
            \/ CreateListener(s) \/ SelfTest(s) \/ CreateEndpoint(s) \/ BuildSecurity(s)
            \/ Shutdown(s) \/ CloseUdp(s) \/ CloseTcp(s)
    BY <1>3 DEF ServersNext
  <2>2. \E u : /\ Becomes(s, u) /\ kernel' = kernel /\ u.cfg = servers[s].cfg /\ ServerInv(u)
               /\ \/ u.tcp \subseteq servers[s].tcp
                  \/ \A t \in DOMAIN servers \ {s} :
                        servers[t].cfg.port = u.cfg.port => u.tcp \cap servers[t].tcp = {}
    <3>1. CASE CreateListener(s)
      BY <3>1, ListenerStep
    <3>2. CASE ~CreateListener(s)
      BY <2>1, <3>2, LaterStep
    <3> QED
      BY <3>1, <3>2
  <2>3. PICK u : /\ Becomes(s, u) /\ kernel' = kernel /\ u.cfg = servers[s].cfg /\ ServerInv(u)
                 /\ \/ u.tcp \subseteq servers[s].tcp
                    \/ \A t \in DOMAIN servers \ {s} :
                          servers[t].cfg.port = u.cfg.port => u.tcp \cap servers[t].tcp = {}
    BY <2>2
  <2>4. \A t \in DOMAIN servers \ {s} :
           servers[t].cfg.port = u.cfg.port => u.tcp \cap servers[t].tcp = {}
    BY <2>3 DEF ServersInv, Apart
  <2>5. stage' = stage /\ config' = config /\ servers # <<>>
    BY <1>3, <2>1 DEF optionVars
  <2>6. \A t \in DOMAIN servers' : ServerInv(servers'[t])
    BY <2>3 DEF Becomes, ServersInv
  <2>7. \A t \in DOMAIN servers' : ServerInv(servers[t])'
    BY <2>3, <2>6 DEF ServerInv, single_port_udp_self_test, check_connected_precedence
  <2>8. Apart'
    BY <2>3, <2>4 DEF Becomes, Apart, ServersInv
  <2> QED
    BY <2>5, <2>7, <2>8 DEF ServersInv
<1>4. CASE BeginDisplay
  <2>1. stage = "running" /\ stage' = "displayed" /\ UNCHANGED serverVars
    BY <1>4 DEF BeginDisplay, Forget
  <2> QED
    BY <2>1, ServersQuiet
<1>5. CASE OptionsNext /\ ~ResolveServer /\ UNCHANGED serverVars
  <2>1. /\ stage = "launched" => stage' = "launched"
        /\ stage' = "serving" => stage = "serving" /\ config' = config
    BY <1>5 DEF OptionsNext, LoadConfig, ResolveClient, StartRun, Connect, BindStreams, toggle, close,
       move_up, move_down, switch_tab, value_key, DialogKey, on_enter, RestartKey, apply_tui_settings,
       Restarted, Tui, Dialog
  <2> QED
    BY <1>5, <2>1, ServersQuiet
<1>6. CASE UNCHANGED <<optionVars, serverVars>>
  BY <1>6, ServersQuiet DEF optionVars
<1> QED
  BY <1>1, <1>2, <1>3, <1>4, <1>5, <1>6 DEF LaunchNext, launchVars

\* Every reachable state has the servers it should have, and every listener its own addresses.
THEOREM ServersInvariant == Spec => [](AskedInv /\ ServersInv)
<1>1. LaunchInit => AskedInv /\ ServersInv
  BY AskedInit, ServersInit
<1>2. AskedInv /\ ServersInv /\ [LaunchNext]_launchVars => (AskedInv /\ ServersInv)'
  BY AskedStep, ServersStep
<1> QED
  BY <1>1, <1>2, PTL DEF Spec

\* A client whom a list lets in is in none of the networks it denies, and in one of those it allows.
LEMMA AllowedClient ==
    ASSUME NEW acl, NEW p, NEW c, is_allowed(acl, Seen(p, c))
    PROVE  p \notin UNION acl.deny /\ (acl.allow # {} => p \in UNION acl.allow)
<1>1. \A n : contains(n, normalize_ip(Seen(p, c))) <=> p \in n
  BY DEF contains, normalize_ip, Seen
<1> QED
  BY <1>1 DEF is_allowed

\* The self-test covers every family of addresses the server answers on.
LEMMA TestedFamilies ==
    ASSUME NEW c, ServerFamily(c), single_port_udp_self_test(c.family), NEW l \in Cover(c)
    PROVE  ClassOf(l.fam, c) \in kernel.precedes
<1>1. l \in Locals /\ l.fam \in Families
  BY ServersAssumption DEF ServersAssumption, Cover, Covered
<1>2. CASE Given(c.bind)
  <2>1. l.fam = c.family /\ c.family \in Families \cup {"dual"}
    BY <1>2 DEF ServerFamily, Cover, Covered, bind_addr
  <2> QED
    BY <1>1, <2>1 DEF ClassOf, Families, single_port_udp_self_test, check_connected_precedence
<1>3. CASE ~Given(c.bind)
  <2>1. c.family \in {"v4", "v6", "dual"}
    BY DEF ServerFamily, Families
  <2>2. c.family # "dual" => l.fam = c.family
    BY <1>1, <1>3, <2>1 DEF Cover, Covered, bind_addr, v6only_for_addr
  <2> QED
    BY <1>1, <2>1, <2>2 DEF ClassOf, Families, single_port_udp_self_test, check_connected_precedence
<1> QED
  BY <1>2, <1>3

LEMMA InvApart == ServersInv => ServersApart
<1> SUFFICES ASSUME ServersInv, NEW s \in DOMAIN servers, Serving(s)
             PROVE  LET me == servers[s]
                        c == me.cfg IN
                    /\ me.udp = me.tcp /\ me.tcp # {}
                    /\ \A t \in DOMAIN servers \ {s} :
                          servers[t].cfg.port = c.port /\ servers[t].pc # "stopping" =>
                              me.udp \cap (servers[t].udp \cup servers[t].tcp) = {}
                    /\ me.advertised => \A l \in me.udp : ClassOf(l.fam, c) \in kernel.precedes
                    /\ \A p \in Peers : LetsIn(s, p) =>
                          /\ p \notin UNION c.acl.deny
                          /\ Given(c.acl.aclFile) => p \notin UNION c.acl.aclFile.deny
                          /\ c.acl.allow # {} => p \in UNION build(c).allow
                          /\ c.acl.presetClients # {} => p \in UNION c.acl.presetClients
  BY DEF ServersApart
<1> DEFINE me == servers[s]
           c == me.cfg
<1>1. \A t \in DOMAIN servers :
         /\ ServerInv(servers[t])
         /\ servers[t].pc # "stopping" => servers[t].udp \subseteq servers[t].tcp
  BY DEF ServersInv, ServerInv
<1>2. ServerInv(me) /\ me.pc = "serving" /\ me.udp = me.tcp /\ me.tcp = Cover(c) /\ me.tcp # {}
  BY <1>1 DEF Serving, ServerInv
<1>3. \A t \in DOMAIN servers \ {s} : servers[t].cfg.port = c.port /\ servers[t].pc # "stopping" =>
         me.udp \cap (servers[t].udp \cup servers[t].tcp) = {}
  BY <1>1, <1>2 DEF ServersInv, Apart
<1>4. me.advertised => \A l \in me.udp : ClassOf(l.fam, c) \in kernel.precedes
  <2>1. ServerFamily(c) /\ (me.advertised => single_port_udp_self_test(c.family))
    BY <1>2 DEF ServerInv
  <2> QED
    BY <1>2, <2>1, TestedFamilies
<1>5. ASSUME NEW p \in Peers, LetsIn(s, p)
      PROVE  /\ p \notin UNION c.acl.deny
             /\ Given(c.acl.aclFile) => p \notin UNION c.acl.aclFile.deny
             /\ c.acl.allow # {} => p \in UNION build(c).allow
             /\ c.acl.presetClients # {} => p \in UNION c.acl.presetClients
  <2>1. me.acl.main = build(c) /\ me.acl.preset = build_preset_acl(c)
    BY <1>2 DEF ServerInv
  <2>2. is_allowed(build(c), Seen(p, c)) /\ is_allowed(build_preset_acl(c), Seen(p, c))
    BY <1>5, <2>1 DEF LetsIn
  <2>3. /\ p \notin UNION build(c).deny /\ (build(c).allow # {} => p \in UNION build(c).allow)
        /\ build_preset_acl(c).allow # {} => p \in UNION build_preset_acl(c).allow
    BY <2>2, AllowedClient
  <2>4. /\ c.acl.deny \subseteq build(c).deny /\ c.acl.allow \subseteq build(c).allow
        /\ Given(c.acl.aclFile) => c.acl.aclFile.deny \subseteq build(c).deny
        /\ build_preset_acl(c).allow = c.acl.presetClients
    BY DEF build, build_preset_acl
  <2> HIDE DEF c
  <2> QED
    BY <2>3, <2>4
<1> QED
  BY <1>2, <1>3, <1>4, <1>5

\* Where a server of a machine answers, no other one of its port that is starting or serving has a
\* socket (serve.rs:603), a server answers over UDP where it answers over TCP, advertises its lane only where the kernel was tested to route it, and lets
\* nobody in whom its rules keep out - for any set of addresses, kernels, rules and configurations.
THEOREM StartedServers == Spec => []ServersApart
  BY ServersInvariant, InvApart, PTL

-----------------------------------------------------------------------------
(* The runs of a client.                                                     *)

HasRun == {"connecting", "connected", "running", "failed"}
Clients == {"ready"} \cup HasRun

\* The shapes of the records.
IsConfig(c) ==
    c = [out |-> c.out, proto |-> c.proto, dir |-> c.dir, streams |-> c.streams, dur |-> c.dur,
         rate |-> c.rate, payload |-> c.payload, mptcp |-> c.mptcp, zerocopy |-> c.zerocopy,
         probe |-> c.probe, family |-> c.family, port |-> c.port, bind |-> c.bind,
         sequential_ports |-> c.sequential_ports]
IsParams(p) == p = [proto |-> p.proto, dir |-> p.dir, streams |-> p.streams, dur |-> p.dur, rate |-> p.rate]
IsDialog(s) ==
    s = [visible |-> s.visible, tab |-> s.tab, sel |-> s.sel, focused |-> s.focused,
         button |-> s.button, edits |-> s.edits, now |-> s.now, was |-> s.was]
IsRun(r) == r = [cfg |-> r.cfg, peer |-> r.peer, control |-> r.control, data |-> r.data]

\* Several streams on a fixed port count on from it.
CountsOn(c) == c.proto # "quic" /\ c.streams > 1 /\ FixedPort(c.bind) => c.sequential_ports
Timed == resolve_client_duration(asked, defaults) # 0

\* The configuration is the one asked for but for what Settings edits, and the screen shows it.
ConfigInv ==
    stage \in Clients =>
        /\ asked.role = "client" /\ IsConfig(config)
        /\ config.payload = asked.payload /\ config.mptcp = asked.mptcp /\ config.zerocopy = asked.zerocopy
        /\ Given(config.bind) => config.bind.port \in 0 .. MaxPort
        /\ config.out.ui # "tui" => CountsOn(config)
        /\ Timed => config.dur # 0
        /\ shown = Params(config)

\* No value the dialog can show would take the time limit off.
DialogInv ==
    stage \in Clients =>
        /\ IsDialog(dialog) /\ IsParams(dialog.now)
        /\ dialog.now.dur \in Nat /\ (Timed => dialog.now.dur # 0)

Effective(c) == IF c.out.ui = "tui" THEN tui_run_config(c) ELSE c

\* A run is of the configuration as it stands, and passed the checks its stage stands for.
RunInv ==
    stage \in HasRun =>
        LET c == run.cfg IN
        /\ IsRun(run) /\ c = Effective(config)
        /\ stage \in {"connected", "running"} =>
              validate(c) /\ validate_tcp_control_port(run.control, c) /\ c.family \in {"dual", run.peer.fam}
        /\ stage = "running" =>
              IF c.proto = "quic" \/ c.probe THEN run.data = <<0>>
              ELSE sequential_bind_base(c) /\ run.data = [i \in 1 .. c.streams |-> stream_bind_port(c, i)]

\* Where the defaults come from.
FileInv ==
    /\ stage \in Decided =>
          \/ Chosen(asked) = {} /\ defaults = NoDefaults
          \/ \E f \in Chosen(asked) : load_from(f) = "ok" /\ defaults = f.has
    /\ stage = "serving" => asked.role = "server" /\ config.psk = Or(asked.psk, defaults.psk)

OptionsInv == AskedInv /\ FileInv /\ ConfigInv /\ DialogInv /\ RunInv

LEMMA OptionsInvInit == LaunchInit => FileInv /\ ConfigInv /\ DialogInv /\ RunInv
  BY DEF LaunchInit, OptionsInit, FileInv, ConfigInv, DialogInv, RunInv, Decided, Clients, HasRun

\* The dialog keeps whole seconds of a limit that is at least one.
LEMMA WholeSeconds ==
    ASSUME NEW t \in Nat, t # 0 => t >= Sec
    PROVE  t \div Sec \in Nat /\ (t # 0 => t \div Sec # 0)
  BY OptionsAssumption DEF OptionsAssumption

LEMMA DurationTyped ==
    ASSUME NEW a \in Asked, NEW d, TypedDefaults(d), ~Refused(a, d)
    PROVE  LET t == resolve_client_duration(a, d) IN t \in Nat /\ (t # 0 => t >= Sec)
<1>1. /\ a.time \in Maybe(Nat) /\ d.secs \in Maybe(Nat) /\ parse_test_duration(a.time)
      /\ Sec \in Nat \ {0} /\ ProbeSecs \in Nat \ {0} /\ DefaultSecs \in Nat \ {0}
  BY OptionsAssumption DEF OptionsAssumption, TypedOptions, TypedDefaults, Refused
<1>2. \A n \in Nat : n * Sec \in Nat /\ (n * Sec # 0 => n * Sec >= Sec)
  BY <1>1
<1>3. CASE Given(a.time)
  <2>1. a.time \in Nat /\ (a.time = 0 \/ a.time >= Sec)
    BY <1>1, <1>3 DEF Given, Maybe, parse_test_duration
  <2>2. resolve_client_duration(a, d) = a.time
    BY <1>3 DEF resolve_client_duration
  <2> QED
    BY <2>1, <2>2
<1>4. CASE ~Given(a.time) /\ a.probe
  <2>1. resolve_client_duration(a, d) = ProbeSecs * Sec
    BY <1>4 DEF resolve_client_duration
  <2> QED
    BY <1>1, <1>2, <2>1
<1>5. CASE ~Given(a.time) /\ ~a.probe /\ Given(a.bytes)
  <2>1. resolve_client_duration(a, d) = 0
    BY <1>5 DEF resolve_client_duration
  <2> QED
    BY <2>1
<1>6. CASE ~Given(a.time) /\ ~a.probe /\ ~Given(a.bytes)
  <2>1. resolve_client_duration(a, d) = Or(d.secs, DefaultSecs) * Sec
    BY <1>6 DEF resolve_client_duration
  <2>2. Or(d.secs, DefaultSecs) \in Nat
    BY <1>1 DEF Or, Given, Maybe
  <2> QED
    BY <1>2, <2>1, <2>2
<1> QED
  BY <1>3, <1>4, <1>5, <1>6

\* Whatever its source, a bind address has a port of 0 .. MaxPort once it is resolved.
LEMMA BindTyped ==
    ASSUME NEW a \in Asked, NEW d, TypedDefaults(d), a.role = "client"
    PROVE  Given(Bind(a, d)) => Bind(a, d).port \in 0 .. MaxPort
<1> DEFINE b == Or(a.bind, d.bind)
           cport == Or(a.cport, d.cport)
<1>1. /\ a.bind \in Maybe(ClientBinds) /\ d.bind \in Maybe(ClientBinds)
      /\ a.cport \in Maybe(0 .. MaxPort) /\ d.cport \in Maybe(0 .. MaxPort) /\ MaxPort \in Nat
  BY OptionsAssumption DEF OptionsAssumption, TypedOptions, TypedDefaults
<1>2. b \in Maybe(ClientBinds) /\ cport \in Maybe(0 .. MaxPort)
  BY <1>1 DEF Or
<1> HIDE DEF b, cport
<1>3. BindOption(a, d) = IF Given(b) /\ ~Given(b.port) THEN [b EXCEPT !.port = 0] ELSE b
  BY DEF BindOption, parse_bind_address, b
<1>4. b = Unset \/ b \in [fam : Families, any : BOOLEAN, port : Maybe(0 .. MaxPort)]
  BY <1>2 DEF Maybe, ClientBinds
<1>5. ASSUME b \in [fam : Families, any : BOOLEAN, port : Maybe(0 .. MaxPort)]
      PROVE  [b EXCEPT !.port = 0] \in [fam : Families, any : BOOLEAN, port : 0 .. MaxPort]
  BY <1>1, <1>5
<1>6. BindOption(a, d) = Unset \/ BindOption(a, d) \in [fam : Families, any : BOOLEAN, port : 0 .. MaxPort]
  <2>1. CASE Given(b) /\ ~Given(b.port)
    BY <1>3, <1>4, <1>5, <2>1 DEF Given
  <2>2. CASE ~Given(b)
    BY <1>3, <2>2 DEF Given
  <2>3. CASE Given(b) /\ Given(b.port)
    <3>1. b \in [fam : Families, any : BOOLEAN, port : Maybe(0 .. MaxPort)] /\ b.port # Unset
      BY <1>4, <2>3 DEF Given
    <3>2. b \in [fam : Families, any : BOOLEAN, port : 0 .. MaxPort]
      BY <3>1 DEF Maybe
    <3> QED
      BY <1>3, <2>3, <3>2
  <2> QED
    BY <2>1, <2>2, <2>3
<1> DEFINE o == BindOption(a, d)
<1>7. Bind(a, d) = CASE ~Given(cport) -> o
                     [] Given(cport) /\ Given(o) -> [o EXCEPT !.port = cport]
                     [] OTHER -> [fam |-> IF resolve_address_family(a.family, d.family) = "v6" THEN "v6" ELSE "v4",
                                  any |-> TRUE, port |-> cport]
  BY DEF Bind, cport
<1> HIDE DEF o
<1>8. CASE ~Given(cport)
  BY <1>6, <1>7, <1>8 DEF o, Given
<1>9. CASE Given(cport) /\ Given(o)
  <2>1. cport \in 0 .. MaxPort /\ o \in [fam : Families, any : BOOLEAN, port : 0 .. MaxPort]
    BY <1>2, <1>6, <1>9 DEF Given, Maybe, o
  <2>2. Bind(a, d) = [o EXCEPT !.port = cport]
    BY <1>7, <1>9
  <2> QED
    BY <2>1, <2>2
<1>10. CASE Given(cport) /\ ~Given(o)
  BY <1>2, <1>7, <1>10 DEF Given, Maybe
<1> QED
  BY <1>8, <1>9, <1>10

\* A configuration made from accepted options.
LEMMA ResolveStep ==
    ASSUME AskedInv, ResolveClient, stage' = "ready"
    PROVE  ConfigInv' /\ DialogInv'
<1> DEFINE a == asked
           d == defaults
<1>1. /\ stage = "resolve" /\ a.role = "client" /\ ~Refused(a, d) /\ asked' = asked /\ defaults' = defaults
      /\ config' = Resolved(a, d) /\ dialog' = NewDialog(config') /\ shown' = Params(config')
  BY DEF ResolveClient
<1>2. a \in Asked /\ TypedDefaults(d)
  BY <1>1 DEF AskedInv, Decided
<1>3. Timed' = (resolve_client_duration(a, d) # 0)
  BY <1>1 DEF Timed
<1>4. resolve_client_duration(a, d) \in Nat /\ (resolve_client_duration(a, d) # 0 => resolve_client_duration(a, d) >= Sec)
  BY <1>1, <1>2, DurationTyped
<1>5. Given(Bind(a, d)) => Bind(a, d).port \in 0 .. MaxPort
  BY <1>1, <1>2, BindTyped
<1>6. validate_bind_address(Bind(a, d), protocol(a), resolve_parallel_streams(a, d), Given(Or(a.cport, d.cport)))
  BY <1>1 DEF Refused
<1>7. /\ protocol(a) # "quic" /\ resolve_parallel_streams(a, d) > 1 /\ FixedPort(Bind(a, d))
      => protocol(a) # "quic" /\ Given(Or(a.cport, d.cport)) /\ resolve_parallel_streams(a, d) > 1
  BY <1>6 DEF validate_bind_address
<1> HIDE DEF a, d
<1> DEFINE c == config'
<1>8. /\ IsConfig(c) /\ c.payload = a.payload /\ c.mptcp = a.mptcp /\ c.zerocopy = a.zerocopy
      /\ c.bind = Bind(a, d) /\ c.proto = protocol(a) /\ c.streams = resolve_parallel_streams(a, d)
      /\ c.dur = resolve_client_duration(a, d)
      /\ c.sequential_ports = (/\ protocol(a) # "quic" /\ Given(Or(a.cport, d.cport))
                               /\ resolve_parallel_streams(a, d) > 1)
  BY <1>1 DEF Resolved, IsConfig, effective_zerocopy
<1>9. CountsOn(c)
  BY <1>7, <1>8 DEF CountsOn
<1>10. ConfigInv'
  BY <1>1, <1>3, <1>5, <1>8, <1>9 DEF ConfigInv, a
<1>11. /\ IsDialog(dialog') /\ dialog'.now = InSecs(Params(c))
  BY <1>1 DEF NewDialog, IsDialog
<1>12. IsParams(dialog'.now) /\ dialog'.now.dur = c.dur \div Sec
  BY <1>11 DEF InSecs, Params, IsParams
<1>13. dialog'.now.dur \in Nat /\ (resolve_client_duration(a, d) # 0 => dialog'.now.dur # 0)
  BY <1>4, <1>8, <1>12, WholeSeconds
<1>14. DialogInv'
  BY <1>3, <1>11, <1>12, <1>13 DEF DialogInv
<1> QED
  BY <1>10, <1>14

\* One edit of the dialog.
LEMMA EditStep ==
    ASSUME NEW p, IsParams(p), p.dur \in Nat, NEW sel, NEW step
    PROVE  LET q == Edited(p, sel, step) IN
           IsParams(q) /\ q.dur \in Nat /\ (p.dur # 0 => q.dur # 0)
<1> DEFINE q == Edited(p, sel, step)
<1>1. CASE sel = 2
  <2> DEFINE t == IF step = "next" THEN duration_next(p.dur) ELSE duration_prev(p.dur)
  <2>1. t \in Nat \ {0}
    <3>1. DurStep \in Nat \ {0} /\ DurMax \in Nat \ {0}
      BY OptionsAssumption DEF OptionsAssumption
    <3>2. p.dur \div DurStep \in Nat
      BY <3>1
    <3>3. \A n \in Nat : (n + 1) * DurStep \in Nat \ {0} /\ n * DurStep \in Nat
      BY <3>1
    <3>4. duration_next(p.dur) \in Nat \ {0}
      BY <3>1, <3>2, <3>3 DEF duration_next, Least
    <3>5. (IF p.dur > 0 THEN p.dur - 1 ELSE 0) \div DurStep \in Nat
      BY <3>1
    <3>6. duration_prev(p.dur) \in Nat \ {0}
      BY <3>1, <3>3, <3>5 DEF duration_prev, Most
    <3> QED
      BY <3>4, <3>6
  <2>2. q = [p EXCEPT !.dur = t]
    BY <1>1 DEF Edited
  <2> HIDE DEF t, q
  <2> QED
    BY <2>1, <2>2 DEF IsParams, q
<1>2. CASE sel # 2
  <2>1. \/ \E v : q = [p EXCEPT !.streams = v]
        \/ \E v : q = [p EXCEPT !.proto = v]
        \/ \E v : q = [p EXCEPT !.dir = v]
        \/ \E v : q = [p EXCEPT !.rate = v]
    <3>1. CASE sel = 0
      <4>1. q = [p EXCEPT !.streams = IF step = "next" THEN Least(p.streams + 1, MaxStreams) ELSE Most(p.streams - 1, 1)]
        BY <3>1 DEF Edited
      <4> QED
        BY <4>1
    <3>2. CASE sel = 1
      <4>1. q = [p EXCEPT !.proto = Cycle(<<"tcp", "udp", "quic">>, p.proto, step)]
        BY <3>2 DEF Edited
      <4> QED
        BY <4>1
    <3>3. CASE sel = 3
      <4>1. q = [p EXCEPT !.dir = Cycle(<<"upload", "download", "bidir">>, p.dir, step)]
        BY <3>3 DEF Edited
      <4> QED
        BY <4>1
    <3>4. CASE sel \notin {0, 1, 2, 3}
      <4>1. q = [p EXCEPT !.rate = Cycle(BitrateSteps, p.rate, step)]
        BY <3>4 DEF Edited
      <4> QED
        BY <4>1
    <3> QED
      BY <1>2, <3>1, <3>2, <3>3, <3>4
  <2> HIDE DEF q
  <2>2. IsParams(q) /\ q.dur = p.dur
    BY <2>1 DEF IsParams
  <2> QED
    BY <2>2 DEF q
<1> QED
  BY <1>1, <1>2

\* The keys that move about in the dialog leave its values alone.
LEMMA MoveKeys ==
    ASSUME IsDialog(dialog), toggle \/ close \/ move_up \/ move_down \/ switch_tab
    PROVE  IsDialog(dialog') /\ dialog'.now = dialog.now
<1>1. CASE toggle
  <2>1. dialog' = [dialog EXCEPT !.visible = TRUE, !.sel = 0, !.focused = FALSE]
    BY <1>1 DEF toggle, DialogKey
  <2> QED
    BY <2>1 DEF IsDialog
<1>2. CASE close
  <2>1. dialog' = [dialog EXCEPT !.visible = FALSE]
    BY <1>2 DEF close, DialogKey
  <2> QED
    BY <2>1 DEF IsDialog
<1>3. CASE move_up
  <2>1. \E v : \/ dialog' = [dialog EXCEPT !.focused = FALSE, !.sel = v]
               \/ dialog' = [dialog EXCEPT !.sel = v]
    BY <1>3 DEF move_up, DialogKey
  <2> QED
    BY <2>1 DEF IsDialog
<1>4. CASE move_down
  <2>1. \E v : \/ dialog' = [dialog EXCEPT !.focused = TRUE, !.button = v]
               \/ dialog' = [dialog EXCEPT !.sel = v]
    BY <1>4 DEF move_down, DialogKey, FocusButtons
  <2> QED
    BY <2>1 DEF IsDialog
<1>5. CASE switch_tab
  <2>1. \E v : dialog' = [dialog EXCEPT !.tab = v, !.sel = 0, !.focused = FALSE]
    BY <1>5 DEF switch_tab, DialogKey
  <2> QED
    BY <2>1 DEF IsDialog
<1> QED
  BY <1>1, <1>2, <1>3, <1>4, <1>5

LEMMA ValueKeys ==
    ASSUME IsDialog(dialog), IsParams(dialog.now), dialog.now.dur \in Nat, NEW step, value_key(step)
    PROVE  /\ IsDialog(dialog') /\ IsParams(dialog'.now)
           /\ dialog'.now.dur \in Nat /\ (dialog.now.dur # 0 => dialog'.now.dur # 0)
<1>1. CASE dialog' = [dialog EXCEPT !.button = 1 - dialog.button]
  <2>1. IsDialog(dialog') /\ dialog'.now = dialog.now
    BY <1>1 DEF IsDialog
  <2> QED
    BY <2>1
<1>2. CASE dialog' = [dialog EXCEPT !.now = Edited(dialog.now, dialog.sel, step), !.edits = dialog.edits + 1]
  <2> DEFINE q == Edited(dialog.now, dialog.sel, step)
  <2>1. IsParams(q) /\ q.dur \in Nat /\ (dialog.now.dur # 0 => q.dur # 0)
    BY EditStep
  <2> HIDE DEF q
  <2>2. dialog' = [dialog EXCEPT !.now = q, !.edits = dialog.edits + 1]
    BY <1>2 DEF q
  <2>3. IsDialog(dialog') /\ dialog'.now = q
    BY <2>2 DEF IsDialog
  <2> QED
    BY <2>1, <2>3
<1> QED
  BY <1>1, <1>2 DEF value_key, DialogKey

\* Apply in the dialog: the configuration takes the five values over and keeps the rest.
LEMMA ApplyStep ==
    ASSUME IsConfig(config), IsDialog(dialog), apply_tui_settings
    PROVE  /\ IsConfig(config') /\ config'.out = config.out /\ config'.payload = config.payload
           /\ config'.mptcp = config.mptcp /\ config'.zerocopy = config.zerocopy
           /\ config'.bind = config.bind /\ config'.dur = dialog.now.dur * Sec
           /\ shown' = Params(config') /\ IsDialog(dialog') /\ dialog'.now = dialog.now
           /\ stage' = "connecting" /\ run' = NewRun(config') /\ UNCHANGED <<asked, defaults>>
<1> DEFINE n == dialog.now
           c1 == [config EXCEPT !.streams = n.streams, !.proto = n.proto, !.dur = n.dur * Sec]
           c2 == [c1 EXCEPT !.dir = n.dir, !.rate = n.rate]
<1>1. /\ config' = c2 /\ shown' = Params(config') /\ stage' = "connecting" /\ run' = NewRun(config')
      /\ dialog' = [dialog EXCEPT !.visible = FALSE, !.was = n] /\ UNCHANGED <<asked, defaults>>
  BY DEF apply_tui_settings, Restarted
<1> DEFINE t == n.dur * Sec
<1>2. c1 = [config EXCEPT !.streams = n.streams, !.proto = n.proto, !.dur = t]
  OBVIOUS
<1> HIDE DEF c1, t, n
<1>3. /\ IsConfig(c1) /\ c1.out = config.out /\ c1.payload = config.payload
      /\ c1.mptcp = config.mptcp /\ c1.zerocopy = config.zerocopy /\ c1.bind = config.bind /\ c1.dur = t
  BY <1>2 DEF IsConfig
<1>4. config' = [c1 EXCEPT !.dir = n.dir, !.rate = n.rate]
  BY <1>1
<1> HIDE DEF c2
<1>5. /\ IsConfig(config') /\ config'.out = c1.out /\ config'.payload = c1.payload
      /\ config'.mptcp = c1.mptcp /\ config'.zerocopy = c1.zerocopy
      /\ config'.bind = c1.bind /\ config'.dur = c1.dur
  BY <1>3, <1>4 DEF IsConfig
<1>6. IsDialog(dialog') /\ dialog'.now = dialog.now
  BY <1>1 DEF IsDialog
<1> QED
  BY <1>1, <1>3, <1>5, <1>6 DEF t, n

\* What ConfigInv and DialogInv say holds of a client that stays one.
LEMMA SameConfig ==
    ASSUME ConfigInv, stage' \in Clients => stage \in Clients, UNCHANGED <<asked, defaults, config, shown>>
    PROVE  ConfigInv'
  BY DEF ConfigInv, Timed

LEMMA SameDialog ==
    ASSUME DialogInv, stage' \in Clients => stage \in Clients, UNCHANGED <<asked, defaults>>,
           stage \in Clients => /\ IsDialog(dialog') /\ IsParams(dialog'.now) /\ dialog'.now.dur \in Nat
                                /\ dialog.now.dur # 0 => dialog'.now.dur # 0
    PROVE  DialogInv'
  BY DEF DialogInv, Timed

\* The steps of the dialog that end in it.
DialogOnly == UNCHANGED <<stage, asked, defaults, config, run, shown>>

LEMMA SettingsStep ==
    ASSUME AskedInv, ConfigInv, DialogInv, [LaunchNext]_launchVars
    PROVE  ConfigInv' /\ DialogInv'
<1>1. CASE LoadConfig \/ ResolveServer \/ BeginDisplay \/ BeginServe
  <2>1. stage' \notin Clients
    BY <1>1 DEF LoadConfig, ResolveServer, BeginDisplay, BeginServe, Forget, Clients, HasRun
  <2> QED
    BY <2>1 DEF ConfigInv, DialogInv
<1>2. CASE ResolveClient
  <2>1. CASE stage' = "ready"
    BY <1>2, <2>1, ResolveStep
  <2>2. CASE stage' # "ready"
    <3>1. stage' \notin Clients
      BY <1>2, <2>2 DEF ResolveClient, Clients, HasRun
    <3> QED
      BY <3>1 DEF ConfigInv, DialogInv
  <2> QED
    BY <2>1, <2>2
<1>3. CASE StartRun \/ Connect \/ BindStreams \/ RestartKey
  <2>1. stage \in Clients /\ UNCHANGED <<asked, defaults, config, shown, dialog>>
    BY <1>3 DEF StartRun, Connect, BindStreams, RestartKey, Tui, Clients, HasRun
  <2>2. DialogInv'
    BY <2>1, SameDialog DEF DialogInv
  <2> QED
    BY <2>1, <2>2, SameConfig
<1>4. CASE toggle \/ close \/ move_up \/ move_down \/ switch_tab
  <2>1. DialogOnly /\ stage \in Clients
    BY <1>4 DEF toggle, close, move_up, move_down, switch_tab, DialogKey, DialogOnly, Dialog, Tui, Clients, HasRun
  <2>2. IsDialog(dialog') /\ dialog'.now = dialog.now
    BY <1>4, <2>1, MoveKeys DEF DialogInv
  <2>3. DialogInv'
    BY <2>1, <2>2, SameDialog DEF DialogInv, DialogOnly
  <2> QED
    BY <2>1, <2>3, SameConfig DEF DialogOnly
<1>5. ASSUME NEW step, value_key(step) PROVE ConfigInv' /\ DialogInv'
  <2>1. DialogOnly /\ stage \in Clients
    BY <1>5 DEF value_key, DialogKey, DialogOnly, Dialog, Tui, Clients, HasRun
  <2>2. /\ IsDialog(dialog') /\ IsParams(dialog'.now)
        /\ dialog'.now.dur \in Nat /\ (dialog.now.dur # 0 => dialog'.now.dur # 0)
    BY <1>5, <2>1, ValueKeys DEF DialogInv
  <2>3. DialogInv'
    BY <2>1, <2>2, SameDialog DEF DialogOnly
  <2> QED
    BY <2>1, <2>3, SameConfig DEF DialogOnly
<1>6. CASE on_enter
  <2>0. stage \in Clients /\ config.out.ui = "tui"
    BY <1>6 DEF on_enter, Dialog, Tui, Clients, HasRun
  <2>1. CASE DialogKey(FocusButtons(dialog)) \/ DialogKey([dialog EXCEPT !.visible = FALSE])
    <3>1. DialogOnly /\ \E v : \/ dialog' = [dialog EXCEPT !.focused = TRUE, !.button = v]
                               \/ dialog' = [dialog EXCEPT !.visible = v]
      BY <2>1 DEF DialogKey, FocusButtons, DialogOnly
    <3>2. IsDialog(dialog') /\ dialog'.now = dialog.now
      BY <2>0, <3>1 DEF DialogInv, IsDialog
    <3>3. DialogInv'
      BY <2>0, <3>1, <3>2, SameDialog DEF DialogInv, DialogOnly
    <3> QED
      BY <2>0, <3>1, <3>3, SameConfig DEF DialogOnly
  <2>2. CASE apply_tui_settings
    <3>1. IsConfig(config) /\ IsDialog(dialog)
      BY <2>0 DEF ConfigInv, DialogInv
    <3>2. /\ IsConfig(config') /\ config'.out = config.out /\ config'.payload = config.payload
          /\ config'.mptcp = config.mptcp /\ config'.zerocopy = config.zerocopy
          /\ config'.bind = config.bind /\ config'.dur = dialog.now.dur * Sec
          /\ shown' = Params(config') /\ IsDialog(dialog') /\ dialog'.now = dialog.now
          /\ stage' = "connecting" /\ UNCHANGED <<asked, defaults>>
      BY <2>2, <3>1, ApplyStep
    <3>3. DialogInv'
      BY <2>0, <3>2, SameDialog DEF DialogInv
    <3>4. Timed' = Timed
      BY <3>2 DEF Timed
    <3>5. Timed => config'.dur # 0
      <4>1. dialog.now.dur \in Nat /\ (Timed => dialog.now.dur # 0) /\ Sec \in Nat \ {0}
        BY <2>0, OptionsAssumption DEF DialogInv, OptionsAssumption
      <4>2. \A n \in Nat \ {0} : n * Sec # 0
        BY <4>1
      <4> QED
        BY <3>2, <4>1, <4>2
    <3>6. ConfigInv'
      BY <2>0, <3>2, <3>4, <3>5 DEF ConfigInv
    <3> QED
      BY <3>3, <3>6
  <2> QED
    BY <1>6, <2>1, <2>2 DEF on_enter
<1>7. CASE UNCHANGED optionVars
  BY <1>7, SameConfig, SameDialog DEF optionVars, DialogInv
<1> QED
  BY <1>1, <1>2, <1>3, <1>4, <1>5, <1>6, <1>7 DEF LaunchNext, OptionsNext, launchVars

LEMMA FreshRun ==
    ASSUME stage' = "connecting", run' = NewRun(config')
    PROVE  RunInv'
  BY DEF RunInv, NewRun, NoSockets, IsRun, Effective, HasRun

LEMMA RunStep ==
    ASSUME ConfigInv, DialogInv, RunInv, [LaunchNext]_launchVars
    PROVE  RunInv'
<1>1. CASE LoadConfig \/ ResolveClient \/ ResolveServer \/ BeginDisplay \/ BeginServe
  <2>1. stage' \notin HasRun
    BY <1>1 DEF LoadConfig, ResolveClient, ResolveServer, BeginDisplay, BeginServe, Forget, HasRun
  <2> QED
    BY <2>1 DEF RunInv
<1>2. CASE StartRun \/ RestartKey
  BY <1>2, FreshRun DEF StartRun, RestartKey, Restarted
<1>3. CASE apply_tui_settings
  BY <1>3, FreshRun DEF apply_tui_settings, Restarted
<1>4. CASE Connect
  <2>0. stage = "connecting" /\ config' = config /\ IsRun(run) /\ run.cfg = Effective(config)
    BY <1>4 DEF Connect, RunInv, HasRun
  <2>1. CASE stage' = "failed" /\ run' = run
    BY <2>0, <2>1 DEF RunInv, Effective, HasRun
  <2>2. ASSUME validate(run.cfg), NEW i \in Reachable(run.cfg), NEW port,
               stage' = IF validate_tcp_control_port(port, run.cfg) THEN "connected" ELSE "failed",
               run' = [run EXCEPT !.control = port, !.peer = asked.addrs[i]]
        PROVE  RunInv'
    <3>1. IsRun(run') /\ run'.cfg = run.cfg /\ run'.control = port /\ run'.peer = asked.addrs[i]
      BY <2>0, <2>2 DEF IsRun
    <3>2. run.cfg.family \in {"dual", asked.addrs[i].fam}
      BY <2>2 DEF Reachable, First, resolve_host
    <3>3. run'.cfg = Effective(config')
      BY <2>0, <3>1
    <3> QED
      BY <2>2, <3>1, <3>2, <3>3 DEF RunInv
  <2> QED
    BY <1>4, <2>1, <2>2 DEF Connect
<1>5. CASE BindStreams
  <2> DEFINE c == run.cfg
  <2>0. /\ stage = "connected" /\ config' = config /\ IsRun(run) /\ c = Effective(config)
        /\ validate(c) /\ validate_tcp_control_port(run.control, c) /\ c.family \in {"dual", run.peer.fam}
    BY <1>5 DEF BindStreams, RunInv, HasRun
  <2>1. CASE stage' = "failed" /\ run' = run
    BY <2>0, <2>1 DEF RunInv, Effective
  <2>2. CASE stage' # "failed"
    <3> DEFINE d == IF c.proto = "quic" \/ c.probe THEN <<0>>
                    ELSE [i \in 1 .. c.streams |-> stream_bind_port(c, i)]
    <3>1. /\ c.proto = "quic" \/ c.probe \/ sequential_bind_base(c)
          /\ stage' = "running" /\ run' = [run EXCEPT !.data = d]
      BY <1>5, <2>2 DEF BindStreams
    <3>2. d = IF c.proto = "quic" \/ c.probe THEN <<0>>
              ELSE [i \in 1 .. c.streams |-> stream_bind_port(c, i)]
      OBVIOUS
    <3> HIDE DEF d
    <3>3. IsRun(run') /\ run'.cfg = c /\ run'.control = run.control /\ run'.peer = run.peer /\ run'.data = d
      BY <2>0, <3>1 DEF IsRun
    <3>4. run'.cfg = Effective(config')
      BY <2>0, <3>3
    <3> QED
      BY <2>0, <3>1, <3>2, <3>3, <3>4 DEF RunInv
  <2> QED
    BY <1>5, <2>1, <2>2 DEF BindStreams
<1>6. CASE UNCHANGED <<stage, config, run>>
  BY <1>6 DEF RunInv, Effective
<1>7. CASE toggle \/ close \/ move_up \/ move_down \/ switch_tab \/ on_enter \/ \E step \in {"next", "prev"} : value_key(step)
  BY <1>3, <1>6, <1>7 DEF toggle, close, move_up, move_down, switch_tab, on_enter, value_key, DialogKey
<1> QED
  BY <1>1, <1>2, <1>4, <1>5, <1>6, <1>7 DEF LaunchNext, OptionsNext, launchVars, optionVars

LEMMA FileStep ==
    ASSUME FileInv, [LaunchNext]_launchVars
    PROVE  FileInv'
<1>1. CASE LoadConfig
  <2>1. stage' # "serving" /\ asked' = asked
    BY <1>1 DEF LoadConfig
  <2>2. CASE stage' = "refused"
    BY <2>2 DEF FileInv, Decided
  <2>3. CASE stage' # "refused"
    <3>1. \/ Chosen(asked) = {} /\ defaults' = NoDefaults
          \/ \E f \in Chosen(asked) : load_from(f) = "ok" /\ defaults' = f.has
      BY <1>1, <2>3 DEF LoadConfig
    <3>2. Chosen(asked)' = Chosen(asked)
      BY <2>1
    <3> QED
      BY <2>1, <3>1, <3>2 DEF FileInv
  <2> QED
    BY <2>2, <2>3
<1>2. CASE ResolveServer
  <2>1. asked' = asked /\ defaults' = defaults /\ stage = "resolve" /\ asked.role = "server"
    BY <1>2 DEF ResolveServer
  <2>2. stage' = "serving" => config'.psk = Or(asked.psk, defaults.psk)
    BY <1>2 DEF ResolveServer
  <2> QED
    BY <2>1, <2>2 DEF FileInv, Decided
<1>3. CASE BeginDisplay \/ BeginServe
  BY <1>3 DEF BeginDisplay, BeginServe, Forget, FileInv, Decided
<1>4. ASSUME UNCHANGED <<asked, defaults>>, stage' \in Decided => stage \in Decided,
             stage' = "serving" => stage = "serving" /\ config' = config
      PROVE  FileInv'
  BY <1>4 DEF FileInv
<1>5. CASE ResolveClient \/ StartRun \/ Connect \/ BindStreams
  BY <1>4, <1>5 DEF ResolveClient, StartRun, Connect, BindStreams, Decided
<1>6. CASE toggle \/ close \/ move_up \/ move_down \/ switch_tab \/ RestartKey
           \/ on_enter \/ \E step \in {"next", "prev"} : value_key(step)
  BY <1>4, <1>6 DEF toggle, close, move_up, move_down, switch_tab, on_enter, RestartKey, value_key, DialogKey,
     apply_tui_settings, Restarted, Dialog, Tui, Decided
<1>7. CASE UNCHANGED optionVars
  BY <1>4, <1>7 DEF optionVars
<1> QED
  BY <1>1, <1>2, <1>3, <1>5, <1>6, <1>7 DEF LaunchNext, OptionsNext, launchVars

\* The invariant of the options, for any invocations, files and addresses.
THEOREM OptionsInvariant == Spec => []OptionsInv
<1>1. LaunchInit => OptionsInv
  BY AskedInit, OptionsInvInit DEF OptionsInv
<1>2. OptionsInv /\ [LaunchNext]_launchVars => OptionsInv'
  BY AskedStep, FileStep, SettingsStep, RunStep DEF OptionsInv
<1> QED
  BY <1>1, <1>2, PTL DEF Spec

\* tui_run_config changes the four fields that depend on the protocol and no other.
LEMMA TuiConfig ==
    ASSUME NEW c, IsConfig(c)
    PROVE  LET u == tui_run_config(c) IN
           /\ Params(u) = Params(c) /\ u.bind = c.bind /\ u.family = c.family
           /\ u.sequential_ports = (c.proto # "quic" /\ c.streams > 1 /\ FixedPort(c.bind))
           /\ u.payload = IF c.proto = "udp" THEN c.payload ELSE Unset
           /\ u.mptcp = (c.proto = "tcp" /\ c.mptcp)
           /\ u.zerocopy = IF c.proto = "tcp" THEN c.zerocopy ELSE "off"
<1> DEFINE s == c.proto # "quic" /\ c.streams > 1 /\ FixedPort(c.bind)
           p == IF c.proto = "udp" THEN c.payload ELSE Unset
           m == c.proto = "tcp" /\ c.mptcp
           z == IF c.proto = "tcp" THEN c.zerocopy ELSE "off"
           v == [c EXCEPT !.sequential_ports = s, !.payload = p]
           w == [v EXCEPT !.mptcp = m, !.zerocopy = z]
<1>1. tui_run_config(c) = [c EXCEPT !.sequential_ports = s, !.payload = p, !.mptcp = m, !.zerocopy = z]
  <2>1. [c EXCEPT !.sequential_ports = s].payload = c.payload
    BY DEF IsConfig
  <2>2. [c EXCEPT !.sequential_ports = s, !.payload = p].mptcp = c.mptcp
    BY DEF IsConfig
  <2>3. [c EXCEPT !.sequential_ports = s, !.payload = p, !.mptcp = m].zerocopy = c.zerocopy
    BY DEF IsConfig
  <2> QED
    BY <2>1, <2>2, <2>3 DEF tui_run_config
<1>2. tui_run_config(c) = w /\ w = [v EXCEPT !.mptcp = m, !.zerocopy = z]
      /\ v = [c EXCEPT !.sequential_ports = s, !.payload = p]
  BY <1>1
<1> HIDE DEF s, p, m, z, v, w
<1>3. /\ IsConfig(v) /\ Params(v) = Params(c) /\ v.bind = c.bind /\ v.family = c.family
      /\ v.sequential_ports = s /\ v.payload = p
  BY <1>2 DEF IsConfig, Params
<1>4. /\ Params(w) = Params(v) /\ w.bind = v.bind /\ w.family = v.family
      /\ w.sequential_ports = v.sequential_ports /\ w.payload = v.payload
      /\ w.mptcp = m /\ w.zerocopy = z
  BY <1>2, <1>3 DEF IsConfig, Params
<1>5. /\ Params(w) = Params(c) /\ w.bind = c.bind /\ w.family = c.family
      /\ w.sequential_ports = s /\ w.payload = p /\ w.mptcp = m /\ w.zerocopy = z
  BY <1>3, <1>4
<1> QED
  BY <1>2, <1>5 DEF s, p, m, z

\* The ports of a run that bound its sockets.
LEMMA OwnPorts ==
    ASSUME stage = "running", RunInv, CountsOn(run.cfg),
           Given(run.cfg.bind) => run.cfg.bind.port \in 0 .. MaxPort
    PROVE  PortsAreOwn
<1> DEFINE c == run.cfg
           d == run.data
           base == c.bind.port
<1>1. /\ validate(c) /\ validate_tcp_control_port(run.control, c)
      /\ IF c.proto = "quic" \/ c.probe THEN run.data = <<0>>
         ELSE sequential_bind_base(c) /\ run.data = [i \in 1 .. c.streams |-> stream_bind_port(c, i)]
  BY DEF RunInv, HasRun
<1>2. MaxPort \in Nat \ {0} /\ c.streams \in Nat /\ c.streams >= 1
  BY <1>1, OptionsAssumption DEF OptionsAssumption, validate
<1>3. CASE c.proto = "quic" \/ c.probe
  <2>1. DOMAIN d = {1} /\ d[1] = 0
    BY <1>1, <1>3
  <2> QED
    BY <2>1 DEF PortsAreOwn
<1>4. CASE ~(c.proto = "quic" \/ c.probe)
  <2>1. DOMAIN d = 1 .. c.streams /\ \A i \in DOMAIN d : d[i] = stream_bind_port(c, i)
    BY <1>1, <1>4
  <2>2. CASE ~FixedPort(c.bind)
    <3>1. ~c.sequential_ports
      BY <1>1, <1>4, <2>2 DEF sequential_bind_base
    <3>2. \A i \in DOMAIN d : d[i] = 0
      BY <2>1, <2>2, <3>1 DEF stream_bind_port, FixedPort
    <3> QED
      BY <3>2 DEF PortsAreOwn
  <2>3. CASE FixedPort(c.bind)
    <3>1. base \in 1 .. MaxPort /\ Given(c.bind)
      BY <2>3, <1>2 DEF FixedPort
    <3>2. CASE c.sequential_ports
      <4>1. base + c.streams - 1 <= MaxPort
        BY <1>1, <1>4, <3>2 DEF sequential_bind_base
      <4>2. \A i \in DOMAIN d : d[i] = base + (i - 1)
        BY <2>1, <3>1, <3>2 DEF stream_bind_port
      <4>3. c.proto = "tcp" => run.control \notin base .. (base + c.streams - 1)
        BY <1>1, <1>2, <2>3, <3>1, <3>2, <4>1 DEF validate_tcp_control_port, Least
      <4> HIDE DEF c, d, base
      <4>4. \A i \in DOMAIN d : d[i] \in 1 .. MaxPort /\ d[i] \in base .. (base + c.streams - 1)
        BY <1>2, <2>1, <3>1, <4>1, <4>2
      <4>5. \A i, j \in DOMAIN d : i # j => d[i] # d[j]
        BY <2>1, <3>1, <4>2, <1>2
      <4> USE DEF c, d
      <4> QED
        BY <4>3, <4>4, <4>5 DEF PortsAreOwn
    <3>3. CASE ~c.sequential_ports
      <4>1. c.streams = 1
        BY <1>2, <1>4, <2>3, <3>3 DEF CountsOn
      <4>2. DOMAIN d = {1} /\ d[1] = base
        BY <2>1, <3>1, <3>3, <4>1 DEF stream_bind_port
      <4>3. c.proto = "tcp" => run.control # base
        BY <1>1, <2>3, <3>1, <3>3 DEF validate_tcp_control_port
      <4> QED
        BY <3>1, <4>2, <4>3 DEF PortsAreOwn
    <3> QED
      BY <3>2, <3>3
  <2> QED
    BY <2>2, <2>3
<1> QED
  BY <1>3, <1>4

\* A server's defaults are those of the first file that exists.
LEMMA FirstFile ==
    ASSUME OptionsInv, stage = "serving", ~Given(asked.explicit),
           NEW i \in DOMAIN asked.files, asked.files[i].open # "absent",
           \A j \in 1 .. i - 1 : asked.files[j].open = "absent"
    PROVE  config.psk = Or(asked.psk, asked.files[i].has.psk)
<1> DEFINE fs == asked.files
           here == {k \in DOMAIN fs : load_from(fs[k]) \notin Skipped(asked)}
<1>1. asked \in Asked /\ asked.role = "server" /\ config.psk = Or(asked.psk, defaults.psk)
  BY DEF OptionsInv, AskedInv, FileInv, Decided
<1>2. DOMAIN fs \subseteq Nat \ {0}
  BY <1>1, OptionsAssumption DEF OptionsAssumption, TypedOptions
<1>3. \A f : load_from(f) \in Skipped(asked) <=> f.open = "absent"
  <2>1. Skipped(asked) = {"absent"}
    BY <1>1 DEF Skipped
  <2>2. ASSUME NEW f PROVE load_from(f) = "absent" <=> f.open = "absent"
    <3>1. CASE f.open \in {"absent", "denied"}
      <4>1. load_from(f) = f.open
        BY <3>1 DEF load_from
      <4> QED
        BY <4>1
    <3>2. CASE f.open \notin {"absent", "denied"}
      <4>1. load_from(f) \in {"broken", "ok"}
        BY <3>2 DEF load_from
      <4> QED
        BY <3>2, <4>1
    <3> QED
      BY <3>1, <3>2
  <2> QED
    BY <2>1, <2>2
<1>4. here = {k \in DOMAIN fs : fs[k].open # "absent"}
  BY <1>3
<1> HIDE DEF here
<1>5. i \in here /\ \A k \in here : i <= k
  BY <1>2, <1>4
<1>6. First(here) = {i}
  BY <1>2, <1>4, <1>5 DEF First
<1>7. Chosen(asked) = {fs[i]}
  <2>1. Chosen(asked) = {fs[k] : k \in First(here)}
    BY DEF Chosen, here
  <2> QED
    BY <1>6, <2>1
<1>8. defaults = fs[i].has
  BY <1>7 DEF OptionsInv, FileInv, Decided
<1> QED
  BY <1>1, <1>8

LEMMA InvConfigured == OptionsInv => StartsAsConfigured
<1> SUFFICES ASSUME OptionsInv PROVE StartsAsConfigured
  OBVIOUS
<1>1. ASSUME stage = "running"
      PROVE  LET c == run.cfg IN
             /\ PortsAreOwn
             /\ shown = Params(c) /\ c.streams \in 1 .. MaxStreams
             /\ c.dur = 0 => resolve_client_duration(asked, defaults) = 0
             /\ c.proto = "udp" => c.payload = asked.payload
             /\ c.proto = "tcp" => c.mptcp = asked.mptcp /\ c.zerocopy = asked.zerocopy
             /\ c.family \in {"dual", run.peer.fam}
  <2> DEFINE c == run.cfg
  <2>1. /\ RunInv /\ c = Effective(config) /\ validate(c) /\ c.family \in {"dual", run.peer.fam}
    BY <1>1 DEF OptionsInv, RunInv, HasRun
  <2>2. /\ IsConfig(config) /\ shown = Params(config)
        /\ config.payload = asked.payload /\ config.mptcp = asked.mptcp /\ config.zerocopy = asked.zerocopy
        /\ Given(config.bind) => config.bind.port \in 0 .. MaxPort
        /\ config.out.ui # "tui" => CountsOn(config)
        /\ Timed => config.dur # 0
    BY <1>1 DEF OptionsInv, ConfigInv, Clients, HasRun
  <2>3. asked.mptcp \in BOOLEAN
    BY <1>1, OptionsAssumption DEF OptionsInv, AskedInv, Decided, OptionsAssumption, TypedOptions
  <2>4. /\ Params(c) = Params(config) /\ c.bind = config.bind /\ CountsOn(c)
        /\ c.proto = "udp" => c.payload = asked.payload
        /\ c.proto = "tcp" => c.mptcp = asked.mptcp /\ c.zerocopy = asked.zerocopy
    <3>1. CASE config.out.ui # "tui"
      BY <2>1, <2>2, <3>1 DEF Effective
    <3>2. CASE config.out.ui = "tui"
      <4>1. /\ Params(c) = Params(config) /\ c.bind = config.bind
            /\ c.sequential_ports = (config.proto # "quic" /\ config.streams > 1 /\ FixedPort(config.bind))
            /\ c.payload = IF config.proto = "udp" THEN config.payload ELSE Unset
            /\ c.mptcp = (config.proto = "tcp" /\ config.mptcp)
            /\ c.zerocopy = IF config.proto = "tcp" THEN config.zerocopy ELSE "off"
        BY <2>1, <2>2, <3>2, TuiConfig DEF Effective
      <4>2. c.proto = config.proto /\ c.streams = config.streams
        BY <4>1 DEF Params
      <4>3. CountsOn(c)
        BY <4>1, <4>2 DEF CountsOn
      <4>4. c.proto = "tcp" => c.mptcp = asked.mptcp
        BY <2>2, <2>3, <4>1, <4>2
      <4> QED
        BY <2>2, <4>1, <4>2, <4>3, <4>4
    <3> QED
      BY <3>1, <3>2
  <2>5. PortsAreOwn
    BY <1>1, <2>1, <2>2, <2>4, OwnPorts
  <2>6. c.dur = config.dur
    BY <2>4 DEF Params
  <2>7. c.dur = 0 => resolve_client_duration(asked, defaults) = 0
    BY <2>2, <2>6 DEF Timed
  <2>8. c.streams \in 1 .. MaxStreams
    BY <2>1 DEF validate
  <2> QED
    BY <2>1, <2>2, <2>4, <2>5, <2>7, <2>8
<1>2. ASSUME stage = "serving", ~Given(asked.explicit), NEW i \in DOMAIN asked.files,
             asked.files[i].open # "absent", \A j \in 1 .. i - 1 : asked.files[j].open = "absent"
      PROVE  config.psk = Or(asked.psk, asked.files[i].has.psk)
  BY <1>2, FirstFile
<1> QED
  BY <1>1, <1>2 DEF StartsAsConfigured

\* A run is what was asked for, after any number of edits and restarts, whatever the options, the
\* files, the peers' addresses and the ports the system hands out; and a server runs under the first
\* configuration file that exists.
THEOREM RunsAsAsked == Spec => []StartsAsConfigured
  BY OptionsInvariant, InvConfigured, PTL

-----------------------------------------------------------------------------
(* Sums over streams.  SumOf(f) counts the pairs <<s, i>> with i <= f[s],    *)
(* one column of pairs for each stream.                                      *)

\* A column of k pairs has k elements.
LEMMA ColumnSize ==
    ASSUME NEW s, NEW k \in Nat
    PROVE  /\ IsFiniteSet({s} \X (1 .. k))
           /\ Cardinality({s} \X (1 .. k)) = k
<1> DEFINE col == {s} \X (1 .. k)
           f == [i \in 1 .. k |-> <<s, i>>]
<1>1. IsFiniteSet(1 .. k) /\ Cardinality(1 .. k) = k
  BY FS_Interval
<1>2. f \in Bijection(1 .. k, col)
  <2>1. f \in [1 .. k -> col]
    OBVIOUS
  <2>2. \A i, j \in 1 .. k : f[i] = f[j] => i = j
    OBVIOUS
  <2>3. \A p \in col : \E i \in 1 .. k : f[i] = p
    OBVIOUS
  <2> QED
    BY <2>1, <2>2, <2>3 DEF Bijection, Injection, Surjection, IsInjective
<1>3. ExistsBijection(1 .. k, col)
  BY <1>2 DEF ExistsBijection
<1> HIDE DEF col, f
<1>4. IsFiniteSet(col) /\ Cardinality(col) = k
  BY <1>1, <1>3, FS_Bijection
<1> QED
  BY <1>4 DEF col

\* The pairs of finitely many streams are finitely many.
LEMMA SumType ==
    ASSUME NEW n \in Nat, NEW f \in [1 .. n -> Nat]
    PROVE  IsFiniteSet(Units(f)) /\ SumOf(f) \in Nat
<1> DEFINE cols == {{s} \X (1 .. f[s]) : s \in 1 .. n}
           g == [s \in 1 .. n |-> {s} \X (1 .. f[s])]
<1>1. g \in Surjection(1 .. n, cols)
  BY DEF Surjection
<1>2. IsFiniteSet(1 .. n)
  BY FS_Interval
<1>3. \A T \in cols : IsFiniteSet(T)
  <2> SUFFICES ASSUME NEW s \in 1 .. n PROVE IsFiniteSet({s} \X (1 .. f[s]))
    OBVIOUS
  <2> f[s] \in Nat
    OBVIOUS
  <2> QED
    BY ColumnSize
<1>4. Units(f) = UNION cols
  BY DEF Units
<1> HIDE DEF cols, g
<1>5. IsFiniteSet(cols)
  BY <1>1, <1>2, FS_Surjection
<1>6. IsFiniteSet(UNION cols)
  BY <1>3, <1>5, FS_UNION
<1> QED
  BY <1>4, <1>6, FS_CardinalityType DEF SumOf

\* Raising summands does not lower a sum.
LEMMA SumRises ==
    ASSUME NEW n \in Nat, NEW f \in [1 .. n -> Nat], NEW g \in [1 .. n -> Nat],
           \A s \in 1 .. n : f[s] <= g[s]
    PROVE  SumOf(f) <= SumOf(g)
<1>1. IsFiniteSet(Units(g))
  BY SumType
<1>2. Units(f) \subseteq Units(g)
  <2> SUFFICES ASSUME NEW s \in 1 .. n, NEW i \in 1 .. f[s] PROVE <<s, i>> \in Units(g)
    BY DEF Units
  <2> i \in 1 .. g[s]
    OBVIOUS
  <2> QED
    BY DEF Units
<1> QED
  BY <1>1, <1>2, FS_Subset DEF SumOf

\* The sum of zeros, and of a single stream.
LEMMA SumZero ==
    ASSUME NEW n \in Nat, NEW f \in [1 .. n -> Nat], \A s \in 1 .. n : f[s] = 0
    PROVE  SumOf(f) = 0
<1> Units(f) = {}
  BY DEF Units
<1> QED
  BY FS_EmptySet DEF SumOf

LEMMA SumSingle ==
    ASSUME NEW f \in [1 .. 1 -> Nat]
    PROVE  SumOf(f) = f[1]
<1> f[1] \in Nat
  OBVIOUS
<1> Units(f) = {1} \X (1 .. f[1])
  BY DEF Units
<1> QED
  BY ColumnSize DEF SumOf

Below(f, g) == \A s \in DOMAIN f : f[s].got <= g[s].got

\* Sums of readings: their type, growth, zero, and the case of one stream.
LEMMA TotalFacts ==
    \A n \in Nat : \A f \in [1 .. n -> Readings] :
        /\ Total(f) \in Readings
        /\ (\A s \in 1 .. n : f[s] = Zero) => Total(f) = Zero
        /\ n = 1 => Total(f) = f[1]
        /\ \A g \in [1 .. n -> Readings] : Below(f, g) => Total(f).got <= Total(g).got
<1> TAKE n \in Nat
<1> TAKE f \in [1 .. n -> Readings]
<1> DEFINE got(h) == [s \in 1 .. n |-> h[s].got]
           lost(h) == [s \in 1 .. n |-> h[s].lost]
<1>1. \A h \in [1 .. n -> Readings] :
         /\ got(h) \in [1 .. n -> Nat] /\ lost(h) \in [1 .. n -> Nat]
         /\ Total(h) = [got |-> SumOf(got(h)), lost |-> SumOf(lost(h))]
  BY DEF Total, Readings
<1>2. Total(f) \in Readings
  <2> HIDE DEF got, lost
  <2>1. SumOf(got(f)) \in Nat /\ SumOf(lost(f)) \in Nat
    BY <1>1, SumType
  <2> QED
    BY <1>1, <2>1 DEF Readings
<1>3. ASSUME \A s \in 1 .. n : f[s] = Zero PROVE Total(f) = Zero
  <2>1. \A s \in 1 .. n : got(f)[s] = 0 /\ lost(f)[s] = 0
    BY <1>3 DEF Zero
  <2> HIDE DEF got, lost
  <2>2. SumOf(got(f)) = 0 /\ SumOf(lost(f)) = 0
    BY <1>1, <2>1, SumZero
  <2> QED
    BY <1>1, <2>2 DEF Zero
<1>4. ASSUME n = 1 PROVE Total(f) = f[1]
  <2>1. got(f)[1] = f[1].got /\ lost(f)[1] = f[1].lost
    BY <1>4
  <2>2. f[1] = [got |-> f[1].got, lost |-> f[1].lost]
    BY <1>4 DEF Readings
  <2> HIDE DEF got, lost
  <2>3. SumOf(got(f)) = f[1].got /\ SumOf(lost(f)) = f[1].lost
    BY <1>1, <1>4, <2>1, SumSingle
  <2> QED
    BY <1>1, <2>2, <2>3
<1>5. ASSUME NEW g \in [1 .. n -> Readings], Below(f, g) PROVE Total(f).got <= Total(g).got
  <2>1. \A s \in 1 .. n : got(f)[s] <= got(g)[s]
    BY <1>5 DEF Below
  <2> HIDE DEF got, lost
  <2>2. SumOf(got(f)) <= SumOf(got(g))
    BY <1>1, <2>1, SumRises
  <2> QED
    BY <1>1, <2>2
<1> QED
  BY <1>2, <1>3, <1>4, <1>5

-----------------------------------------------------------------------------
(* Increments on their way.  A counter that stands at lo and has the          *)
(* increments w still to come never passes hi: there are marks, one before    *)
(* each increment and one after the last, that lie at least as far apart as   *)
(* the increments.                                                            *)

Marks(w, c) ==
    /\ c \in [1 .. Len(w) + 1 -> Nat]
    /\ \A i, j \in 1 .. Len(w) + 1 : i <= j => c[i] <= c[j]
    /\ \A i \in 1 .. Len(w) : c[i] + w[i] <= c[i + 1]
Climbs(w, lo, hi) == \E c : Marks(w, c) /\ lo <= c[1] /\ c[Len(w) + 1] <= hi

\* Nothing to come; the ends of a climb; one more increment at its end; the first one arrived.
LEMMA ClimbEmpty == \A lo, hi \in Nat : lo <= hi => Climbs(<<>>, lo, hi)
<1> SUFFICES ASSUME NEW lo \in Nat, NEW hi \in Nat, lo <= hi PROVE Climbs(<<>>, lo, hi)
  OBVIOUS
<1> DEFINE c == [i \in 1 .. 1 |-> lo]
<1>1. Len(<<>>) = 0
  OBVIOUS
<1>2. Marks(<<>>, c) /\ c[1] = lo
  BY <1>1 DEF Marks
<1> QED
  BY <1>1, <1>2 DEF Climbs

LEMMA ClimbEnds == \A w \in Seq(Nat), lo, hi \in Nat :
    Climbs(w, lo, hi) => /\ lo <= hi
                         /\ \A h \in Nat : hi <= h => Climbs(w, lo, h)
                         /\ \A l \in Nat : l <= lo => Climbs(w, l, hi)
<1> SUFFICES ASSUME NEW w \in Seq(Nat), NEW lo \in Nat, NEW hi \in Nat, Climbs(w, lo, hi)
             PROVE  /\ lo <= hi
                    /\ \A h \in Nat : hi <= h => Climbs(w, lo, h)
                    /\ \A l \in Nat : l <= lo => Climbs(w, l, hi)
  OBVIOUS
<1>1. PICK c : Marks(w, c) /\ lo <= c[1] /\ c[Len(w) + 1] <= hi
  BY DEF Climbs
<1>2. Len(w) \in Nat
  OBVIOUS
<1>3. c[1] \in Nat /\ c[Len(w) + 1] \in Nat /\ c[1] <= c[Len(w) + 1]
  BY <1>1, <1>2 DEF Marks
<1>4. lo <= hi
  BY <1>1, <1>3
<1>5. ASSUME NEW h \in Nat, hi <= h PROVE Climbs(w, lo, h)
  <2>1. c[Len(w) + 1] <= h
    BY <1>1, <1>3, <1>5
  <2> QED
    BY <1>1, <2>1 DEF Climbs
<1>6. ASSUME NEW l \in Nat, l <= lo PROVE Climbs(w, l, hi)
  <2>1. l <= c[1]
    BY <1>1, <1>3, <1>6
  <2> QED
    BY <1>1, <2>1 DEF Climbs
<1> QED
  BY <1>4, <1>5, <1>6

LEMMA ClimbAppend == \A w \in Seq(Nat), lo, m, k, hi \in Nat :
    Climbs(w, lo, m) /\ m + k <= hi => Climbs(Append(w, k), lo, hi)
<1> SUFFICES ASSUME NEW w \in Seq(Nat), NEW lo \in Nat, NEW m \in Nat, NEW k \in Nat, NEW hi \in Nat,
                    Climbs(w, lo, m), m + k <= hi
             PROVE  Climbs(Append(w, k), lo, hi)
  OBVIOUS
<1>1. PICK c : Marks(w, c) /\ lo <= c[1] /\ c[Len(w) + 1] <= m
  BY DEF Climbs
<1> DEFINE n == Len(w)
           v == Append(w, k)
           d == [i \in 1 .. n + 2 |-> IF i <= n + 1 THEN c[i] ELSE hi]
<1>2. n \in Nat /\ Len(v) = n + 1 /\ v[n + 1] = k /\ \A i \in 1 .. n : v[i] = w[i]
  OBVIOUS
<1>3. /\ c \in [1 .. n + 1 -> Nat]
      /\ \A i, j \in 1 .. n + 1 : i <= j => c[i] <= c[j]
      /\ \A i \in 1 .. n : c[i] + w[i] <= c[i + 1]
  BY <1>1 DEF Marks
<1>4. \A i \in 1 .. n : w[i] \in Nat
  OBVIOUS
<1> HIDE DEF n, v
<1>5. d \in [1 .. n + 2 -> Nat] /\ d[1] = c[1] /\ d[n + 2] = hi
  BY <1>2, <1>3
<1>6. \A i, j \in 1 .. n + 2 : i <= j => d[i] <= d[j]
  <2> SUFFICES ASSUME NEW i \in 1 .. n + 2, NEW j \in 1 .. n + 2, i <= j PROVE d[i] <= d[j]
    OBVIOUS
  <2>1. CASE j <= n + 1
    BY <1>2, <1>3, <2>1
  <2>2. CASE j = n + 2 /\ i <= n + 1
    <3>1. c[i] <= c[n + 1] /\ c[n + 1] \in Nat /\ c[i] \in Nat
      BY <1>2, <1>3, <2>2
    <3> QED
      BY <1>1, <1>2, <2>2, <3>1 DEF n
  <2>3. CASE i = n + 2
    BY <1>2, <2>3
  <2> QED
    BY <1>2, <2>1, <2>2, <2>3
<1>7. \A i \in 1 .. n + 1 : d[i] + v[i] <= d[i + 1]
  <2> SUFFICES ASSUME NEW i \in 1 .. n + 1 PROVE d[i] + v[i] <= d[i + 1]
    OBVIOUS
  <2>1. CASE i \in 1 .. n
    BY <1>2, <1>3, <2>1
  <2>2. CASE i = n + 1
    <3>1. c[n + 1] \in Nat /\ c[n + 1] <= m
      <4>1. c[n + 1] \in Nat
        BY <1>2, <1>3
      <4>2. c[n + 1] <= m
        BY <1>1 DEF n
      <4> QED
        BY <4>1, <4>2
    <3>2. d[i] = c[n + 1] /\ d[i + 1] = hi /\ v[i] = k
      BY <1>2, <2>2
    <3> QED
      BY <3>1, <3>2
  <2> QED
    BY <1>2, <2>1, <2>2
<1> HIDE DEF d
<1>8. Marks(v, d)
  BY <1>2, <1>5, <1>6, <1>7 DEF Marks
<1>9. lo <= d[1] /\ d[Len(v) + 1] <= hi
  BY <1>1, <1>2, <1>5
<1> QED
  BY <1>8, <1>9 DEF Climbs, v

LEMMA ClimbTail == \A w \in Seq(Nat), lo, hi \in Nat :
    Climbs(w, lo, hi) /\ w # <<>> => Climbs(Tail(w), lo + Head(w), hi)
<1> SUFFICES ASSUME NEW w \in Seq(Nat), NEW lo \in Nat, NEW hi \in Nat, Climbs(w, lo, hi), w # <<>>
             PROVE  Climbs(Tail(w), lo + Head(w), hi)
  OBVIOUS
<1>1. PICK c : Marks(w, c) /\ lo <= c[1] /\ c[Len(w) + 1] <= hi
  BY DEF Climbs
<1> DEFINE n == Len(w)
           v == Tail(w)
           d == [i \in 1 .. n |-> c[i + 1]]
<1>2. n \in Nat /\ n > 0 /\ Len(v) = n - 1 /\ (\A i \in 1 .. n - 1 : v[i] = w[i + 1]) /\ Head(w) = w[1]
  OBVIOUS
<1>3. /\ c \in [1 .. n + 1 -> Nat]
      /\ \A i, j \in 1 .. n + 1 : i <= j => c[i] <= c[j]
      /\ \A i \in 1 .. n : c[i] + w[i] <= c[i + 1]
  BY <1>1 DEF Marks
<1>4. \A i \in 1 .. n : w[i] \in Nat
  OBVIOUS
<1>5. lo <= c[1] /\ c[n + 1] <= hi
  BY <1>1
<1> HIDE DEF n, v
<1>6. d \in [1 .. n -> Nat] /\ d[1] = c[2] /\ d[n] = c[n + 1]
  BY <1>2, <1>3
<1>7. \A i, j \in 1 .. n : i <= j => d[i] <= d[j]
  BY <1>2, <1>3
<1>8. \A i \in 1 .. n - 1 : d[i] + v[i] <= d[i + 1]
  BY <1>2, <1>3
<1>9. c[1] + w[1] <= c[2] /\ c[1] \in Nat /\ w[1] \in Nat /\ c[2] \in Nat
  BY <1>2, <1>3, <1>4
<1> HIDE DEF d
<1>10. Marks(v, d)
  <2>1. Len(v) + 1 = n
    BY <1>2
  <2> QED
    BY <1>2, <1>6, <1>7, <1>8, <2>1 DEF Marks
<1>11. lo + Head(w) <= d[1] /\ d[Len(v) + 1] <= hi
  <2>1. Len(v) + 1 = n
    BY <1>2
  <2>2. d[Len(v) + 1] <= hi
    BY <1>5, <1>6, <2>1
  <2>3. Head(w) = w[1] /\ d[1] = c[2] /\ lo <= c[1]
    BY <1>2, <1>5, <1>6
  <2> QED
    BY <1>9, <2>2, <2>3
<1> QED
  BY <1>10, <1>11 DEF Climbs, v

\* The increments that a queue of updates or Intervals carries.
BytesOf(q) == [i \in 1 .. Len(q) |-> q[i].bytes]
LostOf(q) == [i \in 1 .. Len(q) |-> q[i].lost]

Carrier(S) == \A u \in S : u.bytes \in Nat /\ u.lost \in Nat

LEMMA Carried ==
    ASSUME NEW S, Carrier(S)
    PROVE  \A q \in Seq(S) :
              /\ BytesOf(q) \in Seq(Nat) /\ LostOf(q) \in Seq(Nat)
              /\ \A u \in S : /\ BytesOf(Append(q, u)) = Append(BytesOf(q), u.bytes)
                              /\ LostOf(Append(q, u)) = Append(LostOf(q), u.lost)
              /\ q # <<>> => /\ Head(q) \in S /\ Tail(q) \in Seq(S)
                             /\ BytesOf(q) # <<>> /\ LostOf(q) # <<>>
                             /\ Head(BytesOf(q)) = Head(q).bytes /\ BytesOf(Tail(q)) = Tail(BytesOf(q))
                             /\ Head(LostOf(q)) = Head(q).lost /\ LostOf(Tail(q)) = Tail(LostOf(q))
<1> TAKE q \in Seq(S)
<1>1. \A i \in 1 .. Len(q) : q[i] \in S /\ q[i].bytes \in Nat /\ q[i].lost \in Nat
  BY DEF Carrier
<1>2. /\ BytesOf(q) \in Seq(Nat) /\ LostOf(q) \in Seq(Nat)
      /\ Len(BytesOf(q)) = Len(q) /\ Len(LostOf(q)) = Len(q)
  BY <1>1 DEF BytesOf, LostOf
<1>3. ASSUME NEW u \in S
      PROVE  /\ BytesOf(Append(q, u)) = Append(BytesOf(q), u.bytes)
             /\ LostOf(Append(q, u)) = Append(LostOf(q), u.lost)
  BY <1>1, <1>2 DEF BytesOf, LostOf
<1>4. ASSUME q # <<>>
      PROVE  /\ Head(q) \in S /\ Tail(q) \in Seq(S)
             /\ BytesOf(q) # <<>> /\ LostOf(q) # <<>>
             /\ Head(BytesOf(q)) = Head(q).bytes /\ BytesOf(Tail(q)) = Tail(BytesOf(q))
             /\ Head(LostOf(q)) = Head(q).lost /\ LostOf(Tail(q)) = Tail(LostOf(q))
  <2>1. Len(q) \in Nat /\ Len(q) > 0 /\ Head(q) = q[1] /\ Len(Tail(q)) = Len(q) - 1
        /\ Tail(q) \in Seq(S) /\ \A i \in 1 .. Len(q) - 1 : Tail(q)[i] = q[i + 1]
    BY <1>4
  <2>2. Head(q) \in S
    BY <1>1, <2>1
  <2>3. BytesOf(q) # <<>> /\ LostOf(q) # <<>>
    BY <1>2, <2>1
  <2>4. Head(BytesOf(q)) = Head(q).bytes /\ Head(LostOf(q)) = Head(q).lost
    BY <2>1 DEF BytesOf, LostOf
  <2>5. BytesOf(Tail(q)) = Tail(BytesOf(q)) /\ LostOf(Tail(q)) = Tail(LostOf(q))
    BY <2>1 DEF BytesOf, LostOf
  <2> QED
    BY <2>1, <2>2, <2>3, <2>4, <2>5
<1> QED
  BY <1>2, <1>3, <1>4

-----------------------------------------------------------------------------
(* What the counters, the channels and the displays hold.                     *)

Optional == Readings \cup {None}
Intervals == [at : Nat, bytes : Nat, lost : Nat, prog : Optional]
Bars == [packets : Nat, lost : Nat]
Apps == [latest : Optional, prev : Optional, first : Optional, recv : Optional, bytes : Nat, lost : Nat,
         prevLost : Nat, logged : Nat, age : Nat, bars : BOOLEAN, bar : Bars, drawn : Bars]
Printers == [latest : Optional, recv : Optional, bytes : Nat, printed : Nat, row : Nat, rows : Nat,
             guess : BOOLEAN]

\* A direction that does not count stays at zero; reports never run ahead of the counters.
SourceInv ==
    /\ conf \in Confs
    /\ rx \in [Dirs -> [1 .. conf.streams -> Readings]]
    /\ \A d \in Dirs : ~Counts(d) => \A s \in 1 .. conf.streams : rx[d][s] = Zero
    /\ gaps \in [Dirs -> Nat]
    /\ was \in [Dirs -> [1 .. conf.streams -> SUBSET Readings]]
    /\ server \in [sent : Nat, got : Nat, lost : Nat] /\ server.got <= Total(rx["up"]).got
    /\ own \in [base : Nat, sent : Nat] /\ own.base <= Total(rx["down"]).got
ChannelInv ==
    /\ ctl \in Seq(Intervals)
    /\ slots \in [1 .. conf.streams -> Readings]
    /\ filter \in Optional
    /\ hand \in [{"control", "feedback"} -> Updates \cup {None}]
    /\ queue \in Seq(Updates)
ScreenInv ==
    /\ tui \in Apps
    /\ out \in Printers
    /\ result \in [bytes : Nat, lost : Nat]
Shape ==
    /\ phase \in {"idle", "running", "stopping", "joining", "joined", "done"}
    /\ phase # "idle" => SourceInv /\ ChannelInv /\ ScreenInv

\* The display's steps within the program's.
DisplayNext == (\E c \in Confs : Begin(c)) \/ (phase # "idle" /\ Next)

LEMMA DisplaySteps == [LaunchNext]_launchVars => [DisplayNext]_vars
  BY DEF LaunchNext, launchVars, DisplayNext, BeginDisplay, BeginServe

LEMMA ConfFacts ==
    ASSUME NEW c \in Confs
    PROVE  /\ c.dir \in {"upload", "download", "bidir"} /\ c.streams \in Nat /\ c.streams > 0
           /\ c.ui \in {"tui", "print"} /\ c.cum \in BOOLEAN /\ c.omit \in Nat
           /\ c.every \in Nat /\ c.every > 0 /\ c.quiet \in BOOLEAN
  BY DisplayAssumption DEF DisplayAssumption

LEMMA NoReading == None \notin Readings /\ None \notin Updates
  BY DisplayAssumption DEF DisplayAssumption

\* What the readings of one moment add up to.
LEMMA Totals ==
    SourceInv =>
        /\ conf.streams \in Nat /\ conf.streams > 0 /\ conf.dir \in {"upload", "download", "bidir"}
        /\ Total(rx["up"]) \in Readings /\ Total(rx["down"]) \in Readings
        /\ Total(rx["up"]).got \in Nat /\ Total(rx["down"]).got \in Nat
        /\ Total(rx["up"]).lost \in Nat /\ Total(rx["down"]).lost \in Nat
        /\ conf.dir = "upload" => Total(rx["down"]) = Zero
        /\ conf.dir = "download" => Total(rx["up"]) = Zero
<1> SUFFICES ASSUME SourceInv
             PROVE  /\ conf.streams \in Nat /\ conf.streams > 0
                    /\ conf.dir \in {"upload", "download", "bidir"}
                    /\ Total(rx["up"]) \in Readings /\ Total(rx["down"]) \in Readings
                    /\ Total(rx["up"]).got \in Nat /\ Total(rx["down"]).got \in Nat
                    /\ Total(rx["up"]).lost \in Nat /\ Total(rx["down"]).lost \in Nat
                    /\ conf.dir = "upload" => Total(rx["down"]) = Zero
                    /\ conf.dir = "download" => Total(rx["up"]) = Zero
  OBVIOUS
<1>1. conf.streams \in Nat /\ conf.streams > 0 /\ conf.dir \in {"upload", "download", "bidir"}
  BY ConfFacts DEF SourceInv
<1>2. rx["up"] \in [1 .. conf.streams -> Readings] /\ rx["down"] \in [1 .. conf.streams -> Readings]
  BY DEF SourceInv, Dirs
<1>3. Total(rx["up"]) \in Readings /\ Total(rx["down"]) \in Readings
  BY <1>1, <1>2, TotalFacts
<1>4. conf.dir = "upload" => \A s \in 1 .. conf.streams : rx["down"][s] = Zero
  BY DEF SourceInv, Counts, Dirs
<1>5. conf.dir = "download" => \A s \in 1 .. conf.streams : rx["up"][s] = Zero
  BY DEF SourceInv, Counts, Dirs
<1>6. /\ conf.dir = "upload" => Total(rx["down"]) = Zero
      /\ conf.dir = "download" => Total(rx["up"]) = Zero
  BY <1>1, <1>2, <1>4, <1>5, TotalFacts
<1> QED
  BY <1>1, <1>3, <1>6 DEF Readings

\* A packet raises its direction's counters and leaves the others.
LEMMA Received ==
    ASSUME SourceInv, NEW d \in Dirs, NEW s \in Streams, Receive(d, s)
    PROVE  /\ SourceInv'
           /\ Total(rx["up"]).got <= Total(rx'["up"]).got
           /\ Total(rx["down"]).got <= Total(rx'["down"]).got
<1> DEFINE c == rx[d][s]
<1>1. c \in Readings /\ s \in 1 .. conf.streams /\ conf' = conf /\ server' = server /\ own' = own
  <2>1. s \in 1 .. conf.streams /\ rx \in [Dirs -> [1 .. conf.streams -> Readings]]
    BY DEF SourceInv, Streams
  <2>2. conf' = conf /\ server' = server /\ own' = own
    BY DEF Receive
  <2> QED
    BY <2>1, <2>2
<1>2. PICK n \in {[got |-> c.got + 1, lost |-> c.lost], [got |-> c.got + 1, lost |-> c.lost + 1],
                  [got |-> c.got + 1, lost |-> Minus(c.lost, 1)]} :
          /\ rx' = [rx EXCEPT ![d][s] = n]
          /\ gaps' = [gaps EXCEPT ![d] = @ + Minus(n.lost, c.lost)]
          /\ was' = [was EXCEPT ![d][s] = @ \cup {n}]
  BY DEF Receive
<1>3. n \in Readings /\ n.got = c.got + 1 /\ Minus(n.lost, c.lost) \in Nat
  BY <1>1, <1>2 DEF Readings, Minus
<1> HIDE DEF c
<1>4. rx' \in [Dirs -> [1 .. conf.streams -> Readings]]
  BY <1>1, <1>2, <1>3 DEF SourceInv
<1>5. \A e \in Dirs : ~Counts(e)' => \A t \in 1 .. conf'.streams : rx'[e][t] = Zero
  <2> SUFFICES ASSUME NEW e \in Dirs, ~Counts(e)', NEW t \in 1 .. conf.streams PROVE rx'[e][t] = Zero
    BY <1>1
  <2>1. ~Counts(e) /\ Counts(d)
    BY <1>1 DEF Counts, Receive
  <2>2. e # d
    BY <2>1
  <2>3. rx'[e] = rx[e]
    BY <1>2, <2>2 DEF SourceInv
  <2> QED
    BY <2>1, <2>3 DEF SourceInv
<1>6. gaps' \in [Dirs -> Nat] /\ was' \in [Dirs -> [1 .. conf.streams -> SUBSET Readings]]
  <2>1. gaps \in [Dirs -> Nat] /\ was \in [Dirs -> [1 .. conf.streams -> SUBSET Readings]]
    BY DEF SourceInv
  <2>2. was[d][s] \cup {n} \in SUBSET Readings
    BY <1>1, <1>3, <2>1
  <2>3. was' \in [Dirs -> [1 .. conf.streams -> SUBSET Readings]]
    BY <1>1, <1>2, <2>1, <2>2
  <2> QED
    BY <1>2, <1>3, <2>1, <2>3
<1>7. conf.streams \in Nat
  BY Totals
<1>8. ASSUME NEW e \in Dirs PROVE Total(rx[e]).got <= Total(rx'[e]).got
  <2>1. rx[e] \in [1 .. conf.streams -> Readings] /\ rx'[e] \in [1 .. conf.streams -> Readings]
    BY <1>4 DEF SourceInv
  <2>2. \A t \in 1 .. conf.streams : rx[e][t].got <= rx'[e][t].got
    <3> TAKE t \in 1 .. conf.streams
    <3>1. rx[e][t].got \in Nat
      BY <2>1 DEF Readings
    <3>2. CASE e = d /\ t = s
      BY <1>1, <1>2, <1>3, <3>1, <3>2 DEF SourceInv, c
    <3>3. CASE e # d \/ t # s
      <4>1. rx'[e][t] = rx[e][t]
        BY <1>2, <3>3, <2>1 DEF SourceInv
      <4> QED
        BY <3>1, <4>1
    <3> QED
      BY <3>2, <3>3
  <2>3. Below(rx[e], rx'[e])
    BY <2>1, <2>2 DEF Below
  <2> QED
    BY <1>7, <2>1, <2>3, TotalFacts
<1>9. /\ Total(rx["up"]).got <= Total(rx'["up"]).got
      /\ Total(rx["down"]).got <= Total(rx'["down"]).got
  BY <1>8 DEF Dirs
<1>10. /\ Total(rx'["up"]).got \in Nat /\ Total(rx'["down"]).got \in Nat
       /\ Total(rx["up"]).got \in Nat /\ Total(rx["down"]).got \in Nat
  <2>1. rx'["up"] \in [1 .. conf.streams -> Readings] /\ rx'["down"] \in [1 .. conf.streams -> Readings]
    BY <1>4 DEF Dirs
  <2>2. Total(rx'["up"]) \in Readings /\ Total(rx'["down"]) \in Readings
    BY <1>7, <2>1, TotalFacts
  <2> QED
    BY <2>2, Totals DEF Readings
<1>11. /\ server.got \in Nat /\ own.base \in Nat
       /\ server.got <= Total(rx["up"]).got /\ own.base <= Total(rx["down"]).got
  BY DEF SourceInv
<1>12. server.got <= Total(rx'["up"]).got /\ own.base <= Total(rx'["down"]).got
  BY <1>9, <1>10, <1>11
<1>13. SourceInv'
  BY <1>1, <1>4, <1>5, <1>6, <1>12 DEF SourceInv
<1> QED
  BY <1>9, <1>13

-----------------------------------------------------------------------------
(* What the display's operators do.                                           *)

\* A cache takes a reading over only if it is at least as fresh.
LEMMA CacheFacts ==
    \A cache, p \in Optional :
        /\ Latest(cache, p) \in {cache, p}
        /\ Fresher(cache, p) \in {p, None}
        /\ cache # None => /\ Latest(cache, p) # None
                           /\ is_at_least_as_fresh_as(Latest(cache, p), cache)
        /\ cache = None => Latest(cache, p) = p
<1> SUFFICES ASSUME NEW cache \in Optional, NEW p \in Optional
             PROVE  /\ Latest(cache, p) \in {cache, p}
                    /\ Fresher(cache, p) \in {p, None}
                    /\ cache # None => /\ Latest(cache, p) # None
                                       /\ is_at_least_as_fresh_as(Latest(cache, p), cache)
                    /\ cache = None => Latest(cache, p) = p
  OBVIOUS
<1>1. cache # None => is_at_least_as_fresh_as(cache, cache)
  BY DEF Optional, Readings, is_at_least_as_fresh_as, Expected
<1> QED
  BY <1>1 DEF Latest, Fresher

\* A bar's window from a reading to a fresher one has no more losses than packets.
LEMMA WindowFacts ==
    \A latest, prev \in Optional :
        /\ Window(latest, prev) \in Bars
        /\ latest = None \/ prev = None => Window(latest, prev) = [packets |-> 0, lost |-> 0]
        /\ latest # None /\ prev # None /\ is_at_least_as_fresh_as(latest, prev) =>
              /\ Window(latest, prev).packets = Expected(latest) - Expected(prev)
              /\ Window(latest, prev).lost = Minus(latest.lost, prev.lost)
              /\ Window(latest, prev).lost <= Window(latest, prev).packets
  BY DEF Optional, Readings, is_at_least_as_fresh_as, Expected, Window, Minus, Bars

SameBars(r, a) == r.prev = a.prev /\ r.first = a.first /\ r.drawn = a.drawn /\ r.bar = a.bar
Rest(r, a) == r.bytes = a.bytes /\ r.lost = a.lost /\ r.prevLost = a.prevLost /\ r.logged = a.logged
NewBar(r, a) ==
    LET w == Window(r.latest, a.prev) IN
    /\ r.bar = w
    /\ r.prev = IF r.latest = None THEN a.prev ELSE r.latest
    /\ r.drawn = [packets |-> a.drawn.packets + w.packets, lost |-> a.drawn.lost + w.lost]
    /\ r.first = IF a.first = None THEN r.latest ELSE a.first

LEMMA AppendBarFacts ==
    ASSUME NEW a \in Apps, NEW n \in Nat
    PROVE  LET r == [AppendBar(a) EXCEPT !.age = n] IN
           r \in Apps /\ r.latest = a.latest /\ NewBar(r, a) /\ Rest(r, a)
<1> DEFINE w == Window(a.latest, a.prev)
           b == AppendBar(a)
           r == [b EXCEPT !.age = n]
           p == IF a.latest = None THEN a.prev ELSE a.latest
           d == [packets |-> a.drawn.packets + w.packets, lost |-> a.drawn.lost + w.lost]
           f == IF a.first = None THEN a.latest ELSE a.first
<1>1. a.latest \in Optional /\ a.prev \in Optional /\ a.first \in Optional /\ a.drawn \in Bars
  BY DEF Apps
<1>2. w \in Bars /\ p \in Optional /\ f \in Optional
  BY <1>1, WindowFacts
<1>3. d \in Bars
  BY <1>1, <1>2 DEF Bars
<1>4. b = [a EXCEPT !.bars = TRUE, !.bar = w, !.prev = p, !.drawn = d, !.first = f]
  BY DEF AppendBar
<1> HIDE DEF b, w, p, d, f
<1>5. r = [b EXCEPT !.age = n]
  OBVIOUS
<1> HIDE DEF r
<1>6. b = [latest |-> a.latest, prev |-> p, first |-> f, recv |-> a.recv, bytes |-> a.bytes, lost |-> a.lost,
           prevLost |-> a.prevLost, logged |-> a.logged, age |-> a.age, bars |-> TRUE, bar |-> w, drawn |-> d]
  BY <1>4 DEF Apps
<1>7. r = [latest |-> a.latest, prev |-> p, first |-> f, recv |-> a.recv, bytes |-> a.bytes, lost |-> a.lost,
           prevLost |-> a.prevLost, logged |-> a.logged, age |-> n, bars |-> TRUE, bar |-> w, drawn |-> d]
  BY <1>5, <1>6
<1> HIDE DEF r
<1>8. r \in Apps
  BY <1>2, <1>3, <1>7 DEF Apps
<1>9. r.latest = a.latest /\ Rest(r, a)
  BY <1>7 DEF Rest
<1>10. r.bar = w /\ r.prev = p /\ r.drawn = d /\ r.first = f
  BY <1>7
<1>11. NewBar(r, a)
  BY <1>9, <1>10 DEF NewBar, p, d, f, w
<1> QED
  BY <1>8, <1>9, <1>11 DEF r, b

\* Losses are logged up to the highest count seen.
Logs(r, a) ==
    \/ r.prevLost = a.prevLost /\ r.logged = a.logged
    \/ r.prevLost = r.lost /\ r.lost > a.prevLost /\ r.logged <= a.logged + (r.lost - a.prevLost)

LEMMA DetectFacts ==
    ASSUME NEW a \in Apps
    PROVE  LET r == detect_events(a) IN
           r \in Apps /\ r.latest = a.latest /\ r.bytes = a.bytes /\ r.lost = a.lost /\ SameBars(r, a)
           /\ Logs(r, a)
<1> DEFINE r == detect_events(a)
           k == a.logged + (IF a.lost - a.prevLost >= LogAt THEN a.lost - a.prevLost ELSE 0)
<1>1. a.lost \in Nat /\ a.prevLost \in Nat /\ a.logged \in Nat
  BY DEF Apps
<1>2. CASE a.lost <= a.prevLost
  <2>1. r = a
    BY <1>2 DEF detect_events
  <2> QED
    BY <2>1 DEF SameBars, Logs
<1>3. CASE a.lost > a.prevLost
  <2>1. k \in Nat /\ k <= a.logged + (a.lost - a.prevLost)
    BY <1>1, <1>3
  <2>2. r = [a EXCEPT !.prevLost = a.lost, !.logged = k]
    BY <1>1, <1>3 DEF detect_events
  <2> HIDE DEF k, r
  <2>3. r = [latest |-> a.latest, prev |-> a.prev, first |-> a.first, recv |-> a.recv, bytes |-> a.bytes,
             lost |-> a.lost, prevLost |-> a.lost, logged |-> k, age |-> a.age, bars |-> a.bars,
             bar |-> a.bar, drawn |-> a.drawn]
    BY <2>2 DEF Apps
  <2>4. r \in Apps
    BY <2>1, <2>3 DEF Apps
  <2>5. r.latest = a.latest /\ r.bytes = a.bytes /\ r.lost = a.lost /\ SameBars(r, a)
    BY <2>3 DEF SameBars
  <2>6. Logs(r, a)
    BY <1>3, <2>1, <2>3 DEF Logs
  <2> QED
    BY <2>4, <2>5, <2>6 DEF r
<1> QED
  BY <1>1, <1>2, <1>3

LEMMA OnIntervalFacts ==
    ASSUME NEW a \in Apps, NEW u \in Updates
    PROVE  LET r == OnInterval(a, u) IN
           /\ r \in Apps /\ r.latest = a.latest /\ r.bytes = a.bytes + u.bytes
           /\ r.lost = IF a.latest = None THEN a.lost + u.lost ELSE a.latest.lost
           /\ SameBars(r, a) \/ NewBar(r, a)
           /\ Logs(r, a)
<1> DEFINE b == [a EXCEPT !.bytes = @ + u.bytes]
           t == [AppendBar(b) EXCEPT !.age = 0]
           c == IF ~a.bars \/ a.age * 2 >= BarInterval THEN t ELSE b
           n == IF c.latest = None THEN c.lost + u.lost ELSE c.latest.lost
           e == [c EXCEPT !.lost = n]
           r == detect_events(e)
<1>1. u.bytes \in Nat /\ u.lost \in Nat
  BY DEF Updates
<1>2. /\ b = [latest |-> a.latest, prev |-> a.prev, first |-> a.first, recv |-> a.recv,
              bytes |-> a.bytes + u.bytes, lost |-> a.lost, prevLost |-> a.prevLost, logged |-> a.logged,
              age |-> a.age, bars |-> a.bars, bar |-> a.bar, drawn |-> a.drawn]
  BY DEF Apps
<1> HIDE DEF b
<1>3. b \in Apps
  BY <1>1, <1>2 DEF Apps
<1>4. t \in Apps /\ t.latest = b.latest /\ NewBar(t, b) /\ Rest(t, b)
  BY <1>3, AppendBarFacts
<1> HIDE DEF t
<1>5. /\ c \in Apps /\ c.latest = b.latest /\ Rest(c, b)
      /\ SameBars(c, b) \/ NewBar(c, b)
  BY <1>3, <1>4 DEF SameBars, Rest
<1> HIDE DEF c
<1>6. n \in Nat
  BY <1>1, <1>5 DEF Apps, Optional, Readings
<1>7. e = [latest |-> c.latest, prev |-> c.prev, first |-> c.first, recv |-> c.recv, bytes |-> c.bytes,
           lost |-> n, prevLost |-> c.prevLost, logged |-> c.logged, age |-> c.age, bars |-> c.bars,
           bar |-> c.bar, drawn |-> c.drawn]
  <2> HIDE DEF n
  <2> QED
    BY <1>5 DEF Apps
<1> HIDE DEF e
<1>8. e \in Apps
  <2> HIDE DEF n
  <2> QED
    BY <1>5, <1>6, <1>7 DEF Apps
<1>9. /\ e.latest = a.latest /\ e.bytes = a.bytes + u.bytes
      /\ e.prevLost = a.prevLost /\ e.logged = a.logged
      /\ e.lost = IF a.latest = None THEN a.lost + u.lost ELSE a.latest.lost
  BY <1>2, <1>5, <1>7 DEF Rest
<1>10. SameBars(e, a) \/ NewBar(e, a)
  BY <1>2, <1>5, <1>7 DEF SameBars, NewBar
<1>11. /\ r \in Apps /\ r.latest = e.latest /\ r.bytes = e.bytes /\ r.lost = e.lost /\ SameBars(r, e)
       /\ Logs(r, e)
  BY <1>8, DetectFacts
<1>12. r = OnInterval(a, u)
  BY DEF OnInterval, r, e, n, c, t, b
<1> HIDE DEF r
<1>13. SameBars(r, a) \/ NewBar(r, a)
  BY <1>10, <1>11 DEF SameBars, NewBar
<1>14. Logs(r, a)
  BY <1>9, <1>11 DEF Logs
<1> QED
  BY <1>9, <1>11, <1>12, <1>13, <1>14

\* A row is skipped, or moves the baseline; a printed one shows the losses since the last.
Prints(r, o, u) ==
    \/ /\ r.rows = o.rows /\ r.guess = o.guess
       /\ r.printed = o.printed \/ (r.latest # None /\ r.printed = r.latest.lost)
    \/ /\ r.latest = None /\ r.rows = o.rows + u.lost /\ r.printed = o.printed
       /\ r.guess = (o.guess \/ conf.cum)
    \/ /\ r.latest # None /\ r.rows = o.rows + Minus(r.latest.lost, o.printed)
       /\ r.printed = r.latest.lost /\ r.guess = o.guess

LEMMA PrintRowFacts ==
    ASSUME conf \in Confs, NEW o \in Printers, NEW u \in Updates
    PROVE  LET r == PrintRow(o, u) IN
           /\ r \in Printers /\ r.latest = o.latest /\ r.bytes = o.bytes + u.bytes
           /\ Prints(r, o, u)
<1> DEFINE r == PrintRow(o, u)
           p == [o EXCEPT !.bytes = @ + u.bytes]
<1>1. /\ conf.every \in Nat /\ conf.every > 0 /\ conf.omit \in Nat /\ conf.cum \in BOOLEAN
      /\ u.at \in Nat /\ u.bytes \in Nat /\ u.lost \in Nat
  BY DisplayAssumption DEF DisplayAssumption, Updates
<1>2. u.at \div conf.every \in Nat
  BY <1>1
<1>3. Printed(o) \in Nat /\ RowLoss(o, u) \in Nat
  BY <1>1 DEF Printed, RowLoss, Printers, Optional, Readings, Minus
<1> DEFINE row == u.at \div conf.every + 1
           pr == Printed(o)
           rows == o.rows + RowLoss(o, u)
           g == o.guess \/ (conf.cum /\ o.latest = None)
<1>4. row \in Nat /\ pr \in Nat /\ rows \in Nat /\ g \in BOOLEAN
  BY <1>1, <1>2, <1>3 DEF Printers
<1>5. p = [latest |-> o.latest, recv |-> o.recv, bytes |-> o.bytes + u.bytes, printed |-> o.printed,
           row |-> o.row, rows |-> o.rows, guess |-> o.guess]
  BY DEF Printers
<1>6. \/ r = [p EXCEPT !.printed = pr]
      \/ r = p
      \/ r = [p EXCEPT !.row = row, !.rows = rows, !.printed = pr, !.guess = g]
  <2>1. p.rows = o.rows /\ p.guess = o.guess
    BY <1>5
  <2> QED
    BY <2>1 DEF PrintRow
<1> HIDE DEF p, row, pr, rows, g, r
<1>7. CASE r = [p EXCEPT !.printed = pr]
  <2>1. r = [latest |-> o.latest, recv |-> o.recv, bytes |-> o.bytes + u.bytes, printed |-> pr,
             row |-> o.row, rows |-> o.rows, guess |-> o.guess]
    BY <1>5, <1>7
  <2> QED
    BY <1>1, <1>4, <2>1 DEF r, Printers, Prints, pr, Printed
<1>8. CASE r = p
  BY <1>1, <1>5, <1>8 DEF r, Printers, Prints
<1>9. CASE r = [p EXCEPT !.row = row, !.rows = rows, !.printed = pr, !.guess = g]
  <2>1. r = [latest |-> o.latest, recv |-> o.recv, bytes |-> o.bytes + u.bytes, printed |-> pr,
             row |-> row, rows |-> rows, guess |-> g]
    BY <1>5, <1>9
  <2>2. r \in Printers
    BY <1>1, <1>4, <2>1 DEF Printers
  <2>3. r.latest = o.latest /\ r.rows = rows /\ r.printed = pr /\ r.guess = g
    BY <2>1
  <2>4. ASSUME o.latest = None PROVE Prints(r, o, u)
    <3>1. r.guess = (o.guess \/ conf.cum)
      BY <2>3, <2>4 DEF g
    <3> QED
      BY <2>3, <2>4, <3>1 DEF Prints, pr, rows, Printed, RowLoss
  <2>5. ASSUME o.latest # None PROVE Prints(r, o, u)
    <3>1. r.guess = o.guess
      BY <2>3, <2>5 DEF g, Printers
    <3> QED
      BY <2>3, <2>5, <3>1 DEF Prints, pr, rows, Printed, RowLoss
  <2> QED
    BY <2>1, <2>2, <2>4, <2>5 DEF r
<1> QED
  BY <1>6, <1>7, <1>8, <1>9

\* One update taken from the channel by the terminal interface, and by the printer.
Shows(b, a, u) ==
    /\ b.latest = Latest(a.latest, u.prog) /\ b.bytes <= a.bytes + u.bytes
    /\ IF b.latest = None THEN b.lost <= a.lost + u.lost ELSE b.lost \in {a.lost, b.latest.lost}
    /\ SameBars(b, a) \/ NewBar(b, a)
    /\ Logs(b, a)
Takes(b, a, u) ==
    b.latest = Latest(a.latest, u.prog) /\ b.bytes <= a.bytes + u.bytes /\ Prints(b, a, u)

LEMMA ShowsUpdate ==
    ASSUME ChannelInv, ScreenInv, on_progress
    PROVE  Head(queue) \in Updates /\ queue # <<>> /\ tui' \in Apps /\ Shows(tui', tui, Head(queue))
<1> DEFINE u == Head(queue)
           l == Latest(tui.latest, u.prog)
           v == Latest(tui.recv, u.recv)
           a == [tui EXCEPT !.latest = l, !.recv = v]
<1>1. queue # <<>> /\ queue \in Seq(Updates)
  BY DEF on_progress, ChannelInv
<1>2. u \in Updates
  BY <1>1
<1> HIDE DEF u
<1>3. /\ tui \in Apps /\ tui.latest \in Optional /\ tui.recv \in Optional /\ u.prog \in Optional
      /\ u.recv \in Optional /\ u.bytes \in Nat /\ u.lost \in Nat /\ tui.bytes \in Nat /\ tui.lost \in Nat
  BY <1>2 DEF ScreenInv, Apps, Updates, Optional
<1>4. l \in Optional /\ v \in Optional
  BY <1>3, CacheFacts
<1>5. tui' = IF u.full THEN OnInterval(a, u) ELSE a
  BY DEF on_progress, u
<1>6. a = [tui EXCEPT !.latest = l, !.recv = v]
  OBVIOUS
<1> HIDE DEF l, v, a
<1>7. a = [latest |-> l, prev |-> tui.prev, first |-> tui.first, recv |-> v, bytes |-> tui.bytes,
           lost |-> tui.lost, prevLost |-> tui.prevLost, logged |-> tui.logged, age |-> tui.age,
           bars |-> tui.bars, bar |-> tui.bar, drawn |-> tui.drawn]
  BY <1>3, <1>6 DEF Apps
<1>8. a \in Apps
  BY <1>3, <1>4, <1>7 DEF Apps
<1>9. CASE ~u.full
  <2>1. tui' = a
    BY <1>5, <1>9
  <2>2. SameBars(a, tui) /\ Logs(a, tui)
    BY <1>7 DEF SameBars, Logs
  <2>3. a.latest = l /\ a.bytes <= tui.bytes + u.bytes
        /\ IF a.latest = None THEN a.lost <= tui.lost + u.lost ELSE a.lost \in {tui.lost, a.latest.lost}
    BY <1>3, <1>7
  <2> QED
    BY <1>1, <1>2, <1>8, <2>1, <2>2, <2>3 DEF Shows, l, u
<1>10. CASE u.full
  <2> DEFINE r == OnInterval(a, u)
  <2>1. tui' = r
    BY <1>5, <1>10
  <2>2. /\ r \in Apps /\ r.latest = a.latest /\ r.bytes = a.bytes + u.bytes
        /\ r.lost = IF a.latest = None THEN a.lost + u.lost ELSE a.latest.lost
        /\ SameBars(r, a) \/ NewBar(r, a)
        /\ Logs(r, a)
    BY <1>2, <1>8, OnIntervalFacts
  <2> HIDE DEF r
  <2>3. SameBars(r, tui) \/ NewBar(r, tui)
    BY <1>7, <2>2 DEF SameBars, NewBar
  <2>4. Logs(r, tui)
    BY <1>7, <2>2 DEF Logs
  <2>5. /\ r.latest = l /\ r.bytes <= tui.bytes + u.bytes
        /\ IF r.latest = None THEN r.lost <= tui.lost + u.lost ELSE r.lost \in {tui.lost, r.latest.lost}
    BY <1>3, <1>7, <2>2
  <2>6. Shows(r, tui, u)
    BY <2>3, <2>4, <2>5 DEF Shows, l
  <2> QED
    BY <1>1, <1>2, <2>1, <2>2, <2>6 DEF u
<1> QED
  BY <1>9, <1>10

LEMMA TakesUpdate ==
    ASSUME SourceInv, ChannelInv, ScreenInv, PrintLoop
    PROVE  Head(queue) \in Updates /\ queue # <<>> /\ out' \in Printers /\ Takes(out', out, Head(queue))
<1> DEFINE u == Head(queue)
           l == Latest(out.latest, u.prog)
           v == Latest(out.recv, u.recv)
           a == [out EXCEPT !.latest = l, !.recv = v]
<1>1. queue # <<>> /\ queue \in Seq(Updates) /\ conf \in Confs
  BY DEF PrintLoop, ChannelInv, SourceInv
<1>2. u \in Updates
  BY <1>1
<1> HIDE DEF u
<1>3. /\ out \in Printers /\ out.latest \in Optional /\ out.recv \in Optional /\ u.prog \in Optional
      /\ u.recv \in Optional /\ u.bytes \in Nat /\ out.bytes \in Nat
  BY <1>2 DEF ScreenInv, Printers, Updates, Optional
<1>4. l \in Optional /\ v \in Optional
  BY <1>3, CacheFacts
<1>5. out' = IF u.full THEN PrintRow(a, u) ELSE a
  BY DEF PrintLoop, u
<1>6. a = [out EXCEPT !.latest = l, !.recv = v]
  OBVIOUS
<1> HIDE DEF l, v, a
<1>7. a = [latest |-> l, recv |-> v, bytes |-> out.bytes, printed |-> out.printed, row |-> out.row,
           rows |-> out.rows, guess |-> out.guess]
  BY <1>3, <1>6 DEF Printers
<1>8. a \in Printers
  BY <1>3, <1>4, <1>7 DEF Printers
<1>9. CASE ~u.full
  <2>1. out' = a
    BY <1>5, <1>9
  <2>2. Prints(a, out, u)
    BY <1>7 DEF Prints
  <2>3. a.latest = l /\ a.bytes <= out.bytes + u.bytes
    BY <1>3, <1>7
  <2> QED
    BY <1>1, <1>2, <1>8, <2>1, <2>2, <2>3 DEF Takes, l, u
<1>10. CASE u.full
  <2> DEFINE r == PrintRow(a, u)
  <2>1. out' = r
    BY <1>5, <1>10
  <2>2. r \in Printers /\ r.latest = a.latest /\ r.bytes = a.bytes + u.bytes /\ Prints(r, a, u)
    BY <1>1, <1>2, <1>8, PrintRowFacts
  <2> HIDE DEF r
  <2>3. a.printed = out.printed /\ a.rows = out.rows /\ a.guess = out.guess /\ a.bytes = out.bytes
        /\ a.latest = l
    BY <1>7
  <2>4. Prints(r, out, u)
    BY <2>2, <2>3 DEF Prints
  <2>5. r.latest = l /\ r.bytes <= out.bytes + u.bytes
    BY <1>3, <2>2, <2>3
  <2>6. Takes(r, out, u)
    BY <2>4, <2>5 DEF Takes, l
  <2> QED
    BY <1>1, <1>2, <2>1, <2>2, <2>6 DEF u
<1> QED
  BY <1>9, <1>10

-----------------------------------------------------------------------------
(* The shape is kept.                                                         *)

\* The steps that leave the counters and the reporters' baselines alone.
SourceQuiet == UNCHANGED <<conf, rx, gaps, was, server, own>>
Reports == SendInterval \/ ReadInterval \/ LocalReport \/ LocalDirection

LEMMA SourceSteps ==
    Next => \/ \E s \in Streams, d \in Dirs : Receive(d, s)
            \/ Reports
            \/ SourceQuiet
  BY DEF Next, Reports, SourceQuiet, store_udp_feedback, FeedbackTick, FeedbackSend,
         send_progress_until_cancelled, UserCancel, ReadResult, JoinThenOverlay, tick, Elapse,
         on_progress, on_result, PrintLoop, PrintSummary

\* A report's baseline is the counters as they are.
LEMMA OwnFacts ==
    SourceInv =>
        /\ OwnDelta \in Nat /\ own.base + OwnDelta = Total(rx["down"]).got
        /\ AdvanceBase(own) = [base |-> Total(rx["down"]).got, sent |-> own.sent]
        /\ udp_local_direction_progress \in Optional
<1> SUFFICES ASSUME SourceInv
             PROVE  /\ OwnDelta \in Nat /\ own.base + OwnDelta = Total(rx["down"]).got
                    /\ AdvanceBase(own) = [base |-> Total(rx["down"]).got, sent |-> own.sent]
                    /\ udp_local_direction_progress \in Optional
  OBVIOUS
<1>1. /\ Total(rx["down"]) \in Readings /\ Total(rx["down"]).got \in Nat /\ own.base \in Nat
      /\ own \in [base : Nat, sent : Nat] /\ own.base <= Total(rx["down"]).got
  BY Totals DEF SourceInv
<1>2. OwnDelta \in Nat /\ own.base + OwnDelta = Total(rx["down"]).got
  BY <1>1 DEF OwnDelta
<1>3. AdvanceBase(own) = [base |-> Total(rx["down"]).got, sent |-> own.sent]
  BY <1>1 DEF AdvanceBase
<1>4. udp_local_direction_progress \in Optional
  BY <1>1 DEF udp_local_direction_progress, Optional
<1> QED
  BY <1>2, <1>3, <1>4

LEMMA SourceStep == SourceInv /\ Next => SourceInv'
<1> SUFFICES ASSUME SourceInv, Next PROVE SourceInv'
  OBVIOUS
<1>1. ASSUME NEW s \in Streams, NEW d \in Dirs, Receive(d, s) PROVE SourceInv'
  BY <1>1, Received
<1>2. ASSUME SourceQuiet PROVE SourceInv'
  BY <1>2 DEF SourceQuiet, SourceInv, Counts
<1> DEFINE u == Total(rx["up"])
           t == Total(rx["down"]).got
<1>3. u.got \in Nat /\ u.lost \in Nat /\ t \in Nat
  BY Totals
<1>4. server \in [sent : Nat, got : Nat, lost : Nat] /\ own \in [base : Nat, sent : Nat] /\ own.base <= t
  BY DEF SourceInv
<1>5. AdvanceBase(own) = [base |-> t, sent |-> own.sent]
  BY OwnFacts
<1>6. ASSUME UNCHANGED <<conf, rx, gaps, was>>,
             server' \in [sent : Nat, got : Nat, lost : Nat], server'.got <= u.got,
             own' \in [base : Nat, sent : Nat], own'.base <= t
      PROVE  SourceInv'
  BY <1>6 DEF SourceInv, Counts
<1> HIDE DEF u, t
<1>7. CASE SendInterval
  <2>1. UNCHANGED <<conf, rx, gaps, was, own>>
    BY <1>7 DEF SendInterval
  <2>2. server' = [sent |-> server.sent + 1, got |-> u.got, lost |-> u.lost]
    BY <1>7 DEF SendInterval, u
  <2>3. server' \in [sent : Nat, got : Nat, lost : Nat] /\ server'.got <= u.got
    BY <1>3, <1>4, <2>2
  <2> QED
    BY <1>4, <1>6, <2>1, <2>3
<1>8. ASSUME UNCHANGED <<conf, rx, gaps, was, server>>,
             own' \in [base : Nat, sent : Nat], own'.base <= t
      PROVE  SourceInv'
  <2>1. server.got <= u.got
    BY DEF SourceInv, u
  <2> QED
    BY <1>4, <1>6, <1>8, <2>1
<1>9. CASE ReadInterval
  <2>1. UNCHANGED <<conf, rx, gaps, was, server>>
        /\ own' = IF conf.dir = "bidir" THEN AdvanceBase(own) ELSE own
    BY <1>9 DEF ReadInterval
  <2> QED
    BY <1>3, <1>4, <1>5, <1>8, <2>1
<1>10. CASE LocalReport
  <2>1. UNCHANGED <<conf, rx, gaps, was, server>>
        /\ own' = [AdvanceBase(own) EXCEPT !.sent = @ + 1]
    BY <1>10 DEF LocalReport
  <2>2. own' = [base |-> t, sent |-> own.sent + 1]
    BY <1>5, <2>1
  <2>3. own' \in [base : Nat, sent : Nat] /\ own'.base <= t
    BY <1>3, <1>4, <2>2
  <2> QED
    BY <1>8, <2>1, <2>3
<1>11. CASE LocalDirection
  <2>1. UNCHANGED <<conf, rx, gaps, was, server>>
        /\ own' = [own EXCEPT !.sent = @ + 1]
    BY <1>11 DEF LocalDirection
  <2>2. own' = [base |-> own.base, sent |-> own.sent + 1]
    BY <1>4, <2>1
  <2> QED
    BY <1>4, <1>8, <2>1, <2>2
<1> QED
  BY <1>1, <1>2, <1>7, <1>9, <1>10, <1>11, SourceSteps DEF Reports

\* The channels.
ChannelQuiet == UNCHANGED <<conf, ctl, slots, filter, hand, queue>>
Produces ==
    \/ \E s \in Streams : store_udp_feedback(s)
    \/ SendInterval \/ FeedbackTick \/ FeedbackSend \/ ReadInterval \/ LocalReport \/ LocalDirection
    \/ send_progress_until_cancelled
Consumes == on_progress \/ PrintLoop

LEMMA ChannelSteps == Next => Produces \/ Consumes \/ ChannelQuiet
  BY DEF Next, Produces, Consumes, ChannelQuiet, Receive,
         UserCancel, ReadResult, JoinThenOverlay, tick, Elapse, on_result, PrintSummary

LEMMA ChannelStep == SourceInv /\ ChannelInv /\ Next => ChannelInv'
<1> SUFFICES ASSUME SourceInv, ChannelInv, Next PROVE ChannelInv'
  OBVIOUS
<1>1. /\ ctl \in Seq(Intervals) /\ slots \in [1 .. conf.streams -> Readings] /\ filter \in Optional
      /\ hand \in [{"control", "feedback"} -> Updates \cup {None}] /\ queue \in Seq(Updates)
  BY DEF ChannelInv
<1>2. /\ Total(rx["up"]) \in Readings /\ Total(rx["down"]) \in Readings
      /\ conf.streams \in Nat /\ conf.cum \in BOOLEAN
  BY Totals, DisplayAssumption DEF SourceInv, DisplayAssumption
<1>3. \A p, q \in Optional : Latest(p, q) \in Optional /\ Fresher(p, q) \in Optional
  BY CacheFacts DEF Optional
<1>4. \A f \in BOOLEAN, at, b, l \in Nat, p, r \in Optional : Update(f, at, b, l, p, r) \in Updates
  BY DEF Update, Updates, Optional
<1>5. \A q \in Seq(Updates), u \in Updates : Append(q, u) \in Seq(Updates)
  OBVIOUS
<1>6. ASSUME NEW s \in Streams, store_udp_feedback(s) PROVE ChannelInv'
  <2>1. UNCHANGED <<conf, ctl, filter, hand, queue>>
    BY <1>6 DEF store_udp_feedback
  <2>2. PICK p \in FeedbackOf(s) : slots' = [slots EXCEPT ![s] = p]
    BY <1>6 DEF store_udp_feedback
  <2>3. s \in 1 .. conf.streams /\ was \in [Dirs -> [1 .. conf.streams -> SUBSET Readings]]
    BY DEF Streams, SourceInv
  <2>4. p \in was["up"][s]
    BY <2>2 DEF FeedbackOf
  <2>5. p \in Readings
    BY <2>3, <2>4 DEF Dirs
  <2>6. slots' \in [1 .. conf.streams -> Readings]
    BY <1>1, <2>2, <2>5
  <2> QED
    BY <1>1, <2>1, <2>6 DEF ChannelInv
<1>7. CASE SendInterval
  <2> DEFINE t == Total(rx["up"])
             m == [at |-> server.sent + 1, bytes |-> t.got - server.got,
                   lost |-> Minus(t.lost, server.lost), prog |-> IF conf.cum THEN t ELSE None]
  <2>1. UNCHANGED <<conf, slots, filter, hand, queue>> /\ ctl' = Append(ctl, m)
    BY <1>7 DEF SendInterval
  <2>2. /\ t \in Readings /\ server.sent \in Nat /\ server.got \in Nat /\ server.lost \in Nat
        /\ t.got \in Nat /\ t.lost \in Nat /\ server.got <= t.got
    BY Totals DEF SourceInv
  <2> HIDE DEF t
  <2>3. m \in Intervals
    BY <2>2 DEF Intervals, Optional, Minus
  <2>4. ctl' \in Seq(Intervals)
    BY <1>1, <2>1, <2>3
  <2> QED
    BY <1>1, <2>1, <2>4 DEF ChannelInv
<1>8. CASE FeedbackTick
  <2> DEFINE t == Total(slots)
             u == Update(FALSE, 0, 0, 0, t, None)
  <2>1. /\ UNCHANGED <<conf, ctl, slots, queue>> /\ filter' = Latest(filter, t)
        /\ hand' = [hand EXCEPT !["feedback"] = u]
    BY <1>8 DEF FeedbackTick, apply
  <2>2. t \in Readings
    BY <1>1, <1>2, TotalFacts
  <2> HIDE DEF t
  <2>3. u \in Updates /\ filter' \in Optional
    BY <1>1, <1>3, <1>4, <2>1, <2>2 DEF Optional
  <2> HIDE DEF u
  <2>4. hand' \in [{"control", "feedback"} -> Updates \cup {None}]
    BY <1>1, <2>1, <2>3
  <2> QED
    BY <1>1, <2>1, <2>3, <2>4 DEF ChannelInv
<1>9. CASE FeedbackSend
  <2>1. /\ UNCHANGED <<conf, ctl, slots, filter>> /\ hand' = [hand EXCEPT !["feedback"] = None]
        /\ hand["feedback"] # None /\ queue' \in {queue, Append(queue, hand["feedback"])}
    BY <1>9 DEF FeedbackSend
  <2>2. hand["feedback"] \in Updates
    BY <1>1, <2>1
  <2>3. queue' \in Seq(Updates)
    BY <1>1, <1>5, <2>1, <2>2, Zenon
  <2> QED
    BY <1>1, <2>1, <2>3 DEF ChannelInv
<1>10. CASE ReadInterval
  <2> DEFINE m == Head(ctl)
             b == m.bytes + (IF conf.dir = "bidir" THEN OwnDelta ELSE 0)
             v == IF conf.dir = "bidir" THEN udp_local_direction_progress ELSE None
             u == Update(TRUE, m.at, b, m.lost, Fresher(filter, m.prog), v)
  <2>1. /\ UNCHANGED <<conf, slots, queue>> /\ ctl # <<>> /\ ctl' = Tail(ctl)
        /\ filter' = Latest(filter, m.prog) /\ hand' = [hand EXCEPT !["control"] = u]
    BY <1>10 DEF ReadInterval, apply
  <2>2. m \in Intervals /\ ctl' \in Seq(Intervals)
    BY <1>1, <2>1
  <2> HIDE DEF m
  <2>3. m.at \in Nat /\ m.bytes \in Nat /\ m.lost \in Nat /\ m.prog \in Optional
    BY <2>2 DEF Intervals
  <2>4. b \in Nat /\ v \in Optional
    BY <2>3, OwnFacts DEF Optional
  <2> HIDE DEF b, v
  <2>5. u \in Updates /\ filter' \in Optional
    BY <1>1, <1>3, <1>4, <2>1, <2>3, <2>4
  <2> HIDE DEF u
  <2>6. hand' \in [{"control", "feedback"} -> Updates \cup {None}]
    BY <1>1, <2>1, <2>5
  <2> QED
    BY <1>1, <2>1, <2>2, <2>5, <2>6 DEF ChannelInv
<1>11. CASE LocalReport
  <2> DEFINE t == Total(rx["down"])
             u == Update(TRUE, own.sent + 1, OwnDelta, 0, Fresher(filter, t), None)
  <2>1. /\ UNCHANGED <<conf, slots, queue, ctl>>
        /\ filter' = Latest(filter, t) /\ hand' = [hand EXCEPT !["control"] = u]
    BY <1>11 DEF LocalReport, apply
  <2>2. t \in Optional /\ OwnDelta \in Nat /\ own.sent + 1 \in Nat /\ None \in Optional
    BY <1>2, OwnFacts DEF Optional, SourceInv
  <2> HIDE DEF t
  <2>3. u \in Updates /\ filter' \in Optional
    BY <1>1, <1>3, <1>4, <2>1, <2>2
  <2> HIDE DEF u
  <2>4. hand' \in [{"control", "feedback"} -> Updates \cup {None}]
    BY <1>1, <2>1, <2>3
  <2> QED
    BY <1>1, <2>1, <2>3, <2>4 DEF ChannelInv
<1>12. CASE LocalDirection
  <2> DEFINE u == Update(FALSE, 0, 0, 0, None, udp_local_direction_progress)
  <2>1. UNCHANGED <<conf, ctl, slots, filter, hand>> /\ queue' \in {queue, Append(queue, u)}
    BY <1>12 DEF LocalDirection
  <2>2. u \in Updates
    BY <1>4, OwnFacts DEF Optional
  <2> HIDE DEF u
  <2>3. queue' \in Seq(Updates)
    BY <1>1, <1>5, <2>1, <2>2, Zenon
  <2> QED
    BY <1>1, <2>1, <2>3 DEF ChannelInv
<1>13. CASE send_progress_until_cancelled
  <2>1. /\ UNCHANGED <<conf, ctl, slots, filter>> /\ hand' = [hand EXCEPT !["control"] = None]
        /\ hand["control"] # None /\ queue' \in {queue, Append(queue, hand["control"])}
    BY <1>13 DEF send_progress_until_cancelled
  <2>2. hand["control"] \in Updates
    BY <1>1, <2>1
  <2>3. queue' \in Seq(Updates)
    BY <1>1, <1>5, <2>1, <2>2, Zenon
  <2> QED
    BY <1>1, <2>1, <2>3 DEF ChannelInv
<1>14. CASE Consumes
  <2>1. UNCHANGED <<conf, ctl, slots, filter, hand>> /\ queue # <<>> /\ queue' = Tail(queue)
    BY <1>14 DEF Consumes, on_progress, PrintLoop
  <2>2. queue' \in Seq(Updates)
    BY <1>1, <2>1
  <2> QED
    BY <1>1, <2>1, <2>2 DEF ChannelInv
<1>15. CASE ChannelQuiet
  BY <1>15 DEF ChannelQuiet, ChannelInv
<1> QED
  BY <1>6, <1>7, <1>8, <1>9, <1>10, <1>11, <1>12, <1>13, <1>14, <1>15, ChannelSteps DEF Produces

\* The displays and the Result.
ScreenQuiet == UNCHANGED <<tui, out, result>>
Draws == JoinThenOverlay \/ tick \/ Elapse \/ on_progress \/ on_result \/ PrintLoop \/ PrintSummary

LEMMA ScreenSteps == Next => Draws \/ ScreenQuiet
  BY DEF Next, Draws, ScreenQuiet, Receive, store_udp_feedback, SendInterval, FeedbackTick,
         FeedbackSend, ReadInterval, LocalReport, LocalDirection, send_progress_until_cancelled,
         UserCancel, ReadResult

\* A direction that does not count adds nothing to the Result's bytes.
LEMMA OverlayFacts ==
    SourceInv => /\ Overlay \in [bytes : Nat, lost : Nat]
                 /\ Overlay.bytes = Total(rx["up"]).got + Total(rx["down"]).got
<1> SUFFICES ASSUME SourceInv
             PROVE  /\ Overlay \in [bytes : Nat, lost : Nat]
                    /\ Overlay.bytes = Total(rx["up"]).got + Total(rx["down"]).got
  OBVIOUS
<1> DEFINE u == Total(rx["up"])
           d == Total(rx["down"])
<1>1. /\ conf.dir \in {"upload", "download", "bidir"}
      /\ u.got \in Nat /\ d.got \in Nat /\ u.lost \in Nat /\ d.lost \in Nat
      /\ conf.dir = "upload" => d = Zero
      /\ conf.dir = "download" => u = Zero
  BY Totals
<1>2. Overlay = [bytes |-> (IF Counts("up") THEN u.got ELSE 0) + (IF Counts("down") THEN d.got ELSE 0),
                 lost |-> IF conf.dir = "download" THEN d.lost ELSE u.lost]
  BY DEF Overlay
<1>3. /\ conf.dir = "upload" => Counts("up") /\ ~Counts("down")
      /\ conf.dir = "download" => Counts("down") /\ ~Counts("up")
      /\ conf.dir = "bidir" => Counts("up") /\ Counts("down")
  BY DEF Counts
<1>4. Zero.got = 0
  BY DEF Zero
<1> HIDE DEF u, d
<1>5. Overlay.bytes = u.got + d.got
  BY <1>1, <1>2, <1>3, <1>4
<1>6. Overlay \in [bytes : Nat, lost : Nat]
  BY <1>1, <1>2
<1> QED
  BY <1>5, <1>6 DEF u, d

\* A bar drawn during a stall.
LEMMA TickFacts ==
    ASSUME ScreenInv, tick
    PROVE  tui' \in Apps /\ tui'.latest = tui.latest /\ NewBar(tui', tui) /\ Rest(tui', tui)
<1> DEFINE n == IF tui.age - BarInterval >= BarStall THEN 0 ELSE tui.age - BarInterval
<1>1. tui \in Apps /\ tui.age \in Nat
  BY DEF ScreenInv, Apps
<1>2. n \in Nat
  BY <1>1, DisplayAssumption DEF DisplayAssumption, tick
<1>3. tui' = [AppendBar(tui) EXCEPT !.age = n]
  BY DEF tick
<1> HIDE DEF n
<1> QED
  BY <1>1, <1>2, <1>3, AppendBarFacts

\* The displays keep their shape.
LEMMA ScreenStep == SourceInv /\ ChannelInv /\ ScreenInv /\ Next => ScreenInv'
<1> SUFFICES ASSUME SourceInv, ChannelInv, ScreenInv, Next PROVE ScreenInv'
  OBVIOUS
<1>1. tui \in Apps /\ out \in Printers /\ result \in [bytes : Nat, lost : Nat]
  BY DEF ScreenInv
<1>2. CASE JoinThenOverlay
  BY <1>1, <1>2, OverlayFacts DEF JoinThenOverlay, ScreenInv
<1>3. CASE tick
  <2>1. tui' \in Apps
    BY <1>3, TickFacts
  <2> QED
    BY <1>1, <1>3, <2>1 DEF tick, ScreenInv
<1>4. CASE Elapse
  <2>1. tui' = [tui EXCEPT !.age = @ + 1]
    BY <1>4 DEF Elapse
  <2>2. tui' \in Apps
    BY <1>1, <2>1 DEF Apps
  <2> QED
    BY <1>1, <1>4, <2>2 DEF Elapse, ScreenInv
<1>5. CASE on_progress
  <2>1. tui' \in Apps
    BY <1>5, ShowsUpdate
  <2> QED
    BY <1>1, <1>5, <2>1 DEF on_progress, ScreenInv
<1>6. CASE on_result
  <2>1. tui' = [tui EXCEPT !.bytes = result.bytes, !.lost = result.lost]
    BY <1>6 DEF on_result
  <2>2. tui' \in Apps
    BY <1>1, <2>1 DEF Apps
  <2> QED
    BY <1>1, <1>6, <2>2 DEF on_result, ScreenInv
<1>7. CASE PrintLoop
  <2>1. out' \in Printers
    BY <1>7, TakesUpdate
  <2> QED
    BY <1>1, <1>7, <2>1 DEF PrintLoop, ScreenInv
<1>8. CASE PrintSummary
  <2>1. out' = [out EXCEPT !.bytes = result.bytes]
    BY <1>8 DEF PrintSummary
  <2>2. out' \in Printers
    BY <1>1, <2>1 DEF Printers
  <2> QED
    BY <1>1, <1>8, <2>2 DEF PrintSummary, ScreenInv
<1>9. CASE ScreenQuiet
  BY <1>9 DEF ScreenQuiet, ScreenInv
<1> QED
  BY <1>2, <1>3, <1>4, <1>5, <1>6, <1>7, <1>8, <1>9, ScreenSteps DEF Draws

\* A display begins with nothing counted, reported or shown.
LEMMA BeginShape == \A c \in Confs : Begin(c) => Shape'
<1> SUFFICES ASSUME NEW c \in Confs, Begin(c) PROVE Shape'
  OBVIOUS
<1> DEFINE zeros == [s \in 1 .. c.streams |-> Zero]
<1>1. c.streams \in Nat /\ c.dir \in {"upload", "download", "bidir"}
  BY ConfFacts
<1>2. Zero \in Readings
  BY DEF Zero, Readings
<1>3. /\ conf' = c /\ rx' = [d \in Dirs |-> zeros] /\ gaps' = [d \in Dirs |-> 0]
      /\ was' = [d \in Dirs |-> [s \in 1 .. c.streams |-> {Zero}]]
      /\ server' = [sent |-> 0, got |-> 0, lost |-> 0] /\ own' = [base |-> 0, sent |-> 0]
  BY DEF Begin
<1>4. zeros \in [1 .. c.streams -> Readings] /\ \A s \in 1 .. c.streams : zeros[s] = Zero
  BY <1>2
<1> HIDE DEF zeros
<1>5. Total(zeros).got = 0
  <2>1. Total(zeros) = Zero
    BY <1>1, <1>4, TotalFacts
  <2> QED
    BY <2>1 DEF Zero
<1>6. /\ rx'["up"] = zeros /\ rx'["down"] = zeros
      /\ rx' \in [Dirs -> [1 .. c.streams -> Readings]]
      /\ \A d \in Dirs : \A s \in 1 .. c.streams : rx'[d][s] = Zero
  BY <1>3, <1>4 DEF Dirs
<1>7. /\ gaps' \in [Dirs -> Nat] /\ was' \in [Dirs -> [1 .. c.streams -> SUBSET Readings]]
      /\ server' \in [sent : Nat, got : Nat, lost : Nat] /\ own' \in [base : Nat, sent : Nat]
  BY <1>2, <1>3
<1>8. SourceInv'
  BY <1>3, <1>5, <1>6, <1>7 DEF SourceInv
<1>9. ChannelInv'
  <2>1. /\ ctl' = <<>> /\ queue' = <<>> /\ slots' = [s \in 1 .. c.streams |-> Zero] /\ filter' = None
        /\ hand' = [p \in {"control", "feedback"} |-> None]
    BY DEF Begin
  <2> QED
    BY <1>2, <1>3, <2>1 DEF ChannelInv, Optional
<1>10. ScreenInv'
  <2>1. /\ tui' = [latest |-> None, prev |-> None, first |-> None, recv |-> None, bytes |-> 0, lost |-> 0,
                   prevLost |-> 0, logged |-> 0, age |-> 0, bars |-> FALSE,
                   bar |-> [packets |-> 0, lost |-> 0], drawn |-> [packets |-> 0, lost |-> 0]]
        /\ out' = [latest |-> None, recv |-> None, bytes |-> 0, printed |-> 0, row |-> 0, rows |-> 0,
                   guess |-> FALSE]
        /\ result' = [bytes |-> 0, lost |-> 0]
    BY DEF Begin
  <2>2. None \in Optional /\ [packets |-> 0, lost |-> 0] \in Bars
    BY DEF Optional, Bars
  <2>3. tui' \in Apps
    BY <2>1, <2>2 DEF Apps
  <2>4. out' \in Printers
    BY <2>1, <2>2 DEF Printers
  <2> QED
    BY <2>1, <2>3, <2>4 DEF ScreenInv
<1> QED
  BY <1>8, <1>9, <1>10 DEF Shape, Begin

LEMMA ShapeStep == Shape /\ [DisplayNext]_vars => Shape'
<1> SUFFICES ASSUME Shape, [DisplayNext]_vars PROVE Shape'
  OBVIOUS
<1>1. CASE \E c \in Confs : Begin(c)
  BY <1>1, BeginShape
<1>2. CASE phase # "idle" /\ Next
  <2>1. SourceInv /\ ChannelInv /\ ScreenInv
    BY <1>2 DEF Shape
  <2>2. SourceInv' /\ ChannelInv' /\ ScreenInv'
    <3>1. SourceInv'
      BY <1>2, <2>1, SourceStep
    <3>2. ChannelInv'
      BY <1>2, <2>1, ChannelStep, Zenon
    <3>3. ScreenInv'
      BY <1>2, <2>1, ScreenStep, Zenon
    <3> QED
      BY <3>1, <3>2, <3>3, Zenon
  <2>3. phase' \in {"idle", "running", "stopping", "joining", "joined", "done"}
    BY <1>2 DEF Shape, Next, Receive, store_udp_feedback, SendInterval, FeedbackTick, FeedbackSend,
       ReadInterval, LocalReport, LocalDirection, send_progress_until_cancelled, UserCancel, ReadResult,
       JoinThenOverlay, tick, Elapse, on_progress, on_result, PrintLoop, PrintSummary
  <2> QED
    BY <2>2, <2>3 DEF Shape
<1>3. CASE UNCHANGED vars
  BY <1>3 DEF vars, Shape, SourceInv, ChannelInv, ScreenInv, Counts
<1> QED
  BY <1>1, <1>2, <1>3 DEF DisplayNext

-----------------------------------------------------------------------------
(* Bars tile the test.  The readings an interface caches only become fresher, *)
(* so the last reading drawn is never ahead of the cached one, and the bars   *)
(* drawn so far add up to the packets between the first and the last reading. *)

Tiled(a) ==
    /\ a.first = None <=> a.prev = None
    /\ a.first = None => a.drawn.packets = 0
    /\ a.prev # None =>
          /\ a.latest # None /\ is_at_least_as_fresh_as(a.latest, a.prev)
          /\ Expected(a.first) <= Expected(a.prev)
          /\ a.drawn.packets = Expected(a.prev) - Expected(a.first)
    /\ a.bar.lost <= a.bar.packets

\* The cached reading of b is that of a, or a fresher one.
Fresh(b, a) == a.latest # None => b.latest # None /\ is_at_least_as_fresh_as(b.latest, a.latest)

\* Freshness is a partial order on readings.
LEMMA FreshFacts ==
    \A p, q, r \in Readings :
        /\ Expected(p) \in Nat /\ is_at_least_as_fresh_as(p, p)
        /\ is_at_least_as_fresh_as(p, q) => p.got >= q.got /\ Expected(p) >= Expected(q)
        /\ is_at_least_as_fresh_as(p, q) /\ is_at_least_as_fresh_as(q, r) => is_at_least_as_fresh_as(p, r)
  BY DEF Readings, Expected, is_at_least_as_fresh_as

LEMMA TiledStep ==
    ASSUME NEW a \in Apps, NEW b \in Apps, Tiled(a), Fresh(b, a), SameBars(b, a) \/ NewBar(b, a)
    PROVE  Tiled(b)
<1>1. /\ a.latest \in Optional /\ a.prev \in Optional /\ a.first \in Optional
      /\ b.latest \in Optional /\ b.prev \in Optional /\ b.first \in Optional
      /\ a.drawn \in Bars /\ b.drawn \in Bars
  BY DEF Apps
<1>2. a.prev # None => a.latest # None /\ b.latest # None /\ is_at_least_as_fresh_as(b.latest, a.prev)
  <2> SUFFICES ASSUME a.prev # None
               PROVE  a.latest # None /\ b.latest # None /\ is_at_least_as_fresh_as(b.latest, a.prev)
    OBVIOUS
  <2>1. a.latest # None /\ b.latest # None
        /\ is_at_least_as_fresh_as(b.latest, a.latest) /\ is_at_least_as_fresh_as(a.latest, a.prev)
    BY DEF Tiled, Fresh
  <2>2. a.latest \in Readings /\ b.latest \in Readings /\ a.prev \in Readings
    BY <1>1, <2>1 DEF Optional
  <2> QED
    BY <2>1, <2>2, FreshFacts
<1>3. ASSUME SameBars(b, a) PROVE Tiled(b)
  BY <1>2, <1>3 DEF Tiled, SameBars
<1>4. ASSUME NewBar(b, a), b.latest = None PROVE Tiled(b)
  <2>1. a.prev = None /\ a.first = None /\ a.drawn.packets = 0
    BY <1>2, <1>4 DEF Tiled
  <2>2. Window(b.latest, a.prev) = [packets |-> 0, lost |-> 0]
    BY <1>1, <1>4, WindowFacts
  <2> QED
    BY <1>4, <2>1, <2>2 DEF Tiled, NewBar
<1>5. ASSUME NewBar(b, a), b.latest # None, a.prev = None PROVE Tiled(b)
  <2>1. a.first = None /\ a.drawn.packets = 0
    BY <1>5 DEF Tiled
  <2>2. Window(b.latest, a.prev) = [packets |-> 0, lost |-> 0]
    BY <1>1, <1>5, WindowFacts
  <2>3. /\ b.prev = b.latest /\ b.first = b.latest /\ b.drawn.packets = 0
        /\ b.bar.lost <= b.bar.packets
    BY <1>5, <2>1, <2>2 DEF NewBar
  <2>4. b.latest \in Readings
    BY <1>1, <1>5 DEF Optional
  <2> QED
    BY <1>5, <2>3, <2>4, FreshFacts DEF Tiled
<1>6. ASSUME NewBar(b, a), b.latest # None, a.prev # None PROVE Tiled(b)
  <2> DEFINE w == Window(b.latest, a.prev)
  <2>1. is_at_least_as_fresh_as(b.latest, a.prev) /\ a.first # None
        /\ Expected(a.first) <= Expected(a.prev)
        /\ a.drawn.packets = Expected(a.prev) - Expected(a.first)
    BY <1>2, <1>6 DEF Tiled
  <2>2. b.latest \in Readings /\ a.prev \in Readings /\ a.first \in Readings
    BY <1>1, <1>6, <2>1 DEF Optional
  <2>3. w.packets = Expected(b.latest) - Expected(a.prev) /\ w.lost <= w.packets
    BY <1>1, <1>6, <2>1, WindowFacts
  <2>4. /\ b.prev = b.latest /\ b.first = a.first /\ b.bar = w
        /\ b.drawn.packets = a.drawn.packets + w.packets
    BY <1>6, <2>1 DEF NewBar
  <2> HIDE DEF w
  <2>5. /\ Expected(b.latest) \in Nat /\ Expected(a.prev) \in Nat /\ Expected(a.first) \in Nat
        /\ Expected(b.latest) >= Expected(a.prev)
        /\ is_at_least_as_fresh_as(b.latest, b.latest)
    BY <2>1, <2>2, FreshFacts
  <2>6. b.drawn.packets = Expected(b.prev) - Expected(b.first) /\ Expected(b.first) <= Expected(b.prev)
    BY <2>1, <2>3, <2>4, <2>5
  <2> QED
    BY <1>6, <2>1, <2>3, <2>4, <2>5, <2>6 DEF Tiled
<1> QED
  BY <1>3, <1>4, <1>5, <1>6

BarInv == phase # "idle" => Tiled(tui)

\* The steps of the interface's cache and bars.
LEMMA TuiSteps ==
    ASSUME Shape, phase # "idle", Next
    PROVE  /\ tui \in Apps /\ tui' \in Apps
           /\ Fresh(tui', tui)
           /\ SameBars(tui', tui) \/ NewBar(tui', tui)
<1>1. SourceInv /\ ChannelInv /\ ScreenInv
  BY DEF Shape
<1>2. tui \in Apps /\ tui' \in Apps
  BY <1>1, ScreenStep DEF ScreenInv
<1>3. tui.latest \in Optional
  BY <1>2 DEF Apps
<1>4. tui'.latest = tui.latest => Fresh(tui', tui)
  BY <1>3, FreshFacts DEF Fresh, Optional
<1>5. CASE tick
  BY <1>1, <1>2, <1>4, <1>5, TickFacts
<1>6. CASE on_progress
  <2>1. Shows(tui', tui, Head(queue)) /\ Head(queue) \in Updates
    BY <1>1, <1>6, ShowsUpdate
  <2>2. Head(queue).prog \in Optional
    BY <2>1 DEF Updates, Optional
  <2>3. Fresh(tui', tui)
    BY <1>3, <2>1, <2>2, CacheFacts DEF Fresh, Shows
  <2> QED
    BY <1>2, <2>1, <2>3 DEF Shows
<1>7. ASSUME tui'.latest = tui.latest, SameBars(tui', tui)
      PROVE  Fresh(tui', tui) /\ (SameBars(tui', tui) \/ NewBar(tui', tui))
  BY <1>4, <1>7
<1>8. CASE Elapse
  <2>1. tui' = [tui EXCEPT !.age = @ + 1]
    BY <1>8 DEF Elapse
  <2>2. tui'.latest = tui.latest /\ SameBars(tui', tui)
    BY <1>2, <2>1 DEF Apps, SameBars
  <2> QED
    BY <1>2, <1>7, <2>2
<1>9. CASE on_result
  <2>1. tui' = [tui EXCEPT !.bytes = result.bytes, !.lost = result.lost]
    BY <1>9 DEF on_result
  <2>2. tui'.latest = tui.latest /\ SameBars(tui', tui)
    BY <1>2, <2>1 DEF Apps, SameBars
  <2> QED
    BY <1>2, <1>7, <2>2
<1>10. CASE UNCHANGED tui
  BY <1>2, <1>7, <1>10 DEF SameBars
<1>11. JoinThenOverlay \/ PrintLoop \/ PrintSummary \/ ScreenQuiet => UNCHANGED tui
  BY DEF JoinThenOverlay, PrintLoop, PrintSummary, ScreenQuiet
<1> QED
  BY <1>5, <1>6, <1>8, <1>9, <1>10, <1>11, ScreenSteps DEF Draws

LEMMA BarStep == Shape /\ BarInv /\ [DisplayNext]_vars => BarInv'
<1> SUFFICES ASSUME Shape, BarInv, [DisplayNext]_vars PROVE BarInv'
  OBVIOUS
<1>1. ASSUME NEW c \in Confs, Begin(c) PROVE Tiled(tui')
  BY <1>1 DEF Begin, Tiled
<1>2. CASE phase # "idle" /\ Next
  <2>1. Tiled(tui)
    BY <1>2 DEF BarInv
  <2>2. /\ tui \in Apps /\ tui' \in Apps
        /\ Fresh(tui', tui)
        /\ SameBars(tui', tui) \/ NewBar(tui', tui)
    BY <1>2, TuiSteps
  <2>3. Tiled(tui')
    BY <2>1, <2>2, TiledStep
  <2> QED
    BY <2>3 DEF BarInv
<1>3. CASE UNCHANGED vars
  BY <1>3 DEF vars, BarInv
<1> QED
  BY <1>1, <1>2, <1>3 DEF DisplayNext, BarInv

-----------------------------------------------------------------------------
(* Bytes on their way to the screen.  What is shown, the updates queued (w),  *)
(* the one in the control loop's hand (k) and the Intervals sent (v) together *)
(* stay within what was reported: t by the server, b by the client itself.    *)

Flows(s, w, k, v, b, t) ==
    \E x, z \in Nat : Climbs(w, s, x) /\ x + k <= z + b /\ Climbs(v, z, t)

\* Each update shown, queued or dropped and each Interval sent or read keeps within the reports.
LEMMA FlowFacts == \A s, k, b, t, e, r \in Nat, w, v \in Seq(Nat) : Flows(s, w, k, v, b, t) =>
    /\ s <= t + b
    /\ w # <<>> /\ r <= s + Head(w) => Flows(r, Tail(w), k, v, b, t)
    /\ Flows(s, Append(w, k), 0, v, b, t) /\ Flows(s, w, 0, v, b, t)
    /\ Flows(s, Append(w, 0), k, v, b, t)
    /\ v # <<>> /\ k = 0 => Flows(s, w, Head(v) + e, Tail(v), b + e, t)
    /\ k = 0 => Flows(s, w, e, v, b + e, t)
    /\ t + e <= r => Flows(s, w, k, Append(v, e), b, r)
    /\ r <= s => Flows(r, w, k, v, b, t)
<1> TAKE s, k, b, t, e, r \in Nat, w, v \in Seq(Nat)
<1> HAVE Flows(s, w, k, v, b, t)
<1>1. PICK x \in Nat, z \in Nat : Climbs(w, s, x) /\ x + k <= z + b /\ Climbs(v, z, t)
  BY DEF Flows
<1>2. s <= x /\ z <= t
  BY <1>1, ClimbEnds
<1>3. s <= t + b
  BY <1>1, <1>2
<1>4. ASSUME w # <<>>, r <= s + Head(w) PROVE Flows(r, Tail(w), k, v, b, t)
  <2>1. Tail(w) \in Seq(Nat) /\ Head(w) \in Nat
    BY <1>4
  <2>2. Climbs(Tail(w), s + Head(w), x)
    BY <1>1, <1>4, ClimbTail
  <2>3. s + Head(w) \in Nat
    BY <2>1
  <2>4. Climbs(Tail(w), r, x)
    BY <1>4, <2>1, <2>2, <2>3, ClimbEnds
  <2> QED
    BY <1>1, <2>4 DEF Flows
<1>5. Flows(s, Append(w, k), 0, v, b, t)
  <2>1. x + k \in Nat /\ x + k <= x + k /\ (x + k) + 0 <= z + b
    BY <1>1
  <2>2. Climbs(Append(w, k), s, x + k)
    BY <1>1, <2>1, ClimbAppend
  <2> QED
    BY <1>1, <2>1, <2>2 DEF Flows
<1>6. Flows(s, w, 0, v, b, t)
  <2>1. x + 0 <= z + b
    BY <1>1
  <2> QED
    BY <1>1, <2>1 DEF Flows
<1>7. Flows(s, Append(w, 0), k, v, b, t)
  <2>1. x + 0 <= x
    OBVIOUS
  <2>2. Climbs(Append(w, 0), s, x)
    BY <1>1, <2>1, ClimbAppend
  <2> QED
    BY <1>1, <2>2 DEF Flows
<1>8. ASSUME v # <<>>, k = 0 PROVE Flows(s, w, Head(v) + e, Tail(v), b + e, t)
  <2>1. Head(v) \in Nat /\ z + Head(v) \in Nat
    BY <1>8
  <2>2. Climbs(Tail(v), z + Head(v), t)
    BY <1>1, <1>8, ClimbTail
  <2>3. x + (Head(v) + e) <= (z + Head(v)) + (b + e)
    <3>1. PICK a \in Nat : a = Head(v)
      BY <2>1
    <3>2. x + (a + e) <= (z + a) + (b + e)
      BY <1>1, <1>8
    <3> QED
      BY <3>1, <3>2
  <2> QED
    BY <1>1, <2>1, <2>2, <2>3 DEF Flows
<1>9. ASSUME k = 0 PROVE Flows(s, w, e, v, b + e, t)
  <2>1. x + e <= z + (b + e)
    BY <1>1, <1>9
  <2> QED
    BY <1>1, <2>1 DEF Flows
<1>10. ASSUME t + e <= r PROVE Flows(s, w, k, Append(v, e), b, r)
  <2>1. Climbs(Append(v, e), z, r)
    BY <1>1, <1>10, ClimbAppend
  <2> QED
    BY <1>1, <2>1 DEF Flows
<1>11. ASSUME r <= s PROVE Flows(r, w, k, v, b, t)
  <2>1. Climbs(w, r, x)
    BY <1>1, <1>11, ClimbEnds
  <2> QED
    BY <1>1, <2>1 DEF Flows
<1> QED
  BY <1>3, <1>4, <1>5, <1>6, <1>7, <1>8, <1>9, <1>10, <1>11

LEMMA FlowShow == \A s, k, b, t, r \in Nat, w, v \in Seq(Nat) :
    Flows(s, w, k, v, b, t) /\ w # <<>> /\ r <= s + Head(w) => Flows(r, Tail(w), k, v, b, t)
<1> TAKE s, k, b, t, r \in Nat, w, v \in Seq(Nat)
<1> 0 \in Nat
  OBVIOUS
<1> QED
  BY FlowFacts

\* Nothing shown, queued or sent.
LEMMA FlowEmpty == \A t \in Nat : Flows(0, <<>>, 0, <<>>, 0, t)
<1> TAKE t \in Nat
<1>1. Climbs(<<>>, 0, 0) /\ Climbs(<<>>, 0, t)
  BY ClimbEmpty
<1>2. 0 + 0 <= 0 + 0
  OBVIOUS
<1> QED
  BY <1>1, <1>2 DEF Flows

Held == IF hand["control"] = None THEN 0 ELSE hand["control"].bytes
Shown == IF conf.ui = "tui" THEN tui.bytes ELSE out.bytes
Counted == Total(rx["up"]).got + Total(rx["down"]).got

BytesInv ==
    phase # "idle" =>
        /\ hand["feedback"] # None => hand["feedback"].bytes = 0
        /\ phase # "done" => Flows(Shown, BytesOf(queue), Held, BytesOf(ctl), own.base, server.got)
        /\ phase = "joined" => result.bytes = Counted
        /\ phase = "done" => Shown = Counted

LEMMA Carriers == Carrier(Updates) /\ Carrier(Intervals)
  BY DEF Carrier, Updates, Intervals

\* The effect of each step on the channels, as increments.
LEMMA FlowTypes ==
    ASSUME Shape, phase # "idle"
    PROVE  /\ queue \in Seq(Updates) /\ ctl \in Seq(Intervals)
           /\ hand \in [{"control", "feedback"} -> Updates \cup {None}]
           /\ BytesOf(queue) \in Seq(Nat) /\ BytesOf(ctl) \in Seq(Nat)
           /\ LostOf(queue) \in Seq(Nat) /\ LostOf(ctl) \in Seq(Nat)
           /\ Held \in Nat /\ Shown \in Nat /\ Counted \in Nat
           /\ own.base \in Nat /\ server.got \in Nat /\ server.lost \in Nat
           /\ server.got <= Total(rx["up"]).got /\ own.base <= Total(rx["down"]).got
<1>1. SourceInv /\ ChannelInv /\ ScreenInv
  BY DEF Shape
<1>2. /\ queue \in Seq(Updates) /\ ctl \in Seq(Intervals)
      /\ hand \in [{"control", "feedback"} -> Updates \cup {None}]
  BY <1>1 DEF ChannelInv
<1>3. /\ BytesOf(queue) \in Seq(Nat) /\ BytesOf(ctl) \in Seq(Nat)
      /\ LostOf(queue) \in Seq(Nat) /\ LostOf(ctl) \in Seq(Nat)
  BY <1>2, Carriers, Carried
<1>4. Held \in Nat
  BY <1>2, Carriers DEF Held, Carrier
<1>5. Shown \in Nat
  BY <1>1 DEF Shown, ScreenInv, Apps, Printers
<1>6. Counted \in Nat /\ own.base \in Nat /\ server.got \in Nat /\ server.lost \in Nat
      /\ server.got <= Total(rx["up"]).got /\ own.base <= Total(rx["down"]).got
  <2>1. Counted \in Nat
    BY <1>1, Totals DEF Counted
  <2> QED
    BY <1>1, <2>1 DEF SourceInv
<1> QED
  BY <1>2, <1>3, <1>4, <1>5, <1>6

LEMMA BytesBegin == \A c \in Confs : Begin(c) => BytesInv'
<1> SUFFICES ASSUME NEW c \in Confs, Begin(c) PROVE BytesInv'
  OBVIOUS
<1>1. /\ phase' = "running" /\ conf' = c /\ queue' = <<>> /\ ctl' = <<>> /\ server'.got = 0 /\ own'.base = 0
      /\ hand'["control"] = None /\ hand'["feedback"] = None /\ tui'.bytes = 0 /\ out'.bytes = 0
  BY DEF Begin
<1>2. BytesOf(queue)' = <<>> /\ BytesOf(ctl)' = <<>> /\ Held' = 0 /\ Shown' = 0
  BY <1>1 DEF BytesOf, Held, Shown
<1> QED
  BY <1>1, <1>2, FlowEmpty DEF BytesInv

LEMMA BytesNext == Shape /\ BytesInv /\ phase # "idle" /\ Next => BytesInv'
<1> SUFFICES ASSUME Shape, BytesInv, phase # "idle", Next PROVE BytesInv'
  OBVIOUS
<1> DEFINE F == Flows(Shown, BytesOf(queue), Held, BytesOf(ctl), own.base, server.got)
           S == BytesOf(queue)
           V == BytesOf(ctl)
<1>1. SourceInv /\ ChannelInv /\ ScreenInv
  BY DEF Shape
<1>2. /\ hand["feedback"] # None => hand["feedback"].bytes = 0
      /\ phase # "done" => F
      /\ phase = "joined" => result.bytes = Counted
      /\ phase = "done" => Shown = Counted
  BY DEF BytesInv
<1>3. /\ queue \in Seq(Updates) /\ ctl \in Seq(Intervals)
      /\ hand \in [{"control", "feedback"} -> Updates \cup {None}]
      /\ S \in Seq(Nat) /\ V \in Seq(Nat)
      /\ Held \in Nat /\ Shown \in Nat /\ Counted \in Nat /\ own.base \in Nat /\ server.got \in Nat
  BY FlowTypes
<1> HIDE DEF F
<1>4. /\ conf' = conf /\ hand'["control"] = hand["control"] => Held' = Held
      /\ conf' = conf /\ tui'.bytes = tui.bytes /\ out' = out => Shown' = Shown
  BY DEF Held, Shown
\* Steps that move no bytes.
<1>5. ASSUME UNCHANGED <<conf, server, ctl, own, queue, Held, Shown>>,
             hand' = hand \/ (hand'["feedback"] # None => hand'["feedback"].bytes = 0),
             phase' # "done" => phase # "done",
             phase' = "joined" => result'.bytes = Counted',
             phase' = "done" => Shown = Counted'
      PROVE  BytesInv'
  <2>1. F' <=> F
    BY <1>5 DEF F, BytesOf
  <2> QED
    BY <1>2, <1>5, <2>1 DEF BytesInv, F
<1>6. ASSUME UNCHANGED <<conf, server, ctl, own, queue, Held, Shown, rx, phase, result>>,
             hand' = hand \/ (hand'["feedback"] # None => hand'["feedback"].bytes = 0)
      PROVE  BytesInv'
  <2>1. Counted' = Counted
    BY <1>6 DEF Counted
  <2> QED
    BY <1>2, <1>5, <1>6, <2>1
\* Steps of a run whose Result is not in yet, or of its end, that move some.
<1>7. ASSUME F => F', phase' = phase, UNCHANGED <<rx, result, Shown>>,
             hand'["feedback"] = hand["feedback"] \/ hand'["feedback"] = None
      PROVE  BytesInv'
  <2>1. Counted' = Counted
    BY <1>7 DEF Counted
  <2> QED
    BY <1>2, <1>7, <2>1 DEF BytesInv, F
<1>8. ASSUME NEW s \in Streams, NEW d \in Dirs, Receive(d, s) PROVE BytesInv'
  <2>1. UNCHANGED <<conf, server, ctl, own, queue, hand, tui, out, phase, result>> /\ phase \notin {"joined", "done"}
    BY <1>8 DEF Receive, Live
  <2>2. Held' = Held /\ Shown' = Shown
    BY <1>4, <2>1
  <2> HIDE DEF Held, Shown
  <2> QED
    BY <1>5, <2>1, <2>2
<1>9. ASSUME NEW s \in Streams, store_udp_feedback(s) PROVE BytesInv'
  <2>1. UNCHANGED <<conf, rx, server, ctl, own, queue, hand, tui, out, phase, result>>
    BY <1>9 DEF store_udp_feedback
  <2> QED
    BY <1>6, <1>4, <2>1
<1>10. CASE UserCancel \/ ReadResult
  <2>1. UNCHANGED <<conf, server, ctl, own, queue, hand, tui, out, result>> /\ phase' \in {"stopping", "joining"}
        /\ phase # "done"
    BY <1>10 DEF UserCancel, ReadResult, Idle, Live
  <2> QED
    BY <1>5, <1>4, <2>1
<1>11. CASE JoinThenOverlay
  <2>1. result'.bytes = Counted'
    BY <1>1, <1>11, OverlayFacts DEF JoinThenOverlay, Counted
  <2> QED
    BY <1>5, <1>11, <1>4, <2>1 DEF JoinThenOverlay
<1>12. CASE FeedbackTick
  <2>1. hand' = [hand EXCEPT !["feedback"] = Update(FALSE, 0, 0, 0, Total(slots), None)]
        /\ UNCHANGED <<conf, rx, server, ctl, own, queue, tui, out, phase, result>>
    BY <1>12 DEF FeedbackTick
  <2>2. hand'["control"] = hand["control"] /\ hand'["feedback"] = Update(FALSE, 0, 0, 0, Total(slots), None)
    BY <1>3, <2>1
  <2>3. hand'["feedback"].bytes = 0
    BY <2>2 DEF Update
  <2> QED
    BY <1>6, <1>4, <2>1, <2>2, <2>3
<1>13. CASE tick \/ Elapse
  <2>1. UNCHANGED <<conf, rx, server, ctl, own, queue, hand, out, phase, result>>
    BY <1>13 DEF tick, Elapse
  <2>2. tui'.bytes = tui.bytes
    <3>1. CASE tick
      BY <1>1, <3>1, TickFacts DEF Rest
    <3>2. CASE Elapse
      <4>1. tui' = [tui EXCEPT !.age = @ + 1]
        BY <3>2 DEF Elapse
      <4> QED
        BY <1>1, <4>1 DEF ScreenInv, Apps
    <3> QED
      BY <1>13, <3>1, <3>2
  <2> QED
    BY <1>6, <1>4, <2>1, <2>2
<1>14. CASE SendInterval
  <2> DEFINE t == Total(rx["up"])
             m == [at |-> server.sent + 1, bytes |-> t.got - server.got,
                   lost |-> Minus(t.lost, server.lost), prog |-> IF conf.cum THEN t ELSE None]
  <2>1. /\ UNCHANGED <<conf, rx, hand, own, queue, tui, out, phase, result>>
        /\ ctl' = Append(ctl, m) /\ server'.got = t.got
    BY <1>14 DEF SendInterval
  <2>2. /\ t \in Readings /\ t.got \in Nat /\ t.lost \in Nat /\ server.got <= t.got
        /\ server.sent \in Nat /\ server.lost \in Nat
    BY <1>1, Totals DEF SourceInv
  <2>3. m \in Intervals /\ m.bytes = t.got - server.got /\ m.bytes \in Nat
    <3> HIDE DEF t
    <3>1. t.got - server.got \in Nat
      BY <1>3, <2>2
    <3>2. Minus(t.lost, server.lost) \in Nat /\ (IF conf.cum THEN t ELSE None) \in Optional
          /\ server.sent + 1 \in Nat
      BY <2>2 DEF Minus, Optional
    <3> QED
      BY <3>1, <3>2 DEF Intervals
  <2> HIDE DEF m, t
  <2>4. BytesOf(ctl)' = Append(V, m.bytes)
    BY <1>3, <2>1, <2>3, Carriers, Carried
  <2>5. server.got + m.bytes <= t.got
    BY <1>3, <2>2, <2>3
  <2>6. UNCHANGED <<Held, Shown, BytesOf(queue), own>>
    BY <2>1 DEF Held, Shown, BytesOf
  <2>7. ASSUME F PROVE F'
    <3>1. Flows(Shown, S, Held, Append(V, m.bytes), own.base, t.got)
      BY <1>3, <2>2, <2>3, <2>5, <2>7, FlowFacts DEF F
    <3> QED
      BY <2>1, <2>4, <2>6, <3>1 DEF F
  <2> QED
    BY <1>7, <2>1, <2>6, <2>7
<1>15. CASE FeedbackSend
  <2> DEFINE h == hand["feedback"]
  <2>1. /\ UNCHANGED <<conf, rx, server, ctl, own, tui, out, phase, result>>
        /\ hand' = [hand EXCEPT !["feedback"] = None] /\ h # None
        /\ queue' = queue \/ queue' = Append(queue, h)
    BY <1>15 DEF FeedbackSend
  <2>2. h \in Updates /\ h.bytes = 0 /\ hand'["control"] = hand["control"] /\ hand'["feedback"] = None
    BY <1>2, <1>3, <2>1
  <2>3. UNCHANGED <<Held, Shown, BytesOf(ctl)>>
    BY <1>4, <2>1, <2>2 DEF BytesOf
  <2> HIDE DEF h
  <2>4. BytesOf(queue)' = S \/ BytesOf(queue)' = Append(S, 0)
    <3>1. BytesOf(Append(queue, h)) = Append(S, 0)
      BY <1>3, <2>2, Carriers, Carried
    <3> QED
      BY <2>1, <3>1
  <2>5. ASSUME F PROVE F'
    <3>1. Flows(Shown, Append(S, 0), Held, V, own.base, server.got)
      BY <1>3, <2>5, FlowFacts DEF F
    <3> QED
      BY <2>1, <2>3, <2>4, <2>5, <3>1 DEF F
  <2> QED
    BY <1>7, <2>1, <2>2, <2>3, <2>5
<1>16. CASE ReadInterval
  <2> DEFINE m == Head(ctl)
             e == IF conf.dir = "bidir" THEN OwnDelta ELSE 0
             b == m.bytes + e
             v == IF conf.dir = "bidir" THEN udp_local_direction_progress ELSE None
             u == Update(TRUE, m.at, b, m.lost, Fresher(filter, m.prog), v)
  <2>1. /\ UNCHANGED <<conf, rx, server, queue, tui, out, phase, result>> /\ hand["control"] = None
        /\ ctl # <<>> /\ ctl' = Tail(ctl) /\ hand' = [hand EXCEPT !["control"] = u]
        /\ own' = IF conf.dir = "bidir" THEN AdvanceBase(own) ELSE own
    BY <1>16 DEF ReadInterval, Idle
  <2>2. e \in Nat /\ own'.base = own.base + e
    BY <1>1, <1>3, <2>1, OwnFacts
  <2> HIDE DEF e
  <2>3. /\ BytesOf(ctl)' = Tail(V) /\ V # <<>> /\ Head(V) = m.bytes
    BY <1>3, <2>1, Carriers, Carried
  <2>4. u # None /\ u.bytes = b
    <3>1. u.bytes = b
      BY DEF Update
    <3>2. hand' \in [{"control", "feedback"} -> Updates \cup {None}] /\ hand'["control"] = u
      BY <1>3, <2>1, <1>1, ChannelStep DEF ChannelInv
    <3>3. u \in Updates
      <4>1. m \in Intervals
        BY <1>3, <2>1
      <4>2. m.at \in Nat /\ m.bytes \in Nat /\ m.lost \in Nat /\ m.prog \in Optional
        BY <4>1 DEF Intervals
      <4>3. v \in Optional /\ Fresher(filter, m.prog) \in Optional
        BY <1>1, <4>2, OwnFacts, CacheFacts DEF Optional, ChannelInv
      <4> HIDE DEF m, v
      <4> QED
        BY <2>2, <4>2, <4>3 DEF Update, Updates, Optional
    <3> HIDE DEF u
    <3> QED
      BY <3>1, <3>3, NoReading
  <2> HIDE DEF u, v, m
  <2>5. hand'["control"] = u /\ hand'["feedback"] = hand["feedback"]
    BY <1>3, <2>1
  <2>6. Held = 0 /\ Held' = Head(V) + e /\ Shown' = Shown /\ BytesOf(queue)' = S
    BY <1>4, <2>1, <2>3, <2>4, <2>5 DEF Held, BytesOf
  <2>7. ASSUME F PROVE F'
    <3>1. Flows(Shown, S, Head(V) + e, Tail(V), own.base + e, server.got)
      BY <1>3, <2>2, <2>3, <2>6, <2>7, FlowFacts DEF F
    <3> QED
      BY <2>1, <2>2, <2>3, <2>6, <3>1 DEF F
  <2> QED
    BY <1>7, <2>1, <2>5, <2>6, <2>7
<1>17. CASE LocalReport
  <2> DEFINE t == Total(rx["down"])
             u == Update(TRUE, own.sent + 1, OwnDelta, 0, Fresher(filter, t), None)
  <2>1. /\ UNCHANGED <<conf, rx, server, ctl, queue, tui, out, phase, result>> /\ hand["control"] = None
        /\ hand' = [hand EXCEPT !["control"] = u] /\ own' = [AdvanceBase(own) EXCEPT !.sent = @ + 1]
    BY <1>17 DEF LocalReport, Idle
  <2>2. OwnDelta \in Nat /\ own'.base = own.base + OwnDelta
    <3>1. /\ OwnDelta \in Nat /\ own.base + OwnDelta = t.got
          /\ AdvanceBase(own) = [base |-> t.got, sent |-> own.sent]
      BY <1>1, OwnFacts
    <3> QED
      BY <2>1, <3>1
  <2>3. u # None /\ u.bytes = OwnDelta
    <3>1. u.bytes = OwnDelta
      BY DEF Update
    <3>2. t \in Optional /\ filter \in Optional /\ own.sent + 1 \in Nat
      BY <1>1, Totals DEF Optional, ChannelInv, SourceInv
    <3>3. Fresher(filter, t) \in Optional
      BY <3>2, CacheFacts DEF Optional
    <3>4. u \in Updates
      BY <2>2, <3>2, <3>3 DEF Update, Updates, Optional
    <3> HIDE DEF u
    <3> QED
      BY <3>1, <3>4, NoReading
  <2> HIDE DEF u, t
  <2>4. hand'["control"] = u /\ hand'["feedback"] = hand["feedback"]
    BY <1>3, <2>1
  <2>5. Held = 0 /\ Held' = OwnDelta /\ Shown' = Shown /\ BytesOf(queue)' = S /\ BytesOf(ctl)' = V
    BY <1>4, <2>1, <2>3, <2>4 DEF Held, BytesOf
  <2>6. ASSUME F PROVE F'
    <3>1. Flows(Shown, S, OwnDelta, V, own.base + OwnDelta, server.got)
      BY <1>3, <2>2, <2>5, <2>6, FlowFacts DEF F
    <3> QED
      BY <2>1, <2>2, <2>5, <3>1 DEF F
  <2> QED
    BY <1>7, <2>1, <2>4, <2>5, <2>6
<1>18. CASE LocalDirection
  <2> DEFINE u == Update(FALSE, 0, 0, 0, None, udp_local_direction_progress)
  <2>1. /\ UNCHANGED <<conf, rx, server, ctl, hand, tui, out, phase, result>>
        /\ own' = [own EXCEPT !.sent = @ + 1] /\ (queue' = queue \/ queue' = Append(queue, u))
    BY <1>18 DEF LocalDirection
  <2>2. u \in Updates /\ u.bytes = 0
    BY <1>1, OwnFacts DEF Update, Updates, Optional
  <2> HIDE DEF u
  <2>3. own'.base = own.base
    BY <1>1, <2>1 DEF SourceInv
  <2>4. UNCHANGED <<Held, Shown, BytesOf(ctl)>>
    BY <1>4, <2>1 DEF BytesOf
  <2>5. BytesOf(queue)' = S \/ BytesOf(queue)' = Append(S, 0)
    <3>1. BytesOf(Append(queue, u)) = Append(S, 0)
      BY <1>3, <2>2, Carriers, Carried
    <3> QED
      BY <2>1, <3>1
  <2>6. ASSUME F PROVE F'
    <3>1. Flows(Shown, Append(S, 0), Held, V, own.base, server.got)
      BY <1>3, <2>6, FlowFacts DEF F
    <3> QED
      BY <2>1, <2>3, <2>4, <2>5, <2>6, <3>1 DEF F
  <2> QED
    BY <1>7, <2>1, <2>4, <2>6
<1>19. CASE send_progress_until_cancelled
  <2> DEFINE h == hand["control"]
  <2>1. /\ UNCHANGED <<conf, rx, server, ctl, own, tui, out, phase, result>> /\ h # None
        /\ hand' = [hand EXCEPT !["control"] = None]
        /\ queue' = queue \/ queue' = Append(queue, h)
    BY <1>19 DEF send_progress_until_cancelled
  <2>2. h \in Updates /\ Held = h.bytes /\ hand'["control"] = None /\ hand'["feedback"] = hand["feedback"]
    BY <1>3, <2>1 DEF Held
  <2> HIDE DEF h
  <2>3. Held' = 0 /\ UNCHANGED <<Shown, BytesOf(ctl)>>
    BY <1>4, <2>1, <2>2 DEF BytesOf, Held
  <2>4. BytesOf(queue)' = S \/ BytesOf(queue)' = Append(S, Held)
    <3>1. BytesOf(Append(queue, h)) = Append(S, Held)
      BY <1>3, <2>2, Carriers, Carried
    <3> QED
      BY <2>1, <3>1
  <2>5. ASSUME F PROVE F'
    <3>1. /\ Flows(Shown, Append(S, Held), 0, V, own.base, server.got)
          /\ Flows(Shown, S, 0, V, own.base, server.got)
      BY <1>3, <2>5, FlowFacts DEF F
    <3> QED
      BY <2>1, <2>3, <2>4, <3>1 DEF F
  <2> QED
    BY <1>7, <2>1, <2>2, <2>3, <2>5
<1>20. CASE Consumes
  <2>1. /\ UNCHANGED <<conf, rx, server, ctl, own, hand, phase, result>> /\ phase # "done"
        /\ queue # <<>> /\ queue' = Tail(queue)
    BY <1>20 DEF Consumes, on_progress, PrintLoop
  <2>2. /\ BytesOf(queue)' = Tail(S) /\ S # <<>> /\ Head(S) = Head(queue).bytes /\ Head(S) \in Nat
    <3>1. /\ BytesOf(Tail(queue)) = Tail(S) /\ S # <<>> /\ Head(S) = Head(queue).bytes
      BY <1>3, <2>1, Carriers, Carried
    <3>2. Head(S) \in Nat
      BY <1>3, <3>1
    <3> QED
      BY <2>1, <3>1, <3>2
  <2>3. Shown' <= Shown + Head(S)
    <3>1. CASE on_progress
      <4>1. tui'.bytes <= tui.bytes + Head(queue).bytes
        BY <1>1, <3>1, ShowsUpdate DEF Shows
      <4>2. Shown = tui.bytes /\ Shown' = tui'.bytes
        BY <2>1, <3>1 DEF on_progress, Shown
      <4> QED
        BY <2>2, <4>1, <4>2
    <3>2. CASE PrintLoop
      <4>1. out'.bytes <= out.bytes + Head(queue).bytes
        BY <1>1, <3>2, TakesUpdate DEF Takes
      <4>2. Shown = out.bytes /\ Shown' = out'.bytes
        BY <2>1, <3>2 DEF PrintLoop, Shown
      <4> QED
        BY <2>2, <4>1, <4>2
    <3> QED
      BY <1>20, <3>1, <3>2 DEF Consumes
  <2>4. Shown' \in Nat
    <3>1. ScreenInv'
      BY <1>1, ScreenStep
    <3> QED
      BY <3>1 DEF ScreenInv, Apps, Printers, Shown
  <2>5. Held' = Held /\ BytesOf(ctl)' = V /\ Counted' = Counted
    BY <1>4, <2>1 DEF BytesOf, Counted
  <2>6. F'
    <3>1. F
      BY <1>2, <2>1
    <3>2. Flows(Shown', Tail(S), Held, V, own.base, server.got)
      BY <1>3, <2>2, <2>3, <2>4, <3>1, FlowShow DEF F
    <3> QED
      BY <2>1, <2>2, <2>5, <3>2 DEF F
  <2> QED
    BY <1>2, <2>1, <2>5, <2>6 DEF BytesInv, F
<1>21. CASE on_result \/ PrintSummary
  <2>1. /\ UNCHANGED <<conf, rx, hand, result>> /\ phase = "joined" /\ phase' = "done"
        /\ conf.ui = "tui" => tui' = [tui EXCEPT !.bytes = result.bytes, !.lost = result.lost]
        /\ conf.ui # "tui" => out' = [out EXCEPT !.bytes = result.bytes]
    BY <1>21 DEF on_result, PrintSummary
  <2>2. Shown' = result.bytes
    BY <1>1, <2>1 DEF Shown, ScreenInv, Apps, Printers
  <2>3. Counted' = Counted
    BY <2>1 DEF Counted
  <2> QED
    BY <1>2, <2>1, <2>2, <2>3 DEF BytesInv
<1> QED
  BY <1>8, <1>9, <1>10, <1>11, <1>12, <1>13, <1>14, <1>15, <1>16, <1>17, <1>18, <1>19, <1>20, <1>21
     DEF Next, Consumes

LEMMA BytesStep == Shape /\ BytesInv /\ [DisplayNext]_vars => BytesInv'
<1> SUFFICES ASSUME Shape, BytesInv, [DisplayNext]_vars PROVE BytesInv'
  OBVIOUS
<1>1. CASE \E c \in Confs : Begin(c)
  BY <1>1, BytesBegin
<1>2. CASE phase # "idle" /\ Next
  BY <1>2, BytesNext
<1>3. CASE UNCHANGED vars
  BY <1>3 DEF vars, BytesInv, Shown, Held, Counted, BytesOf
<1> QED
  BY <1>1, <1>2, <1>3 DEF DisplayNext

LEMMA BytesOnce == Shape /\ BytesInv => BytesShownOnce
<1> SUFFICES ASSUME Shape, BytesInv, phase # "idle"
             PROVE  Shown <= Counted /\ (phase = "done" => Shown = Counted)
  BY DEF BytesShownOnce, Shown, Counted
<1>1. /\ Held \in Nat /\ Shown \in Nat /\ Counted \in Nat /\ own.base \in Nat /\ server.got \in Nat
      /\ server.got <= Total(rx["up"]).got /\ own.base <= Total(rx["down"]).got
      /\ BytesOf(queue) \in Seq(Nat) /\ BytesOf(ctl) \in Seq(Nat)
  BY FlowTypes
<1>2. CASE phase = "done"
  BY <1>1, <1>2 DEF BytesInv
<1>3. CASE phase # "done"
  <2>1. Shown <= server.got + own.base
    BY <1>1, <1>3, FlowFacts DEF BytesInv
  <2>2. Total(rx["up"]).got \in Nat /\ Total(rx["down"]).got \in Nat
    BY Totals DEF Shape
  <2> QED
    BY <1>1, <1>3, <2>1, <2>2 DEF Counted
<1> QED
  BY <1>2, <1>3

-----------------------------------------------------------------------------
(* No loss is shown twice, for a run of one stream.  Every reading on its way *)
(* or on the screen is one the counters have had.  Each past reading p has a  *)
(* number h[p] of gaps opened until then; between two readings the losses     *)
(* counted never rise by more than the gaps, so what is shown from one        *)
(* reading to a later one stays within the gaps opened in between.            *)

Past == was[LossDir][1]
Current == rx[LossDir][1]
Known == Past \cup {None}
\* The server's counts at its last Interval.
Heard == [got |-> server.got, lost |-> server.lost]
Carries(q, K) == \A i \in 1 .. Len(q) : q[i].prog \in K

\* The readings on their way to the screen: of the slots from P, all others from K.
InFlight(P, K) ==
    /\ slots[1] \in P /\ filter \in K
    /\ \A k \in {"control", "feedback"} : hand[k] # None => hand[k].prog \in K
    /\ Carries(ctl, K) /\ Carries(queue, K)
KnownInv ==
    /\ InFlight(Past, Known)
    /\ hand["feedback"] # None => hand["feedback"].lost = 0
    /\ Heard \in Past /\ (conf.dir = "download" => Heard = Zero)
    /\ tui.latest \in Known /\ tui.prev \in Known /\ out.latest \in Known
\* An older server sends no readings.
OldServer == ~conf.cum /\ conf.dir # "download"
OldInv == OldServer => InFlight({Zero}, {None})

HeldLost == IF hand["control"] = None THEN 0 ELSE hand["control"].lost
LossFlow(h, s) == Flows(s, LostOf(queue), HeldLost, LostOf(ctl), 0, h[Heard])

Rises(h) ==
    /\ h \in [Past -> Nat] /\ Current \in Past /\ Zero \in Past
    /\ h[Zero] = 0 /\ h[Current] = gaps[LossDir]
    /\ \A p \in Past : p.got <= Current.got
    /\ \A p, q \in Past : p.got <= q.got => h[p] <= h[q] /\ q.lost + h[p] <= p.lost + h[q]

\* What the interface has drawn, counted and logged.
TuiBound(h) ==
    /\ tui.drawn.lost <= (IF tui.prev = None THEN 0 ELSE h[tui.prev])
    /\ tui.logged <= tui.prevLost /\ tui.prevLost <= gaps[LossDir]
    /\ phase # "done" => tui.lost <= gaps[LossDir]
    /\ phase # "done" /\ tui.latest = None => LossFlow(h, tui.lost)
\* The rows printed stay within the gaps at the reading p that the next row is counted from.
OutBound(h) ==
    /\ out.latest = None => /\ out.printed = 0 /\ LossFlow(h, out.rows)
                            /\ out.guess \/ out.rows = 0 \/ OldServer
    /\ out.latest # None => \E p \in Past : /\ p.lost = out.printed /\ p.got <= out.latest.got
                                            /\ out.guess \/ out.rows <= h[p]
LossInv ==
    phase # "idle" /\ conf.streams = 1 =>
        KnownInv /\ OldInv /\ \E h : Rises(h) /\ TuiBound(h) /\ OutBound(h)

LEMMA CarriesFacts ==
    \A K, S : \A q \in Seq(S) : Carries(q, K) =>
        /\ \A u \in S : u.prog \in K => Carries(Append(q, u), K)
        /\ q # <<>> => Head(q).prog \in K /\ Carries(Tail(q), K)
        /\ \A L : K \subseteq L => Carries(q, L)
<1> TAKE K, S
<1> TAKE q \in Seq(S)
<1> HAVE Carries(q, K)
<1>1. ASSUME NEW u \in S, u.prog \in K PROVE Carries(Append(q, u), K)
  <2>1. Len(Append(q, u)) = Len(q) + 1 /\ Append(q, u)[Len(q) + 1] = u
        /\ \A i \in 1 .. Len(q) : Append(q, u)[i] = q[i]
    OBVIOUS
  <2> SUFFICES ASSUME NEW i \in 1 .. Len(q) + 1 PROVE Append(q, u)[i].prog \in K
    BY <2>1 DEF Carries
  <2>2. Len(q) \in Nat
    OBVIOUS
  <2>3. CASE i = Len(q) + 1
    BY <1>1, <2>1, <2>3
  <2>4. CASE i \in 1 .. Len(q)
    BY <2>1, <2>4 DEF Carries
  <2> QED
    BY <2>2, <2>3, <2>4
<1>2. ASSUME q # <<>> PROVE Head(q).prog \in K /\ Carries(Tail(q), K)
  <2>1. Len(q) \in Nat /\ Len(q) > 0 /\ Head(q) = q[1] /\ Len(Tail(q)) = Len(q) - 1
        /\ \A i \in 1 .. Len(q) - 1 : Tail(q)[i] = q[i + 1]
    BY <1>2
  <2> QED
    BY <2>1 DEF Carries
<1>3. \A L : K \subseteq L => Carries(q, L)
  BY DEF Carries
<1> QED
  BY <1>1, <1>2, <1>3

\* What a single stream's sums and directions are.
LEMMA SingleFacts ==
    ASSUME Shape, phase # "idle", conf.streams = 1
    PROVE  /\ LossDir \in Dirs /\ Past \subseteq Readings /\ Current \in Readings /\ gaps[LossDir] \in Nat
           /\ Known \subseteq Optional
           /\ Total(rx["up"]) = rx["up"][1] /\ Total(rx["down"]) = rx["down"][1]
           /\ slots[1] \in Readings /\ Total(slots) = slots[1]
           /\ Streams = {1} /\ Zero \in Readings /\ Zero.got = 0 /\ Zero.lost = 0
           /\ HeldLost \in Nat
<1>1. SourceInv /\ ChannelInv
  BY DEF Shape
<1>2. LossDir \in Dirs
  BY DEF LossDir, Dirs
<1>3. Past \subseteq Readings /\ Current \in Readings /\ gaps[LossDir] \in Nat
  BY <1>1, <1>2 DEF SourceInv, Past, Current
<1>4. rx["up"] \in [1 .. 1 -> Readings] /\ rx["down"] \in [1 .. 1 -> Readings]
      /\ slots \in [1 .. 1 -> Readings]
  BY <1>1 DEF SourceInv, ChannelInv, Dirs
<1>5. Total(rx["up"]) = rx["up"][1] /\ Total(rx["down"]) = rx["down"][1] /\ Total(slots) = slots[1]
  BY <1>4, TotalFacts
<1>6. slots[1] \in Readings /\ Streams = {1} /\ Zero \in Readings /\ Zero.got = 0 /\ Zero.lost = 0
  BY <1>4 DEF Streams, Zero, Readings
<1>7. HeldLost \in Nat
  BY <1>1 DEF ChannelInv, HeldLost, Updates
<1>8. Known \subseteq Optional
  BY <1>3 DEF Known, Optional
<1> QED
  BY <1>2, <1>3, <1>5, <1>6, <1>7, <1>8

\* Past readings: their losses and gaps are within the gaps opened so far.
LEMMA RiseFacts ==
    ASSUME Shape, phase # "idle", conf.streams = 1, NEW h, Rises(h)
    PROVE  \A p \in Past : /\ p.got \in Nat /\ p.lost \in Nat /\ h[p] \in Nat
                           /\ p.lost <= h[p] /\ h[p] <= gaps[LossDir]
                           /\ \A q \in Past : p.got <= q.got =>
                                 h[p] <= h[q] /\ h[p] + Minus(q.lost, p.lost) <= h[q]
<1> TAKE p \in Past
<1>1. \A q \in Past : q.got \in Nat /\ q.lost \in Nat /\ h[q] \in Nat
  BY SingleFacts DEF Rises, Readings
<1>2. Zero \in Past /\ h[Zero] = 0 /\ Zero.got = 0 /\ Zero.lost = 0 /\ Zero.got <= p.got
  BY <1>1, SingleFacts DEF Rises
<1>3. p.lost <= h[p]
  <2>1. p.lost + h[Zero] <= Zero.lost + h[p]
    BY <1>2 DEF Rises
  <2> QED
    BY <1>1, <1>2, <2>1
<1>4. h[p] <= gaps[LossDir]
  BY DEF Rises
<1>5. ASSUME NEW q \in Past, p.got <= q.got
      PROVE  h[p] <= h[q] /\ h[p] + Minus(q.lost, p.lost) <= h[q]
  <2>1. h[p] <= h[q] /\ q.lost + h[p] <= p.lost + h[q]
    BY <1>5 DEF Rises
  <2> QED
    BY <1>1, <2>1 DEF Minus
<1> QED
  BY <1>1, <1>3, <1>4, <1>5

\* Readings come from the counters: the server's Intervals and feedback and the client's own.
LEMMA InFlightNext ==
    ASSUME Shape, phase # "idle", conf.streams = 1, Next
    PROVE  \A P, K : /\ InFlight(P, K) /\ None \in K /\ P \ {Zero} \subseteq K
                     /\ conf.cum /\ conf.dir # "download" => Past \subseteq P /\ Current \in K
                     /\ conf.dir = "download" => Current \in K
                     => /\ slots'[1] \in P /\ filter' \in K
                        /\ \A k \in {"control", "feedback"} : hand'[k] # None => hand'[k].prog \in K
                        /\ Carries(ctl', K) /\ Carries(queue', K)
<1> TAKE P, K
<1> HAVE /\ InFlight(P, K) /\ None \in K /\ P \ {Zero} \subseteq K
         /\ conf.cum /\ conf.dir # "download" => Past \subseteq P /\ Current \in K
         /\ conf.dir = "download" => Current \in K
<1> DEFINE Goal == /\ slots'[1] \in P /\ filter' \in K
                   /\ \A k \in {"control", "feedback"} : hand'[k] # None => hand'[k].prog \in K
                   /\ Carries(ctl', K) /\ Carries(queue', K)
<1>1. /\ SourceInv /\ ChannelInv /\ conf.dir \in {"upload", "download", "bidir"}
  BY Totals DEF Shape
<1>2. /\ slots \in [1 .. 1 -> Readings] /\ filter \in Optional
      /\ hand \in [{"control", "feedback"} -> Updates \cup {None}]
      /\ ctl \in Seq(Intervals) /\ queue \in Seq(Updates)
  BY <1>1 DEF ChannelInv
<1>3. /\ slots[1] \in P /\ filter \in K
      /\ hand["control"] # None => hand["control"].prog \in K
      /\ hand["feedback"] # None => hand["feedback"].prog \in K
      /\ Carries(ctl, K) /\ Carries(queue, K)
  BY DEF InFlight
<1>4. \A u \in Updates : u.prog \in K => Carries(Append(queue, u), K)
  BY <1>2, <1>3, CarriesFacts
<1>5. ASSUME NEW p \in Optional PROVE Latest(filter, p) \in {filter, p} /\ Fresher(filter, p) \in {p, None}
  BY <1>2, <1>5, CacheFacts
<1>6. ASSUME NEW c \in {"control", "feedback"}, NEW u, hand' = [hand EXCEPT ![c] = u],
             u # None => u.prog \in K
      PROVE  \A k \in {"control", "feedback"} : hand'[k] # None => hand'[k].prog \in K
  BY <1>2, <1>3, <1>6
<1>7. CASE ChannelQuiet
  BY <1>3, <1>7 DEF ChannelQuiet
<1>8. ASSUME NEW s \in Streams, store_udp_feedback(s) PROVE Goal
  <2>1. UNCHANGED <<ctl, filter, hand, queue>>
    BY <1>8 DEF store_udp_feedback
  <2>2. PICK p \in FeedbackOf(s) : slots' = [slots EXCEPT ![s] = p]
    BY <1>8 DEF store_udp_feedback
  <2>3. s = 1
    BY <1>8, SingleFacts
  <2>4. conf.cum /\ conf.dir = "upload" /\ p \in was["up"][1]
    BY <2>2, <2>3 DEF FeedbackOf
  <2>5. p \in P
    BY <2>4 DEF Past, LossDir
  <2>6. slots'[1] \in P
    BY <1>2, <2>2, <2>3, <2>5
  <2> QED
    BY <1>3, <2>1, <2>6
<1>9. ASSUME SendInterval PROVE Goal
  <2> DEFINE t == Total(rx["up"])
             m == [at |-> server.sent + 1, bytes |-> t.got - server.got,
                   lost |-> Minus(t.lost, server.lost), prog |-> IF conf.cum THEN t ELSE None]
  <2>1. UNCHANGED <<slots, filter, hand, queue>> /\ ctl' = Append(ctl, m) /\ Counts("up")
    BY <1>9 DEF SendInterval
  <2>2. conf.dir # "download" /\ t = Current
    BY <1>1, <2>1, SingleFacts DEF Counts, LossDir, Current
  <2>3. m.prog = IF conf.cum THEN t ELSE None
    OBVIOUS
  <2>4. m.prog \in K
    BY <2>2, <2>3
  <2>5. m \in Intervals
    <3>1. /\ t \in Readings /\ t.got \in Nat /\ t.lost \in Nat /\ server.got <= t.got
          /\ server.sent \in Nat /\ server.got \in Nat /\ server.lost \in Nat
      BY <1>1, Totals DEF SourceInv
    <3> HIDE DEF t
    <3> QED
      BY <3>1 DEF Intervals, Optional, Minus
  <2> HIDE DEF m
  <2>6. Carries(ctl', K)
    BY <1>2, <1>3, <2>1, <2>4, <2>5, CarriesFacts
  <2> QED
    BY <1>3, <2>1, <2>6
<1>10. ASSUME FeedbackTick PROVE Goal
  <2> DEFINE t == Total(slots)
             u == Update(FALSE, 0, 0, 0, t, None)
  <2>1. /\ UNCHANGED <<slots, ctl, queue>> /\ t # Zero /\ filter' = Latest(filter, t)
        /\ hand' = [hand EXCEPT !["feedback"] = u]
    BY <1>10 DEF FeedbackTick, apply
  <2>2. t = slots[1] /\ t \in Optional
    BY SingleFacts DEF Optional
  <2>3. t \in K
    BY <1>3, <2>1, <2>2
  <2> HIDE DEF t
  <2>4. u.prog = t
    BY DEF Update
  <2> HIDE DEF u
  <2> QED
    BY <1>3, <1>5, <1>6, <2>1, <2>2, <2>3, <2>4
<1>11. ASSUME FeedbackSend PROVE Goal
  <2>1. /\ UNCHANGED <<slots, filter, ctl>> /\ hand' = [hand EXCEPT !["feedback"] = None]
        /\ hand["feedback"] # None
        /\ queue' = queue \/ queue' = Append(queue, hand["feedback"])
    BY <1>11 DEF FeedbackSend
  <2>2. hand["feedback"] \in Updates
    BY <1>2, <2>1
  <2>3. Carries(queue', K)
    BY <1>3, <1>4, <2>1, <2>2
  <2> QED
    BY <1>3, <1>6, <2>1, <2>3
<1>12. ASSUME ReadInterval PROVE Goal
  <2> DEFINE m == Head(ctl)
             v == IF conf.dir = "bidir" THEN udp_local_direction_progress ELSE None
             b == m.bytes + (IF conf.dir = "bidir" THEN OwnDelta ELSE 0)
             f == Fresher(filter, m.prog)
             u == Update(TRUE, m.at, b, m.lost, f, v)
  <2>1. /\ UNCHANGED <<slots, queue>> /\ ctl # <<>> /\ ctl' = Tail(ctl)
        /\ filter' = Latest(filter, m.prog) /\ hand' = [hand EXCEPT !["control"] = u]
    BY <1>12 DEF ReadInterval, apply
  <2>2. m \in Intervals
    BY <1>2, <2>1
  <2>3. m.prog \in K /\ Carries(ctl', K)
    BY <1>2, <1>3, <2>1, CarriesFacts
  <2> HIDE DEF m, v, b
  <2>4. m.prog \in Optional
    BY <2>2 DEF Intervals
  <2>5. f \in K /\ filter' \in K
    BY <1>3, <1>5, <2>1, <2>3, <2>4
  <2> HIDE DEF f
  <2>6. u.prog = f
    BY DEF Update
  <2> HIDE DEF u
  <2> QED
    BY <1>3, <1>6, <2>1, <2>3, <2>5, <2>6
<1>13. ASSUME LocalReport PROVE Goal
  <2> DEFINE t == Total(rx["down"])
             f == Fresher(filter, t)
             u == Update(TRUE, own.sent + 1, OwnDelta, 0, f, None)
  <2>1. /\ UNCHANGED <<slots, queue, ctl>> /\ conf.dir = "download"
        /\ filter' = Latest(filter, t) /\ hand' = [hand EXCEPT !["control"] = u]
    BY <1>13 DEF LocalReport, apply
  <2>2. t = Current /\ t \in Optional
    BY <2>1, SingleFacts DEF LossDir, Current, Optional
  <2>3. t \in K
    BY <2>1, <2>2
  <2> HIDE DEF t
  <2>4. f \in K /\ filter' \in K
    BY <1>3, <1>5, <2>1, <2>2, <2>3
  <2> HIDE DEF f
  <2>5. u.prog = f
    BY DEF Update
  <2> HIDE DEF u
  <2> QED
    BY <1>3, <1>6, <2>1, <2>4, <2>5
<1>14. ASSUME LocalDirection PROVE Goal
  <2> DEFINE u == Update(FALSE, 0, 0, 0, None, udp_local_direction_progress)
  <2>1. UNCHANGED <<slots, filter, ctl, hand>> /\ (queue' = queue \/ queue' = Append(queue, u))
    BY <1>14 DEF LocalDirection
  <2>2. u \in Updates /\ u.prog = None
    BY <1>1, OwnFacts DEF Update, Updates, Optional
  <2> HIDE DEF u
  <2>3. Carries(queue', K)
    BY <1>3, <1>4, <2>1, <2>2
  <2> QED
    BY <1>3, <2>1, <2>3
<1>15. ASSUME send_progress_until_cancelled PROVE Goal
  <2>1. /\ UNCHANGED <<slots, filter, ctl>> /\ hand' = [hand EXCEPT !["control"] = None]
        /\ hand["control"] # None
        /\ queue' = queue \/ queue' = Append(queue, hand["control"])
    BY <1>15 DEF send_progress_until_cancelled
  <2>2. hand["control"] \in Updates
    BY <1>2, <2>1
  <2>3. Carries(queue', K)
    BY <1>3, <1>4, <2>1, <2>2
  <2> QED
    BY <1>3, <1>6, <2>1, <2>3
<1>16. ASSUME Consumes PROVE Goal
  <2>1. UNCHANGED <<slots, filter, ctl, hand>> /\ queue # <<>> /\ queue' = Tail(queue)
    BY <1>16 DEF Consumes, on_progress, PrintLoop
  <2>2. Carries(queue', K)
    BY <1>2, <1>3, <2>1, CarriesFacts
  <2> QED
    BY <1>3, <2>1, <2>2
<1> QED
  BY <1>7, <1>8, <1>9, <1>10, <1>11, <1>12, <1>13, <1>14, <1>15, <1>16, ChannelSteps DEF Produces

\* A packet adds one reading, which later readings follow; no other step adds any.
Grows(n) ==
    /\ n \in Readings /\ n.got = Current.got + 1
    /\ Past' = Past \cup {n} /\ Current' = n
    /\ gaps'[LossDir] = gaps[LossDir] + Minus(n.lost, Current.lost)
    /\ UNCHANGED <<server, ctl, slots, filter, hand, own, queue, tui, out, phase, result>>
Stays == Past' = Past /\ Current' = Current /\ gaps'[LossDir] = gaps[LossDir]

LEMMA PastSteps ==
    ASSUME Shape, phase # "idle", conf.streams = 1, Next
    PROVE  /\ conf' = conf /\ LossDir' = LossDir
           /\ Stays \/ \E n : Grows(n)
           /\ Past \subseteq Past'
<1>1. SourceInv /\ LossDir \in Dirs /\ Current \in Readings /\ Streams = {1}
  BY SingleFacts DEF Shape
<1>2. ASSUME UNCHANGED <<conf, rx, gaps, was>>
      PROVE  conf' = conf /\ LossDir' = LossDir /\ Stays /\ Past \subseteq Past'
  BY <1>2 DEF LossDir, Stays, Past, Current
<1>3. CASE SourceQuiet \/ Reports
  BY <1>2, <1>3 DEF SourceQuiet, Reports, SendInterval, ReadInterval, LocalReport, LocalDirection
<1>4. ASSUME NEW s \in Streams, NEW d \in Dirs, Receive(d, s)
      PROVE  /\ conf' = conf /\ LossDir' = LossDir
             /\ Stays \/ \E n : Grows(n)
             /\ Past \subseteq Past'
  <2> DEFINE c == rx[d][s]
  <2>1. /\ UNCHANGED <<conf, server, ctl, slots, filter, hand, own, queue, tui, out, phase, result>> /\ s = 1
    BY <1>1, <1>4 DEF Receive
  <2>2. PICK n \in {[got |-> c.got + 1, lost |-> c.lost], [got |-> c.got + 1, lost |-> c.lost + 1],
                    [got |-> c.got + 1, lost |-> Minus(c.lost, 1)]} :
            /\ rx' = [rx EXCEPT ![d][s] = n]
            /\ gaps' = [gaps EXCEPT ![d] = @ + Minus(n.lost, c.lost)]
            /\ was' = [was EXCEPT ![d][s] = @ \cup {n}]
    BY <1>4 DEF Receive
  <2>3. LossDir' = LossDir
    BY <2>1 DEF LossDir
  <2>4. /\ rx \in [Dirs -> [1 .. 1 -> Readings]] /\ gaps \in [Dirs -> Nat]
        /\ was \in [Dirs -> [1 .. 1 -> SUBSET Readings]]
    BY <1>1 DEF SourceInv
  <2>5. CASE d # LossDir
    <3>1. rx'[LossDir] = rx[LossDir] /\ gaps'[LossDir] = gaps[LossDir] /\ was'[LossDir] = was[LossDir]
      BY <1>1, <2>2, <2>4, <2>5
    <3>2. Stays
      BY <2>3, <3>1 DEF Stays, Past, Current
    <3> QED
      BY <2>1, <2>3, <3>2 DEF Stays
  <2>6. CASE d = LossDir
    <3>1. c = Current /\ c \in Readings
      BY <1>1, <2>1, <2>6 DEF Current
    <3> HIDE DEF c
    <3>2. n \in Readings /\ n.got = c.got + 1
      BY <2>2, <3>1 DEF Readings, Minus
    <3>3. rx'[LossDir][1] = n /\ gaps'[LossDir] = gaps[LossDir] + Minus(n.lost, c.lost)
          /\ was'[LossDir][1] = was[LossDir][1] \cup {n}
      BY <1>1, <2>1, <2>2, <2>4, <2>6
    <3>4. Grows(n) /\ Past \subseteq Past'
      BY <2>1, <2>3, <3>1, <3>2, <3>3 DEF Grows, Past, Current
    <3> QED
      BY <2>1, <2>3, <3>4
  <2> QED
    BY <2>5, <2>6
<1> QED
  BY <1>3, <1>4, SourceSteps

LEMMA KnownNext ==
    ASSUME Shape, phase # "idle", conf.streams = 1, Current \in Past, Zero \in Past, KnownInv, OldInv, Next
    PROVE  KnownInv' /\ OldInv'
<1>1. SourceInv /\ ChannelInv /\ ScreenInv
  BY DEF Shape
<1>2. conf' = conf /\ Past \subseteq Past' /\ Known \subseteq Known' /\ OldServer' = OldServer
  BY PastSteps DEF Known, OldServer
<1>3. InFlight(Past, Known)'
  <2>1. InFlight(Past, Known) /\ None \in Known /\ Past \ {Zero} \subseteq Known /\ Current \in Known
    BY DEF KnownInv, Known
  <2>2. /\ slots'[1] \in Past /\ filter' \in Known
        /\ \A k \in {"control", "feedback"} : hand'[k] # None => hand'[k].prog \in Known
        /\ Carries(ctl', Known) /\ Carries(queue', Known)
    BY <2>1, InFlightNext
  <2>3. Carries(ctl', Known') /\ Carries(queue', Known')
    BY <1>2, <2>2 DEF Carries
  <2> QED
    BY <1>2, <2>2, <2>3 DEF InFlight
<1>4. OldInv'
  <2> SUFFICES ASSUME OldServer PROVE InFlight({Zero}, {None})'
    BY <1>2 DEF OldInv
  <2>1. InFlight({Zero}, {None}) /\ ~conf.cum /\ conf.dir # "download"
    BY DEF OldInv, OldServer
  <2> QED
    BY <2>1, InFlightNext DEF InFlight
<1>5. hand'["feedback"] # None => hand'["feedback"].lost = 0
  <2>1. hand["feedback"] # None => hand["feedback"].lost = 0
    BY DEF KnownInv
  <2>2. hand \in [{"control", "feedback"} -> Updates \cup {None}]
    BY <1>1 DEF ChannelInv
  <2>3. hand'["feedback"] \in {hand["feedback"], None, Update(FALSE, 0, 0, 0, Total(slots), None)}
    BY <2>2, ChannelSteps DEF ChannelQuiet, Produces, Consumes, on_progress, PrintLoop, store_udp_feedback,
       SendInterval, FeedbackTick, FeedbackSend, ReadInterval, LocalReport, LocalDirection,
       send_progress_until_cancelled
  <2>4. Update(FALSE, 0, 0, 0, Total(slots), None).lost = 0
    BY DEF Update
  <2> QED
    BY <2>1, <2>3, <2>4
<1>6. Heard' \in Past' /\ (conf'.dir = "download" => Heard' = Zero)
  <2>1. CASE SendInterval
    <3>1. Counts("up") /\ server'.got = Total(rx["up"]).got /\ server'.lost = Total(rx["up"]).lost
      BY <2>1 DEF SendInterval
    <3>2. conf.dir # "download" /\ Current = Total(rx["up"]) /\ Current \in Readings
      BY <3>1, SingleFacts DEF Counts, LossDir, Current
    <3>3. Heard' = Current
      BY <3>1, <3>2 DEF Heard, Readings
    <3> QED
      BY <1>2, <3>2, <3>3
  <2>2. CASE UNCHANGED server
    <3>1. Heard' = Heard /\ Heard \in Past /\ (conf.dir = "download" => Heard = Zero)
      BY <2>2 DEF Heard, KnownInv
    <3> QED
      BY <1>2, <3>1
  <2>3. SendInterval \/ UNCHANGED server
    BY SourceSteps DEF SourceQuiet, Reports, Receive, ReadInterval, LocalReport, LocalDirection
  <2> QED
    BY <2>1, <2>2, <2>3
<1>7. tui'.latest \in Known /\ tui'.prev \in Known /\ out'.latest \in Known
  <2>1. tui.latest \in Known /\ tui.prev \in Known /\ out.latest \in Known /\ Carries(queue, Known)
    BY DEF KnownInv, InFlight
  <2>2. /\ tui \in Apps /\ tui.latest \in Optional /\ out \in Printers /\ out.latest \in Optional
        /\ queue \in Seq(Updates)
    BY <1>1 DEF ScreenInv, Apps, Printers, ChannelInv
  <2>3. CASE tick
    <3>1. tui'.latest = tui.latest /\ NewBar(tui', tui) /\ out' = out
      BY <1>1, <2>3, TickFacts DEF tick
    <3> QED
      BY <2>1, <3>1 DEF NewBar
  <2>4. CASE on_progress
    <3>1. Shows(tui', tui, Head(queue)) /\ Head(queue) \in Updates /\ queue # <<>> /\ out' = out
      BY <1>1, <2>4, ShowsUpdate DEF on_progress
    <3>2. Head(queue).prog \in Known /\ Head(queue).prog \in Optional
      BY <2>1, <2>2, <3>1, CarriesFacts DEF Updates, Optional
    <3>3. tui'.latest \in Known
      BY <2>1, <2>2, <3>1, <3>2, CacheFacts DEF Shows
    <3>4. tui'.prev \in Known
      BY <2>1, <3>1, <3>3 DEF Shows, SameBars, NewBar
    <3> QED
      BY <2>1, <3>1, <3>3, <3>4
  <2>5. CASE PrintLoop
    <3>1. Takes(out', out, Head(queue)) /\ Head(queue) \in Updates /\ queue # <<>> /\ tui' = tui
      BY <1>1, <2>5, TakesUpdate DEF PrintLoop
    <3>2. Head(queue).prog \in Known /\ Head(queue).prog \in Optional
      BY <2>1, <2>2, <3>1, CarriesFacts DEF Updates, Optional
    <3>3. out'.latest \in Known
      BY <2>1, <2>2, <3>1, <3>2, CacheFacts DEF Takes
    <3> QED
      BY <2>1, <3>1, <3>3
  <2>6. CASE Elapse \/ on_result
    <3>1. /\ out' = out
          /\ \/ tui' = [tui EXCEPT !.age = @ + 1]
             \/ tui' = [tui EXCEPT !.bytes = result.bytes, !.lost = result.lost]
      BY <2>6 DEF Elapse, on_result
    <3>2. tui'.latest = tui.latest /\ tui'.prev = tui.prev
      BY <2>2, <3>1 DEF Apps
    <3> QED
      BY <2>1, <3>1, <3>2
  <2>7. CASE PrintSummary
    <3>1. tui' = tui /\ out' = [out EXCEPT !.bytes = result.bytes]
      BY <2>7 DEF PrintSummary
    <3>2. out'.latest = out.latest
      BY <2>2, <3>1 DEF Printers
    <3> QED
      BY <2>1, <3>1, <3>2
  <2>8. CASE JoinThenOverlay \/ ScreenQuiet
    BY <2>1, <2>8 DEF JoinThenOverlay, ScreenQuiet
  <2> QED
    BY <2>3, <2>4, <2>5, <2>6, <2>7, <2>8, ScreenSteps DEF Draws
<1> QED
  BY <1>2, <1>3, <1>4, <1>5, <1>6, <1>7 DEF KnownInv

\* A packet's reading takes the gaps it opens on top of those of the reading before it.
LEMMA RiseGrows ==
    ASSUME Shape, phase # "idle", conf.streams = 1, LossDir' = LossDir,
           NEW h, Rises(h), NEW n, Grows(n)
    PROVE  \E g : Rises(g)' /\ \A p \in Past : g[p] = h[p]
<1> DEFINE top == h[Current] + Minus(n.lost, Current.lost)
<1>1. /\ Current \in Past /\ Zero \in Past /\ h \in [Past -> Nat] /\ Past \subseteq Readings
      /\ h[Zero] = 0 /\ h[Current] = gaps[LossDir]
      /\ \A p \in Past : p.got <= Current.got
      /\ n \in Readings /\ n.got = Current.got + 1
      /\ Past' = Past \cup {n} /\ Current' = n
      /\ gaps'[LossDir] = gaps[LossDir] + Minus(n.lost, Current.lost)
  BY SingleFacts DEF Rises, Grows
<1>2. \A p \in Past \cup {n} : p.got \in Nat /\ p.lost \in Nat
  BY <1>1 DEF Readings
<1>3. n \notin Past
  BY <1>1, <1>2
<1>4. Minus(n.lost, Current.lost) \in Nat /\ n.lost <= Current.lost + Minus(n.lost, Current.lost) /\ top \in Nat
  BY <1>1, <1>2 DEF Minus
<1> HIDE DEF top
<1>5. PICK g : g = [p \in Past \cup {n} |-> IF p = n THEN top ELSE h[p]]
  OBVIOUS
<1>6. g \in [Past \cup {n} -> Nat] /\ g[n] = top /\ \A p \in Past : g[p] = h[p]
  BY <1>1, <1>3, <1>4, <1>5
<1>7. g[Zero] = 0 /\ g[n] = gaps'[LossDir]
  BY <1>1, <1>6 DEF top
<1>8. \A p \in Past \cup {n} : p.got <= n.got
  <2> TAKE p \in Past \cup {n}
  <2>1. CASE p \in Past
    BY <1>1, <1>2, <2>1
  <2>2. CASE p = n
    BY <1>2, <2>2
  <2> QED
    BY <2>1, <2>2
<1>9. ASSUME NEW p \in Past \cup {n}, NEW q \in Past \cup {n}, p.got <= q.got
      PROVE  g[p] <= g[q] /\ q.lost + g[p] <= p.lost + g[q]
  <2>1. CASE p \in Past /\ q \in Past
    <3>1. h[p] <= h[q] /\ q.lost + h[p] <= p.lost + h[q]
      BY <1>9, <2>1 DEF Rises
    <3> QED
      BY <1>6, <2>1, <3>1
  <2>2. CASE p \in Past /\ q = n
    <3>1. h[p] <= h[Current] /\ Current.lost + h[p] <= p.lost + h[Current]
      BY <1>1, <2>2 DEF Rises
    <3>2. h[p] \in Nat /\ h[Current] \in Nat /\ g[p] = h[p]
      BY <1>1, <1>6, <2>2
    <3>3. h[p] <= top /\ n.lost + h[p] <= p.lost + top
      BY <1>1, <1>2, <1>4, <2>2, <3>1, <3>2 DEF top
    <3> QED
      BY <1>6, <2>2, <3>2, <3>3
  <2>3. CASE p = n /\ q \in Past
    <3>1. q.got <= Current.got /\ q.got \in Nat /\ Current.got \in Nat
      BY <1>1, <1>2, <2>3
    <3> QED
      BY <1>1, <1>9, <2>3, <3>1
  <2>4. CASE p = n /\ q = n
    BY <1>2, <1>4, <1>6, <2>4
  <2> QED
    BY <2>1, <2>2, <2>3, <2>4
<1>10. Rises(g)'
  <2>1. Zero \in Past' /\ Current' \in Past' /\ g \in [Past' -> Nat]
    BY <1>1, <1>6
  <2>2. g[Zero] = 0 /\ g[Current'] = gaps'[LossDir'] /\ \A p \in Past' : p.got <= Current'.got
    BY <1>1, <1>7, <1>8
  <2>3. \A p, q \in Past' : p.got <= q.got => g[p] <= g[q] /\ q.lost + g[p] <= p.lost + g[q]
    BY <1>1, <1>9
  <2> QED
    BY <2>1, <2>2, <2>3 DEF Rises
<1> QED
  BY <1>6, <1>10

\* Nothing on the screen changes with it.
LEMMA BoundGrows ==
    ASSUME Shape, phase # "idle", conf.streams = 1, KnownInv, conf' = conf, LossDir' = LossDir,
           NEW h, Rises(h), TuiBound(h), OutBound(h),
           NEW n, Grows(n), NEW g, \A p \in Past : g[p] = h[p]
    PROVE  TuiBound(g)' /\ OutBound(g)'
<1>1. UNCHANGED <<server, ctl, slots, filter, hand, own, queue, tui, out, phase, result>>
      /\ Past' = Past \cup {n} /\ gaps'[LossDir] = gaps[LossDir] + Minus(n.lost, Current.lost)
  BY DEF Grows
<1>2. gaps[LossDir] \in Nat /\ gaps[LossDir] <= gaps'[LossDir] /\ gaps'[LossDir] \in Nat
  <2>1. gaps[LossDir] \in Nat /\ n.lost \in Nat /\ Current.lost \in Nat
    BY SingleFacts DEF Grows, Readings
  <2> QED
    BY <1>1, <2>1 DEF Minus
<1>3. Heard' = Heard /\ g[Heard] = h[Heard]
  BY <1>1 DEF Heard, KnownInv
<1>4. LostOf(queue)' = LostOf(queue) /\ LostOf(ctl)' = LostOf(ctl) /\ HeldLost' = HeldLost
  BY <1>1 DEF LostOf, HeldLost
<1>5. \A s : LossFlow(g, s)' <=> LossFlow(h, s)
  BY <1>3, <1>4 DEF LossFlow
<1>6. tui.prev # None => g[tui.prev] = h[tui.prev]
  BY DEF KnownInv, Known
<1>7. ScreenInv
  BY DEF Shape
<1>8. TuiBound(g)'
  <2>1. tui.prevLost \in Nat /\ tui.lost \in Nat
    BY <1>7 DEF ScreenInv, Apps
  <2>2. (phase # "done" /\ tui.latest = None => LossFlow(g, tui.lost))'
    BY <1>1, <1>5 DEF TuiBound
  <2>3. /\ tui'.drawn.lost <= (IF tui'.prev = None THEN 0 ELSE g[tui'.prev])
        /\ tui'.logged <= tui'.prevLost /\ tui'.prevLost <= gaps'[LossDir]
        /\ phase' # "done" => tui'.lost <= gaps'[LossDir]
    BY <1>1, <1>2, <1>6, <2>1 DEF TuiBound
  <2> QED
    BY <2>2, <2>3 DEF TuiBound
<1>9. OutBound(g)'
  <2>1. OldServer' = OldServer
    BY DEF OldServer
  <2>2. CASE out.latest = None
    BY <1>1, <1>5, <2>1, <2>2 DEF OutBound
  <2>3. CASE out.latest # None
    <3>1. PICK p \in Past : p.lost = out.printed /\ p.got <= out.latest.got /\ (out.guess \/ out.rows <= h[p])
      BY <2>3 DEF OutBound
    <3>2. p \in Past' /\ g[p] = h[p]
      BY <1>1, <3>1
    <3> QED
      BY <1>1, <2>3, <3>1, <3>2 DEF OutBound
  <2> QED
    BY <2>2, <2>3
<1> QED
  BY <1>8, <1>9

\* Losses on their way: an update shown carries its own, and every other step keeps the account.
LEMMA LossFlowNext ==
    ASSUME Shape, phase # "idle", conf.streams = 1, KnownInv, Next, Stays, conf' = conf,
           NEW h, Rises(h)
    PROVE  /\ ~Consumes => \A s \in Nat : LossFlow(h, s) => LossFlow(h, s)'
           /\ Consumes => \A s, r \in Nat : LossFlow(h, s) /\ r <= s + Head(queue).lost => LossFlow(h, r)'
<1> DEFINE S == LostOf(queue)
           V == LostOf(ctl)
<1>1. SourceInv /\ ChannelInv /\ ScreenInv
  BY DEF Shape
<1>2. /\ queue \in Seq(Updates) /\ ctl \in Seq(Intervals)
      /\ hand \in [{"control", "feedback"} -> Updates \cup {None}]
      /\ S \in Seq(Nat) /\ V \in Seq(Nat) /\ HeldLost \in Nat
  BY FlowTypes, SingleFacts
<1>3. Heard \in Past /\ h[Heard] \in Nat
  BY RiseFacts DEF KnownInv
<1>4. /\ server' = server => Heard' = Heard
      /\ hand'["control"] = hand["control"] => HeldLost' = HeldLost
      /\ ctl' = ctl => LostOf(ctl)' = V
      /\ queue' = queue => LostOf(queue)' = S
  BY DEF Heard, HeldLost, LostOf
<1>5. \A s \in Nat : LossFlow(h, s) <=> Flows(s, S, HeldLost, V, 0, h[Heard])
  BY DEF LossFlow
<1>6. \A s : LossFlow(h, s)' <=> Flows(s, LostOf(queue)', HeldLost', LostOf(ctl)', 0, h[Heard'])
  BY DEF LossFlow
<1> DEFINE Keeps == \A s \in Nat : LossFlow(h, s) => LossFlow(h, s)'
<1>7. \A u \in Updates : queue' = Append(queue, u) => LostOf(queue)' = Append(S, u.lost)
  <2>1. LostOf(queue)' = LostOf(queue')
    BY DEF LostOf
  <2>2. \A u \in Updates : LostOf(Append(queue, u)) = Append(S, u.lost)
    BY <1>2, Carriers, Carried
  <2> QED
    BY <2>1, <2>2
<1> HIDE DEF S, V
<1>8. ASSUME server' = server, ctl' = ctl, queue' = queue, hand'["control"] = hand["control"] PROVE Keeps
  <2>1. ASSUME NEW s \in Nat, LossFlow(h, s) PROVE LossFlow(h, s)'
    <3>1. Flows(s, S, HeldLost, V, 0, h[Heard])
      BY <1>5, <2>1
    <3> QED
      BY <1>4, <1>6, <1>8, <3>1
  <2> QED
    BY <2>1
<1>9. ASSUME ChannelQuiet, server' = server PROVE Keeps
  BY <1>8, <1>9 DEF ChannelQuiet
<1>10. ASSUME NEW s \in Streams, store_udp_feedback(s) PROVE Keeps
  BY <1>8, <1>10 DEF store_udp_feedback
<1>11. ASSUME SendInterval PROVE Keeps
  <2> DEFINE t == Total(rx["up"])
             m == [at |-> server.sent + 1, bytes |-> t.got - server.got,
                   lost |-> Minus(t.lost, server.lost), prog |-> IF conf.cum THEN t ELSE None]
  <2>1. /\ UNCHANGED <<hand, queue>> /\ ctl' = Append(ctl, m) /\ Counts("up")
        /\ server'.got = t.got /\ server'.lost = t.lost
    BY <1>11 DEF SendInterval
  <2>2. /\ t \in Readings /\ server.got \in Nat /\ server.lost \in Nat /\ server.sent \in Nat
        /\ t.got \in Nat /\ t.lost \in Nat /\ server.got <= t.got
    BY <1>1, Totals DEF SourceInv
  <2>3. t = Current
    BY <1>1, <2>1, SingleFacts DEF Counts, LossDir, Current
  <2>4. m \in Intervals /\ m.lost = Minus(t.lost, server.lost) /\ m.lost \in Nat
    <3> HIDE DEF t
    <3> QED
      BY <2>2 DEF Intervals, Optional, Minus
  <2> HIDE DEF m, t
  <2>5. LostOf(ctl)' = Append(V, m.lost)
    BY <1>2, <2>1, <2>4, Carriers, Carried DEF V
  <2>6. Heard' = t /\ t \in Past /\ Heard.got <= t.got /\ Heard.lost = server.lost
    BY <2>1, <2>2, <2>3 DEF Heard, Readings, Rises
  <2>7. h[Heard] + m.lost <= h[t] /\ h[t] \in Nat
    BY <1>3, <2>4, <2>6, RiseFacts
  <2>8. ASSUME NEW s \in Nat, LossFlow(h, s) PROVE LossFlow(h, s)'
    <3>1. Flows(s, S, HeldLost, V, 0, h[Heard])
      BY <1>5, <2>8
    <3>2. Flows(s, S, HeldLost, Append(V, m.lost), 0, h[t])
      BY <1>2, <1>3, <2>4, <2>7, <3>1, FlowFacts
    <3> QED
      BY <1>4, <1>6, <2>1, <2>5, <2>6, <3>2
  <2> QED
    BY <2>8
<1>12. ASSUME FeedbackTick PROVE Keeps
  <2>1. UNCHANGED <<ctl, queue, server>> /\ hand' = [hand EXCEPT !["feedback"] =
           Update(FALSE, 0, 0, 0, Total(slots), None)]
    BY <1>12 DEF FeedbackTick
  <2>2. hand'["control"] = hand["control"]
    BY <1>2, <2>1
  <2> QED
    BY <1>8, <2>1, <2>2
<1>13. ASSUME FeedbackSend PROVE Keeps
  <2> DEFINE u == hand["feedback"]
  <2>1. /\ UNCHANGED <<ctl, server>> /\ hand' = [hand EXCEPT !["feedback"] = None] /\ u # None
        /\ queue' = queue \/ queue' = Append(queue, u)
    BY <1>13 DEF FeedbackSend
  <2>2. u \in Updates /\ u.lost = 0 /\ hand'["control"] = hand["control"]
    BY <1>2, <2>1 DEF KnownInv
  <2> HIDE DEF u
  <2>3. LostOf(queue)' = S \/ LostOf(queue)' = Append(S, 0)
    BY <1>4, <1>7, <2>1, <2>2
  <2>4. ASSUME NEW s \in Nat, LossFlow(h, s) PROVE LossFlow(h, s)'
    <3>1. Flows(s, S, HeldLost, V, 0, h[Heard])
      BY <1>5, <2>4
    <3>2. Flows(s, Append(S, 0), HeldLost, V, 0, h[Heard])
      BY <1>2, <1>3, <3>1, FlowFacts
    <3>3. Heard' = Heard /\ HeldLost' = HeldLost /\ LostOf(ctl)' = V
      BY <1>4, <2>1, <2>2
    <3>4. CASE LostOf(queue)' = S
      BY <1>6, <3>1, <3>3, <3>4
    <3>5. CASE LostOf(queue)' = Append(S, 0)
      BY <1>6, <3>2, <3>3, <3>5
    <3> QED
      BY <2>3, <3>4, <3>5
  <2> QED
    BY <2>4
<1>14. ASSUME LocalDirection PROVE Keeps
  <2> DEFINE u == Update(FALSE, 0, 0, 0, None, udp_local_direction_progress)
  <2>1. UNCHANGED <<ctl, server, hand>> /\ (queue' = queue \/ queue' = Append(queue, u))
    BY <1>14 DEF LocalDirection
  <2>2. u \in Updates /\ u.lost = 0
    BY <1>1, OwnFacts DEF Update, Updates, Optional
  <2> HIDE DEF u
  <2>3. LostOf(queue)' = S \/ LostOf(queue)' = Append(S, 0)
    BY <1>4, <1>7, <2>1, <2>2
  <2>4. ASSUME NEW s \in Nat, LossFlow(h, s) PROVE LossFlow(h, s)'
    <3>1. Flows(s, S, HeldLost, V, 0, h[Heard])
      BY <1>5, <2>4
    <3>2. Flows(s, Append(S, 0), HeldLost, V, 0, h[Heard])
      BY <1>2, <1>3, <3>1, FlowFacts
    <3> QED
      BY <1>4, <1>6, <2>1, <2>3, <3>1, <3>2
  <2> QED
    BY <2>4
<1>15. ASSUME ReadInterval PROVE Keeps
  <2> DEFINE m == Head(ctl)
             b == m.bytes + (IF conf.dir = "bidir" THEN OwnDelta ELSE 0)
             v == IF conf.dir = "bidir" THEN udp_local_direction_progress ELSE None
             f == Fresher(filter, m.prog)
             u == Update(TRUE, m.at, b, m.lost, f, v)
  <2>1. /\ UNCHANGED <<server, queue>> /\ hand["control"] = None
        /\ ctl # <<>> /\ ctl' = Tail(ctl) /\ hand' = [hand EXCEPT !["control"] = u]
    BY <1>15 DEF ReadInterval, Idle
  <2>2. LostOf(ctl)' = Tail(V) /\ V # <<>> /\ Head(V) = m.lost
    BY <1>2, <2>1, Carriers, Carried DEF V
  <2> HIDE DEF m, b, v, f
  <2>3. HeldLost = 0 /\ (HeldLost' = Head(V) \/ HeldLost' = 0)
    <3>1. hand'["control"] = u /\ u.lost = m.lost
      BY <1>2, <2>1 DEF Update
    <3> HIDE DEF u
    <3> QED
      BY <2>1, <2>2, <3>1 DEF HeldLost
  <2>4. ASSUME NEW s \in Nat, LossFlow(h, s) PROVE LossFlow(h, s)'
    <3>1. Flows(s, S, HeldLost, V, 0, h[Heard])
      BY <1>5, <2>4
    <3>2. Flows(s, S, Head(V) + 0, Tail(V), 0 + 0, h[Heard])
      BY <1>2, <1>3, <2>2, <2>3, <3>1, FlowFacts
    <3>3. Head(V) \in Nat /\ Tail(V) \in Seq(Nat)
      BY <1>2, <2>2
    <3>4. Flows(s, S, Head(V), Tail(V), 0, h[Heard])
      BY <3>2, <3>3
    <3>5. Flows(s, S, 0, Tail(V), 0, h[Heard])
      BY <1>2, <1>3, <3>3, <3>4, FlowFacts
    <3> QED
      BY <1>4, <1>6, <2>1, <2>2, <2>3, <3>4, <3>5
  <2> QED
    BY <2>4
<1>16. ASSUME LocalReport PROVE Keeps
  <2> DEFINE u == Update(TRUE, own.sent + 1, OwnDelta, 0, Fresher(filter, Total(rx["down"])), None)
  <2>1. UNCHANGED <<server, queue, ctl>> /\ hand["control"] = None /\ hand' = [hand EXCEPT !["control"] = u]
    BY <1>16 DEF LocalReport, Idle
  <2>2. HeldLost = 0 /\ HeldLost' = 0
    <3>1. hand'["control"] = u /\ u.lost = 0
      BY <1>2, <2>1 DEF Update
    <3> HIDE DEF u
    <3> QED
      BY <2>1, <3>1 DEF HeldLost
  <2>3. ASSUME NEW s \in Nat, LossFlow(h, s) PROVE LossFlow(h, s)'
    <3>1. Flows(s, S, HeldLost, V, 0, h[Heard])
      BY <1>5, <2>3
    <3> QED
      BY <1>4, <1>6, <2>1, <2>2, <3>1
  <2> QED
    BY <2>3
<1>17. ASSUME send_progress_until_cancelled PROVE Keeps
  <2> DEFINE u == hand["control"]
  <2>1. /\ UNCHANGED <<server, ctl>> /\ hand' = [hand EXCEPT !["control"] = None] /\ u # None
        /\ queue' = queue \/ queue' = Append(queue, u)
    BY <1>17 DEF send_progress_until_cancelled
  <2>2. u \in Updates /\ HeldLost = u.lost /\ hand'["control"] = None
    BY <1>2, <2>1 DEF HeldLost
  <2> HIDE DEF u
  <2>3. HeldLost' = 0
    BY <2>2 DEF HeldLost
  <2>4. LostOf(queue)' = S \/ LostOf(queue)' = Append(S, HeldLost)
    BY <1>4, <1>7, <2>1, <2>2
  <2>5. ASSUME NEW s \in Nat, LossFlow(h, s) PROVE LossFlow(h, s)'
    <3>1. Flows(s, S, HeldLost, V, 0, h[Heard])
      BY <1>5, <2>5
    <3>2. /\ Flows(s, Append(S, HeldLost), 0, V, 0, h[Heard])
          /\ Flows(s, S, 0, V, 0, h[Heard])
      BY <1>2, <1>3, <3>1, FlowFacts
    <3> QED
      BY <1>4, <1>6, <2>1, <2>3, <2>4, <3>2
  <2> QED
    BY <2>5
<1>18. ASSUME Consumes, NEW s \in Nat, NEW r \in Nat, LossFlow(h, s), r <= s + Head(queue).lost
       PROVE  LossFlow(h, r)'
  <2>1. UNCHANGED <<server, ctl, hand>> /\ queue # <<>> /\ queue' = Tail(queue)
    BY <1>18 DEF Consumes, on_progress, PrintLoop
  <2>2. LostOf(queue)' = Tail(S) /\ S # <<>> /\ Head(S) = Head(queue).lost
    BY <1>2, <2>1, Carriers, Carried DEF S
  <2>3. Flows(s, S, HeldLost, V, 0, h[Heard])
    BY <1>5, <1>18
  <2>4. Flows(r, Tail(S), HeldLost, V, 0, h[Heard])
    BY <1>2, <1>3, <1>18, <2>2, <2>3, FlowShow
  <2> QED
    BY <1>4, <1>6, <2>1, <2>2, <2>4
<1>19. ChannelQuiet => SendInterval \/ server' = server
  BY SourceSteps DEF SourceQuiet, Reports, Receive, ReadInterval, LocalReport, LocalDirection
<1>20. ~Consumes => Keeps
  BY <1>9, <1>8, <1>10, <1>11, <1>12, <1>13, <1>14, <1>15, <1>16, <1>17, <1>19, ChannelSteps
     DEF Produces, ChannelQuiet
<1> QED
  BY <1>18, <1>20

\* A bar shows the losses between two past readings, and events those up to the highest count.
LEMMA BarBound ==
    ASSUME Shape, phase # "idle", conf.streams = 1, NEW h, Rises(h), NEW a \in Apps, NEW b \in Apps,
           Tiled(a), Fresh(b, a), SameBars(b, a) \/ NewBar(b, a), a.prev \in Known, b.latest \in Known,
           a.drawn.lost <= (IF a.prev = None THEN 0 ELSE h[a.prev])
    PROVE  b.drawn.lost <= (IF b.prev = None THEN 0 ELSE h[b.prev])
<1>1. CASE SameBars(b, a)
  BY <1>1 DEF SameBars
<1>2. CASE NewBar(b, a)
  <2> DEFINE w == Window(b.latest, a.prev)
  <2>1. /\ b.prev = IF b.latest = None THEN a.prev ELSE b.latest
        /\ b.drawn.lost = a.drawn.lost + w.lost
    <3>1. b.drawn = [packets |-> a.drawn.packets + w.packets, lost |-> a.drawn.lost + w.lost]
      BY <1>2 DEF NewBar
    <3> QED
      BY <1>2, <3>1 DEF NewBar
  <2>2. a.prev \in Optional /\ b.latest \in Optional /\ w \in Bars /\ a.drawn.lost \in Nat
    <3>1. a.prev \in Optional /\ b.latest \in Optional /\ a.drawn \in Bars
      BY DEF Apps
    <3> QED
      BY <3>1, WindowFacts DEF Bars
  <2>3. CASE b.latest = None \/ a.prev = None
    <3>1. w = [packets |-> 0, lost |-> 0]
      BY <2>2, <2>3, WindowFacts
    <3>2. w.lost = 0
      BY <3>1
    <3>3. b.latest # None => h[b.latest] \in Nat
      BY RiseFacts DEF Known
    <3>4. b.drawn.lost = a.drawn.lost
      BY <2>1, <2>2, <3>2
    <3> HIDE DEF w
    <3>5. CASE b.latest = None
      BY <2>1, <3>4, <3>5
    <3>6. CASE b.latest # None
      <4>1. a.prev = None /\ b.prev = b.latest /\ b.prev # None
        BY <2>1, <2>3, <3>6
      <4>2. a.drawn.lost = 0
        BY <2>2, <4>1
      <4> QED
        BY <3>3, <3>4, <3>6, <4>1, <4>2
    <3> QED
      BY <3>5, <3>6
  <2>4. CASE b.latest # None /\ a.prev # None
    <3>1. a.latest # None /\ is_at_least_as_fresh_as(a.latest, a.prev)
          /\ b.latest # None /\ is_at_least_as_fresh_as(b.latest, a.latest)
      BY <2>4 DEF Tiled, Fresh
    <3>2. a.latest \in Readings /\ a.prev \in Readings /\ b.latest \in Readings
      BY <2>2, <2>4, <3>1 DEF Apps, Optional
    <3>3. is_at_least_as_fresh_as(b.latest, a.prev)
      BY <3>1, <3>2, FreshFacts
    <3>4. w.lost = Minus(b.latest.lost, a.prev.lost) /\ a.prev.got <= b.latest.got
      <4>1. a.prev.got <= b.latest.got
        BY <3>2, <3>3, FreshFacts DEF Readings
      <4> QED
        BY <2>2, <2>4, <3>3, <4>1, WindowFacts
    <3>5. a.prev \in Past /\ b.latest \in Past
      BY <2>4 DEF Known
    <3>6. h[a.prev] + w.lost <= h[b.latest] /\ h[a.prev] \in Nat /\ h[b.latest] \in Nat /\ w.lost \in Nat
      <4>1. w.lost \in Nat
        BY <2>2 DEF Bars
      <4> HIDE DEF w
      <4> QED
        BY <3>4, <3>5, <4>1, RiseFacts
    <3>7. b.prev = b.latest /\ b.prev # None /\ a.drawn.lost <= h[a.prev]
      BY <2>1, <2>4
    <3> HIDE DEF w
    <3> QED
      BY <2>1, <2>2, <3>6, <3>7
  <2> QED
    BY <2>3, <2>4
<1> QED
  BY <1>1, <1>2

LEMMA LogBound == \A a, b \in Apps, m \in Nat :
    Logs(b, a) /\ a.logged <= a.prevLost /\ a.prevLost <= m /\ b.lost <= m =>
        b.logged <= b.prevLost /\ b.prevLost <= m
<1> TAKE a, b \in Apps, m \in Nat
<1>1. {a.logged, a.prevLost, a.lost, b.logged, b.prevLost, b.lost} \subseteq Nat
  BY DEF Apps
<1> QED
  BY <1>1 DEF Logs


\* A run keeps its kind, and a result stays on the screen.
LEMMA DoneStays ==
    phase # "idle" /\ Next => conf' = conf /\ phase' # "idle" /\ (phase = "done" => phase' = "done")
<1>1. ASSUME NEW s \in Streams, (\E d \in Dirs : Receive(d, s)) \/ store_udp_feedback(s)
      PROVE  conf' = conf /\ phase' = phase
  BY <1>1 DEF Receive, store_udp_feedback
<1>2. SendInterval \/ FeedbackTick \/ FeedbackSend \/ ReadInterval \/ LocalReport \/ LocalDirection
          => conf' = conf /\ phase' = phase
  BY DEF SendInterval, FeedbackTick, FeedbackSend, ReadInterval, LocalReport, LocalDirection
<1>3. send_progress_until_cancelled \/ tick \/ Elapse \/ on_progress \/ PrintLoop
          => conf' = conf /\ phase' = phase
  BY DEF send_progress_until_cancelled, tick, Elapse, on_progress, PrintLoop
<1>4. UserCancel \/ ReadResult \/ JoinThenOverlay \/ on_result \/ PrintSummary
          => conf' = conf /\ phase # "done" /\ phase' # "idle"
  BY DEF UserCancel, ReadResult, Idle, Live, JoinThenOverlay, on_result, PrintSummary
<1> QED
  BY <1>1, <1>2, <1>3, <1>4 DEF Next

\* The account after a step.
LossFlowed(h, s) == Flows(s, LostOf(queue)', HeldLost', LostOf(ctl)', 0, h[Heard'])

\* A step that opens no gap keeps the account of both displays.
LEMMA KeepsAccount ==
    ASSUME Shape, phase # "idle", conf.streams = 1, KnownInv, OldInv, Next, Stays, conf' = conf,
           LossDir' = LossDir, NEW h, Rises(h)
    PROVE  /\ \A s \in Nat : LossFlow(h, s) => LossFlowed(h, s)
           /\ Consumes => \A s, r \in Nat : LossFlow(h, s) /\ r <= s + Head(queue).lost => LossFlowed(h, r)
           /\ \A s \in Nat : LossFlowed(h, s) => s <= h[Heard'] /\ s <= gaps[LossDir]
           /\ Heard' \in Past /\ (conf.dir = "download" => Heard' = Zero)
           /\ tui.latest \in Known /\ tui.prev \in Known /\ tui'.latest \in Known
           /\ out.latest \in Known /\ out'.latest \in Known
<1>1. KnownInv'
  BY KnownNext DEF Rises
<1>2. Known' = Known
  BY DEF Stays, Known
<1>3. Heard' \in Past /\ (conf.dir = "download" => Heard' = Zero)
  <2>1. (Heard \in Past)' /\ (conf.dir = "download" => Heard = Zero)'
    BY <1>1 DEF KnownInv
  <2>2. Zero' = Zero
    BY DEF Zero
  <2> QED
    BY <2>1, <2>2 DEF Stays
<1>4. tui'.latest \in Known /\ out'.latest \in Known
  BY <1>1, <1>2 DEF KnownInv
<1>5. \A s : LossFlow(h, s)' <=> LossFlowed(h, s)
  BY DEF LossFlow, LossFlowed
<1>6. /\ ~Consumes => \A s \in Nat : LossFlow(h, s) => LossFlowed(h, s)
      /\ Consumes => \A s, r \in Nat : LossFlow(h, s) /\ r <= s + Head(queue).lost => LossFlowed(h, r)
  BY <1>5, LossFlowNext
<1>7. \A s \in Nat : LossFlow(h, s) => LossFlowed(h, s)
  <2>1. CASE ~Consumes
    BY <1>6, <2>1
  <2>2. CASE Consumes
    <3>1. queue # <<>>
      BY <2>2 DEF Consumes, on_progress, PrintLoop
    <3>2. Head(queue).lost \in Nat
      BY <3>1, FlowTypes, Carriers DEF Carrier
    <3>3. TAKE s \in Nat
    <3>4. s <= s + Head(queue).lost
      BY <3>2
    <3> QED
      BY <1>6, <2>2, <3>4
  <2> QED
    BY <2>1, <2>2
<1>8. ASSUME NEW s \in Nat, LossFlowed(h, s) PROVE s <= h[Heard'] /\ s <= gaps[LossDir]
  <2>1. Shape' /\ phase' # "idle" /\ conf'.streams = 1
    <3>1. Shape'
      BY ShapeStep DEF DisplayNext
    <3>2. phase' # "idle"
      BY DoneStays
    <3> QED
      BY <3>1, <3>2
  <2>2. /\ (LostOf(queue) \in Seq(Nat))' /\ (LostOf(ctl) \in Seq(Nat))'
        /\ (HeldLost \in Nat)'
    <3>1. ChannelInv'
      BY <2>1 DEF Shape
    <3>2. queue' \in Seq(Updates) /\ ctl' \in Seq(Intervals) /\ hand'["control"] \in Updates \cup {None}
      BY <3>1 DEF ChannelInv
    <3>3. LostOf(queue)' = LostOf(queue') /\ LostOf(ctl)' = LostOf(ctl')
      BY DEF LostOf
    <3>4. LostOf(queue') \in Seq(Nat) /\ LostOf(ctl') \in Seq(Nat)
      BY <3>2, Carriers, Carried
    <3>5. (HeldLost \in Nat)'
      BY <3>2 DEF HeldLost, Updates
    <3> QED
      BY <3>3, <3>4, <3>5
  <2>3. Flows(s, LostOf(queue)', HeldLost', LostOf(ctl)', 0, h[Heard'])
    BY <1>8 DEF LossFlowed
  <2>4. h[Heard'] \in Nat /\ h[Heard'] <= gaps[LossDir] /\ gaps[LossDir] \in Nat
    BY <1>3, RiseFacts, SingleFacts
  <2>5. s <= h[Heard'] + 0
    <3>1. 0 \in Nat
      OBVIOUS
    <3> QED
      BY <2>2, <2>3, <2>4, <3>1, FlowFacts
  <2> QED
    BY <2>4, <2>5
<1> QED
  BY <1>3, <1>4, <1>7, <1>8, <1>6 DEF KnownInv


\* Bars, log lines and counts of the interface after a step that opens no gap.
LEMMA TuiBoundNext ==
    ASSUME Shape, BarInv, phase # "idle", conf.streams = 1, KnownInv, OldInv, Next, Stays,
           conf' = conf, LossDir' = LossDir, NEW h, Rises(h), TuiBound(h)
    PROVE  TuiBound(h)'
<1> DEFINE top == gaps[LossDir]
<1>1. /\ \A s \in Nat : LossFlow(h, s) => LossFlowed(h, s)
      /\ Consumes => \A s, r \in Nat : LossFlow(h, s) /\ r <= s + Head(queue).lost => LossFlowed(h, r)
      /\ \A s \in Nat : LossFlowed(h, s) => s <= top
      /\ tui.latest \in Known /\ tui.prev \in Known /\ tui'.latest \in Known
  BY KeepsAccount
<1>2. SourceInv /\ ChannelInv /\ ScreenInv /\ top \in Nat /\ gaps'[LossDir'] = top
  BY SingleFacts DEF Shape, Stays
<1>3. tui \in Apps /\ tui' \in Apps /\ Fresh(tui', tui) /\ (SameBars(tui', tui) \/ NewBar(tui', tui))
  BY TuiSteps
<1>4. {tui.lost, tui.prevLost, tui.logged, tui'.lost, tui'.prevLost, tui'.logged} \subseteq Nat
  BY <1>3 DEF Apps
<1>5. tui'.drawn.lost <= (IF tui'.prev = None THEN 0 ELSE h[tui'.prev])
  <2>1. Tiled(tui) /\ tui.drawn.lost <= (IF tui.prev = None THEN 0 ELSE h[tui.prev])
    BY DEF BarInv, TuiBound
  <2> QED
    BY <1>1, <1>3, <2>1, BarBound
<1>6. tui.logged <= tui.prevLost /\ tui.prevLost <= top
      /\ (phase # "done" => tui.lost <= top)
      /\ (phase # "done" /\ tui.latest = None => LossFlow(h, tui.lost))
  BY DEF TuiBound
<1> HIDE DEF top
<1>7. SUFFICES /\ tui'.logged <= tui'.prevLost /\ tui'.prevLost <= top
               /\ phase' # "done" => tui'.lost <= top
               /\ phase' # "done" /\ tui'.latest = None => LossFlowed(h, tui'.lost)
  <2>1. LossFlow(h, tui.lost)' <=> LossFlowed(h, tui'.lost)
    BY DEF LossFlow, LossFlowed
  <2> QED
    BY <1>2, <1>5, <1>7, <2>1 DEF TuiBound
<1>8. ASSUME tui'.latest = tui.latest, tui'.lost = tui.lost, tui'.prevLost = tui.prevLost,
             tui'.logged = tui.logged, phase' # "done" => phase # "done"
      PROVE  /\ tui'.logged <= tui'.prevLost /\ tui'.prevLost <= top
             /\ phase' # "done" => tui'.lost <= top
             /\ phase' # "done" /\ tui'.latest = None => LossFlowed(h, tui'.lost)
  <2>1. ASSUME phase' # "done", tui'.latest = None PROVE LossFlowed(h, tui'.lost)
    BY <1>1, <1>4, <1>6, <1>8, <2>1
  <2> QED
    BY <1>6, <1>8, <2>1
<1>9. CASE on_progress
  <2> DEFINE u == Head(queue)
  <2>1. u \in Updates /\ queue # <<>> /\ Shows(tui', tui, u) /\ phase # "done" /\ phase' = phase
    BY <1>2, <1>9, ShowsUpdate DEF on_progress
  <2>2. u.lost \in Nat /\ u.prog \in Optional /\ tui.latest \in Optional
    BY <1>3, <2>1 DEF Updates, Optional, Apps
  <2>3. /\ tui'.latest = Latest(tui.latest, u.prog)
        /\ IF tui'.latest = None THEN tui'.lost <= tui.lost + u.lost
                                 ELSE tui'.lost \in {tui.lost, tui'.latest.lost}
        /\ Logs(tui', tui)
    BY <2>1 DEF Shows
  <2>4. ASSUME tui'.latest = None PROVE LossFlowed(h, tui'.lost) /\ tui'.lost <= top
    <3>1. tui.latest = None
      BY <2>2, <2>3, <2>4, CacheFacts
    <3>2. LossFlow(h, tui.lost)
      BY <1>6, <2>1, <3>1
    <3>3. LossFlowed(h, tui'.lost)
      BY <1>1, <1>4, <1>9, <2>3, <2>4, <3>2 DEF Consumes
    <3> QED
      BY <1>1, <1>4, <3>3
  <2>5. tui'.lost <= top
    <3>1. CASE tui'.latest = None
      BY <2>4, <3>1
    <3>2. CASE tui'.latest # None
      <4>1. tui'.latest \in Past
        BY <1>1, <3>2 DEF Known
      <4>2. tui'.latest.lost <= top
        BY <1>2, <4>1, RiseFacts DEF top
      <4> QED
        BY <1>6, <2>1, <2>3, <3>2, <4>2
    <3> QED
      BY <3>1, <3>2
  <2>6. tui'.logged <= tui'.prevLost /\ tui'.prevLost <= top
    BY <1>2, <1>3, <1>6, <2>3, <2>5, LogBound
  <2> QED
    BY <2>4, <2>5, <2>6
<1>10. CASE tick
  <2>1. tui'.latest = tui.latest /\ Rest(tui', tui) /\ phase' = phase
    BY <1>2, <1>10, TickFacts DEF tick
  <2> QED
    BY <1>8, <2>1 DEF Rest
<1>11. CASE Elapse
  <2>1. tui' = [tui EXCEPT !.age = @ + 1] /\ phase' = phase
    BY <1>11 DEF Elapse
  <2>2. /\ tui'.latest = tui.latest /\ tui'.lost = tui.lost /\ tui'.prevLost = tui.prevLost
        /\ tui'.logged = tui.logged
    BY <1>3, <2>1 DEF Apps
  <2> QED
    BY <1>8, <2>1, <2>2
<1>12. CASE on_result
  <2>1. tui' = [tui EXCEPT !.bytes = result.bytes, !.lost = result.lost] /\ phase' = "done"
    BY <1>12 DEF on_result
  <2>2. tui'.prevLost = tui.prevLost /\ tui'.logged = tui.logged
    BY <1>3, <2>1 DEF Apps
  <2> QED
    BY <1>6, <2>1, <2>2
<1>13. ASSUME UNCHANGED tui, phase' # "done" => phase # "done"
       PROVE  /\ tui'.logged <= tui'.prevLost /\ tui'.prevLost <= top
              /\ phase' # "done" => tui'.lost <= top
              /\ phase' # "done" /\ tui'.latest = None => LossFlowed(h, tui'.lost)
  BY <1>8, <1>13
<1>14. JoinThenOverlay \/ PrintLoop \/ PrintSummary \/ ScreenQuiet => UNCHANGED tui
  BY DEF JoinThenOverlay, PrintLoop, PrintSummary, ScreenQuiet
<1>15. phase' # "done" => phase # "done"
  BY DoneStays, ShapeStep DEF Shape, DisplayNext
<1> QED
  BY <1>9, <1>10, <1>11, <1>12, <1>13, <1>14, <1>15, ScreenSteps DEF Draws


\* Rows of the printer after such a step.
LEMMA OutBoundNext ==
    ASSUME Shape, phase # "idle", conf.streams = 1, KnownInv, OldInv, Next, Stays,
           conf' = conf, LossDir' = LossDir, NEW h, Rises(h), OutBound(h)
    PROVE  OutBound(h)'
<1> DEFINE Guessed(o) == o.guess \/ o.rows = 0 \/ OldServer
           Row(o) == \E p \in Past : /\ p.lost = o.printed /\ p.got <= o.latest.got
                                     /\ o.guess \/ o.rows <= h[p]
<1>1. /\ \A s \in Nat : LossFlow(h, s) => LossFlowed(h, s)
      /\ Consumes => \A s, r \in Nat : LossFlow(h, s) /\ r <= s + Head(queue).lost => LossFlowed(h, r)
      /\ \A s \in Nat : LossFlowed(h, s) => s <= h[Heard']
      /\ conf.dir = "download" => Heard' = Zero
      /\ out.latest \in Known /\ out'.latest \in Known
  BY KeepsAccount
<1>2. SourceInv /\ ChannelInv /\ ScreenInv /\ out \in Printers /\ out' \in Printers
  BY ScreenStep DEF Shape, ScreenInv
<1>3. {out.rows, out.printed, out'.rows, out'.printed} \subseteq Nat /\ {out.guess, out'.guess} \subseteq BOOLEAN
  BY <1>2 DEF Printers
<1>4. /\ out.latest = None => out.printed = 0 /\ LossFlow(h, out.rows) /\ Guessed(out)
      /\ out.latest # None => Row(out)
  BY DEF OutBound
<1>5. SUFFICES /\ out'.latest = None => out'.printed = 0 /\ LossFlowed(h, out'.rows) /\ Guessed(out')
               /\ out'.latest # None => Row(out')
  <2>1. (LossFlow(h, out.rows)' <=> LossFlowed(h, out'.rows)) /\ (OldServer' <=> OldServer)
    BY DEF LossFlow, LossFlowed, OldServer
  <2> QED
    BY <1>5, <2>1 DEF OutBound, Stays
<1>6. CASE PrintLoop
  <2> DEFINE u == Head(queue)
  <2>1. u \in Updates /\ queue # <<>> /\ Takes(out', out, u) /\ Consumes
    BY <1>2, <1>6, TakesUpdate DEF Consumes
  <2>2. u.lost \in Nat /\ u.prog \in Optional /\ out.latest \in Optional
    BY <1>2, <2>1 DEF Updates, Optional, Printers
  <2>3. out'.latest = Latest(out.latest, u.prog) /\ Prints(out', out, u)
    BY <2>1 DEF Takes
  <2>4. CASE out'.latest = None
    <3>1. out.latest = None /\ out.printed = 0 /\ LossFlow(h, out.rows) /\ Guessed(out)
      BY <1>4, <2>2, <2>3, <2>4, CacheFacts
    <3>2. /\ out'.printed = out.printed
          /\ \/ out'.rows = out.rows /\ out'.guess = out.guess
             \/ out'.rows = out.rows + u.lost /\ out'.guess = (out.guess \/ conf.cum)
      BY <2>3, <2>4 DEF Prints
    <3>3. LossFlowed(h, out'.rows)
      <4>1. out'.rows <= out.rows + u.lost
        BY <1>3, <2>2, <3>2
      <4> QED
        BY <1>1, <1>3, <2>1, <3>1, <4>1
    <3>4. Guessed(out')
      <4>1. CASE out'.rows = out.rows /\ out'.guess = out.guess
        BY <3>1, <4>1
      <4>2. CASE out'.guess = (out.guess \/ conf.cum) /\ conf.dir # "download"
        BY <4>2 DEF OldServer
      <4>3. CASE conf.dir = "download"
        <5>1. h[Heard'] = 0
          BY <1>1, <4>3 DEF Rises
        <5>2. out'.rows <= h[Heard']
          BY <1>1, <1>3, <3>3
        <5> QED
          BY <1>3, <5>1, <5>2
      <4> QED
        BY <3>2, <4>1, <4>2, <4>3
    <3> QED
      BY <2>4, <3>1, <3>2, <3>3, <3>4
  <2>5. CASE out'.latest # None
    <3> DEFINE l == out'.latest
    <3>1. l \in Past /\ l.got \in Nat /\ l.lost \in Nat /\ h[l] \in Nat /\ l.lost <= h[l]
      BY <1>1, <2>5, RiseFacts DEF Known
    <3>2. CASE out.latest = None
      <4>1. out.printed = 0 /\ Guessed(out)
        BY <1>4, <3>2
      <4>2. ~OldServer
        <5>1. u.prog # None
          BY <2>2, <2>3, <2>5, <3>2, CacheFacts
        <5>2. OldServer => u.prog = None
          <6>1. OldServer => Carries(queue, {None})
            BY DEF OldInv, InFlight
          <6>2. queue \in Seq(Updates) /\ 1 \in 1 .. Len(queue) /\ u = queue[1]
            BY <1>2, <2>1 DEF ChannelInv
          <6> QED
            BY <6>1, <6>2 DEF Carries
        <5> QED
          BY <5>1, <5>2
      <4>3. out.guess \/ out.rows = 0
        BY <4>1, <4>2
      <4>4. Zero \in Past /\ Zero.got = 0 /\ Zero.lost = 0 /\ h[Zero] = 0
        BY DEF Rises, Zero
      <4>5. CASE out'.rows = out.rows /\ out'.guess = out.guess /\ out'.printed = out.printed
        <5>1. Zero.lost = out'.printed /\ Zero.got <= l.got /\ (out'.guess \/ out'.rows <= h[Zero])
          BY <1>3, <3>1, <4>1, <4>3, <4>4, <4>5
        <5> QED
          BY <2>5, <4>4, <5>1
      <4>6. CASE out'.rows = out.rows /\ out'.guess = out.guess /\ out'.printed = l.lost
        <5>1. l.lost = out'.printed /\ l.got <= l.got /\ (out'.guess \/ out'.rows <= h[l])
          BY <1>3, <3>1, <4>3, <4>6
        <5> QED
          BY <2>5, <3>1, <5>1
      <4>7. CASE out'.rows = out.rows + Minus(l.lost, out.printed) /\ out'.guess = out.guess
                 /\ out'.printed = l.lost
        <5>1. Minus(l.lost, out.printed) = l.lost
          BY <3>1, <4>1 DEF Minus
        <5>2. l.lost = out'.printed /\ l.got <= l.got /\ (out'.guess \/ out'.rows <= h[l])
          BY <1>3, <3>1, <4>3, <4>7, <5>1
        <5> QED
          BY <2>5, <3>1, <5>2
      <4> QED
        BY <2>3, <2>5, <4>5, <4>6, <4>7 DEF Prints
    <3>3. CASE out.latest # None
      <4>1. PICK p \in Past : /\ p.lost = out.printed /\ p.got <= out.latest.got
                              /\ out.guess \/ out.rows <= h[p]
        BY <1>4, <3>3
      <4>2. p.got <= l.got /\ p.got \in Nat /\ h[p] \in Nat
        <5>1. is_at_least_as_fresh_as(l, out.latest)
          BY <2>2, <2>3, <3>3, CacheFacts
        <5>2. l \in Readings /\ out.latest \in Readings /\ p \in Readings
          BY <1>1, <3>1, <3>3, <4>1, SingleFacts DEF Known
        <5>3. out.latest.got <= l.got
          BY <5>1, <5>2, FreshFacts DEF Readings
        <5>4. p.got \in Nat /\ out.latest.got \in Nat /\ h[p] \in Nat
          BY <4>1, <5>2, RiseFacts DEF Readings
        <5> QED
          BY <3>1, <4>1, <5>3, <5>4
      <4>3. h[p] <= h[l] /\ h[p] + Minus(l.lost, p.lost) <= h[l]
        BY <3>1, <4>1, <4>2, RiseFacts
      <4>4. CASE out'.rows = out.rows /\ out'.guess = out.guess /\ out'.printed = out.printed
        BY <2>5, <4>1, <4>2, <4>4
      <4>5. CASE out'.rows = out.rows /\ out'.guess = out.guess /\ out'.printed = l.lost
        <5>1. l.lost = out'.printed /\ l.got <= l.got /\ (out'.guess \/ out'.rows <= h[l])
          BY <1>3, <3>1, <4>1, <4>2, <4>3, <4>5
        <5> QED
          BY <2>5, <3>1, <5>1
      <4>6. CASE out'.rows = out.rows + Minus(l.lost, out.printed) /\ out'.guess = out.guess
                 /\ out'.printed = l.lost
        <5>1. Minus(l.lost, out.printed) = Minus(l.lost, p.lost) /\ Minus(l.lost, p.lost) \in Nat
          <6>1. p.lost \in Nat
            BY <4>1, RiseFacts
          <6> QED
            BY <3>1, <4>1, <6>1 DEF Minus
        <5>2. l.lost = out'.printed /\ l.got <= l.got /\ (out'.guess \/ out'.rows <= h[l])
          BY <1>3, <3>1, <4>1, <4>2, <4>3, <4>6, <5>1
        <5> QED
          BY <2>5, <3>1, <5>2
      <4> QED
        BY <2>3, <2>5, <4>4, <4>5, <4>6 DEF Prints
    <3> QED
      BY <3>2, <3>3
  <2> QED
    BY <2>4, <2>5
<1>7. ASSUME out'.latest = out.latest, out'.rows = out.rows, out'.printed = out.printed,
             out'.guess = out.guess
      PROVE  /\ out'.latest = None => out'.printed = 0 /\ LossFlowed(h, out'.rows) /\ Guessed(out')
             /\ out'.latest # None => Row(out')
  <2>1. out.latest = None => LossFlowed(h, out'.rows)
    BY <1>1, <1>3, <1>4, <1>7
  <2> QED
    BY <1>4, <1>7, <2>1
<1>8. CASE PrintSummary
  <2>1. out' = [out EXCEPT !.bytes = result.bytes]
    BY <1>8 DEF PrintSummary
  <2>2. out'.latest = out.latest /\ out'.rows = out.rows /\ out'.printed = out.printed
        /\ out'.guess = out.guess
    BY <1>2, <2>1 DEF Printers
  <2> QED
    BY <1>7, <2>2
<1>9. CASE UNCHANGED out
  BY <1>7, <1>9
<1>10. JoinThenOverlay \/ tick \/ Elapse \/ on_progress \/ on_result \/ ScreenQuiet => UNCHANGED out
  BY DEF JoinThenOverlay, tick, Elapse, on_progress, on_result, ScreenQuiet
<1> QED
  BY <1>6, <1>8, <1>9, <1>10, ScreenSteps DEF Draws


\* A run begins with the one reading Zero and no gaps.
LEMMA LossBegin == \A c \in Confs : Begin(c) => LossInv'
<1> SUFFICES ASSUME NEW c \in Confs, Begin(c), conf'.streams = 1
             PROVE  KnownInv' /\ OldInv' /\ \E h : (Rises(h) /\ TuiBound(h) /\ OutBound(h))'
  BY DEF LossInv
<1>1. /\ conf' = c /\ c.streams = 1
      /\ rx' = [d \in Dirs |-> [s \in 1 .. c.streams |-> Zero]]
      /\ was' = [d \in Dirs |-> [s \in 1 .. c.streams |-> {Zero}]]
      /\ gaps' = [d \in Dirs |-> 0]
      /\ server' = [sent |-> 0, got |-> 0, lost |-> 0]
      /\ ctl' = <<>> /\ queue' = <<>> /\ slots' = [s \in 1 .. c.streams |-> Zero]
      /\ filter' = None /\ hand' = [p \in {"control", "feedback"} |-> None]
  BY DEF Begin
<1>2. /\ tui'.latest = None /\ tui'.prev = None /\ tui'.lost = 0 /\ tui'.prevLost = 0 /\ tui'.logged = 0
      /\ tui'.drawn.lost = 0
      /\ out'.latest = None /\ out'.printed = 0 /\ out'.rows = 0
  BY DEF Begin
<1>3. LossDir' \in Dirs /\ 1 \in 1 .. c.streams
  BY <1>1 DEF LossDir, Dirs
<1>4. Past' = {Zero} /\ Current' = Zero /\ gaps'[LossDir'] = 0
  BY <1>1, <1>3 DEF Past, Current
<1>5. Heard' = Zero /\ HeldLost' = 0
  BY <1>1 DEF Heard, HeldLost, Zero
<1>6. \A K : Carries(ctl', K) /\ Carries(queue', K)
  BY <1>1 DEF Carries
<1>7. slots'[1] = Zero /\ hand'["control"] = None /\ hand'["feedback"] = None
  BY <1>1, <1>3
<1>8. KnownInv'
  <2>1. InFlight(Past, Known)'
    <3>1. Carries(ctl', Known') /\ Carries(queue', Known')
      BY <1>6
    <3> QED
      BY <1>1, <1>4, <1>7, <3>1 DEF InFlight, Known, Carries
  <2> QED
    BY <1>2, <1>4, <1>5, <1>7, <2>1 DEF KnownInv, Known
<1>9. OldInv'
  <2>1. Zero' = Zero
    BY DEF Zero
  <2>2. InFlight({Zero}, {None})'
    BY <1>1, <1>6, <1>7, <2>1 DEF InFlight, Carries
  <2> QED
    BY <2>2 DEF OldInv
<1>10. PICK h : h = [p \in {Zero} |-> 0]
  OBVIOUS
<1>11. h[Zero] = 0 /\ h \in [{Zero} -> Nat] /\ Zero.got = 0 /\ Zero.lost = 0
  BY <1>10 DEF Zero
<1>12. Rises(h)'
  <2>1. Zero' = Zero
    BY DEF Zero
  <2>2. Zero.got <= Zero.got /\ h[Zero] <= h[Zero] /\ Zero.lost + h[Zero] <= Zero.lost + h[Zero]
    BY <1>11
  <2> QED
    BY <1>4, <1>11, <2>1, <2>2 DEF Rises
<1>13. LossFlow(h, tui.lost)' /\ LossFlow(h, out.rows)'
  <2>1. LostOf(queue)' = <<>> /\ LostOf(ctl)' = <<>>
    BY <1>1 DEF LostOf
  <2>2. Flows(0, <<>>, 0, <<>>, 0, 0)
    BY FlowEmpty
  <2> QED
    BY <1>2, <1>5, <1>11, <2>1, <2>2 DEF LossFlow
<1>14. TuiBound(h)'
  BY <1>2, <1>4, <1>13 DEF TuiBound
<1>15. OutBound(h)'
  BY <1>2, <1>13 DEF OutBound
<1> QED
  BY <1>8, <1>9, <1>12, <1>14, <1>15

LEMMA LossStep == Shape /\ BarInv /\ LossInv /\ [DisplayNext]_vars => LossInv'
<1> SUFFICES ASSUME Shape, BarInv, LossInv, [DisplayNext]_vars PROVE LossInv'
  OBVIOUS
<1>1. CASE \E c \in Confs : Begin(c)
  BY <1>1, LossBegin
<1>2. CASE phase # "idle" /\ Next
  <2>1. CASE conf.streams # 1
    <3>1. conf' = conf
      BY <1>2, DoneStays
    <3> QED
      BY <2>1, <3>1 DEF LossInv
  <2>2. CASE conf.streams = 1
    <3>1. KnownInv /\ OldInv
      BY <1>2, <2>2 DEF LossInv
    <3>2. PICK h : Rises(h) /\ TuiBound(h) /\ OutBound(h)
      BY <1>2, <2>2 DEF LossInv
    <3>3. conf' = conf /\ LossDir' = LossDir /\ (Stays \/ \E n : Grows(n))
      BY <1>2, <2>2, PastSteps
    <3>4. KnownInv' /\ OldInv'
      BY <1>2, <2>2, <3>1, <3>2, KnownNext DEF Rises
    <3>5. CASE Stays
      <4>1. Rises(h)'
        <5>1. Zero' = Zero
          BY DEF Zero
        <5> QED
          BY <3>2, <3>3, <3>5, <5>1 DEF Rises, Stays
      <4>2. TuiBound(h)' /\ OutBound(h)'
        BY <1>2, <2>2, <3>1, <3>2, <3>3, <3>5, TuiBoundNext, OutBoundNext
      <4> QED
        BY <3>4, <4>1, <4>2 DEF LossInv
    <3>6. CASE \E n : Grows(n)
      <4>1. PICK n : Grows(n)
        BY <3>6
      <4>2. PICK g : Rises(g)' /\ \A p \in Past : g[p] = h[p]
        BY <1>2, <2>2, <3>2, <3>3, <4>1, RiseGrows
      <4>3. TuiBound(g)' /\ OutBound(g)'
        BY <1>2, <2>2, <3>1, <3>2, <3>3, <4>1, <4>2, BoundGrows
      <4> QED
        BY <3>4, <4>2, <4>3 DEF LossInv
    <3> QED
      BY <3>3, <3>5, <3>6
  <2> QED
    BY <2>1, <2>2
<1>3. CASE UNCHANGED vars
  <2>1. /\ KnownInv' = KnownInv /\ OldInv' = OldInv /\ phase' = phase /\ conf' = conf
        /\ \A h : (Rises(h) /\ TuiBound(h) /\ OutBound(h))' <=> (Rises(h) /\ TuiBound(h) /\ OutBound(h))
    BY <1>3 DEF vars, KnownInv, OldInv, OldServer, InFlight, Carries, Heard, Past, Current, Known, LossDir,
       Rises, TuiBound, OutBound, LossFlow, LostOf, HeldLost, Zero
  <2> QED
    BY <2>1 DEF LossInv
<1> QED
  BY <1>1, <1>2, <1>3 DEF DisplayNext

\* Losses drawn, logged and printed stay within the gaps at some past reading.
LEMMA LossOnce == Shape /\ LossInv => LossCountedOnce
<1> SUFFICES ASSUME Shape, LossInv, phase # "idle", conf.streams = 1
             PROVE  /\ out.guess \/ out.rows <= gaps[LossDir]
                    /\ tui.drawn.lost <= gaps[LossDir]
                    /\ tui.logged <= gaps[LossDir]
  BY DEF LossCountedOnce
<1>1. PICK h : KnownInv /\ Rises(h) /\ TuiBound(h) /\ OutBound(h)
  BY DEF LossInv
<1>2. {tui.drawn.lost, tui.logged, tui.prevLost, out.rows, gaps[LossDir]} \subseteq Nat
  <2>1. tui \in Apps /\ out \in Printers
    BY DEF Shape, ScreenInv
  <2>2. gaps[LossDir] \in Nat
    BY SingleFacts
  <2> QED
    BY <2>1, <2>2 DEF Apps, Bars, Printers
<1>3. \A p \in Past : h[p] \in Nat /\ h[p] <= gaps[LossDir]
  BY <1>1, RiseFacts
<1>4. tui.drawn.lost <= gaps[LossDir]
  BY <1>1, <1>2, <1>3 DEF TuiBound, KnownInv, Known
<1>5. tui.logged <= gaps[LossDir]
  BY <1>1, <1>2 DEF TuiBound
<1>6. out.guess \/ out.rows <= gaps[LossDir]
  <2>1. CASE out.latest = None
    <3>1. Flows(out.rows, LostOf(queue), HeldLost, LostOf(ctl), 0, h[Heard])
      BY <1>1, <2>1 DEF OutBound, LossFlow
    <3>2. h[Heard] \in Nat /\ h[Heard] <= gaps[LossDir]
      BY <1>1, <1>3 DEF KnownInv
    <3>3. LostOf(queue) \in Seq(Nat) /\ LostOf(ctl) \in Seq(Nat) /\ HeldLost \in Nat /\ 0 \in Nat
      BY FlowTypes, SingleFacts
    <3>4. out.rows <= h[Heard] + 0
      BY <1>2, <3>1, <3>2, <3>3, FlowFacts
    <3> QED
      BY <1>2, <3>2, <3>4
  <2>2. CASE out.latest # None
    <3>1. PICK p \in Past : out.guess \/ out.rows <= h[p]
      BY <1>1, <2>2 DEF OutBound
    <3> QED
      BY <1>2, <1>3, <3>1
  <2> QED
    BY <2>1, <2>2
<1> QED
  BY <1>4, <1>5, <1>6


-----------------------------------------------------------------------------
(* The display's invariant, and what follows.                                *)

DisplayInv == Shape /\ BarInv /\ BytesInv /\ LossInv

LEMMA DisplayInit == LaunchInit => DisplayInv
<1> SUFFICES ASSUME phase = "idle" PROVE DisplayInv
  BY DEF LaunchInit, Init
<1> QED
  BY DEF DisplayInv, Shape, BarInv, BytesInv, LossInv

\* Of every reachable state of a displayed run: the counters and messages are well formed, the bars
\* tile the test, and bytes and losses shown or on their way never exceed what was counted.
THEOREM DisplayInvariant == Spec => []DisplayInv
<1>1. DisplayInv /\ [LaunchNext]_launchVars => DisplayInv'
  BY DisplaySteps, ShapeStep, BarStep, BytesStep, LossStep DEF DisplayInv
<1> QED
  BY <1>1, DisplayInit, PTL DEF Spec

LEMMA TilesOnce == Shape /\ BarInv => BarsTile
<1> SUFFICES ASSUME phase # "idle", Tiled(tui)
             PROVE  /\ tui.prev # None => tui.drawn.packets = Expected(tui.prev) - Expected(tui.first)
                    /\ tui.bar.lost <= tui.bar.packets
  BY DEF BarInv, BarsTile
<1> QED
  BY DEF Tiled

\* The sparkline's bars cover exactly the packets between the first reading and the last one drawn,
\* and none shows more losses than packets, however long the stalls and however late the readings
\* (push_throughput_sample and maybe_append_stalled_bar, tui/app.rs).
THEOREM BarsCover == Spec => []BarsTile
<1>1. DisplayInv => BarsTile
  BY TilesOnce DEF DisplayInv
<1> QED
  BY <1>1, DisplayInvariant, PTL

\* The bytes on the screen never run ahead of the receivers, and the summary shows their final
\* counts, for any number of streams, reports, dropped updates and cancellations (udp_recv_interval_deltas
\* and the overlay of the Result, client.rs).
THEOREM BytesCounted == Spec => []BytesShownOnce
<1>1. DisplayInv => BytesShownOnce
  BY BytesOnce DEF DisplayInv
<1> QED
  BY <1>1, DisplayInvariant, PTL

\* Whatever order the two channels deliver their readings in, and however many late packets take
\* losses back, a single stream's bars, log lines and rows show no gap twice (UdpProgressFilter,
\* client.rs; detect_events, tui/app.rs; the print loop, main.rs).
THEOREM LossesCounted == Spec => []LossCountedOnce
<1>1. DisplayInv => LossCountedOnce
  BY LossOnce DEF DisplayInv
<1> QED
  BY <1>1, DisplayInvariant, PTL
=============================================================================
