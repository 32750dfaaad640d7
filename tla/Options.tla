------------------------------ MODULE Options ------------------------------
(***************************************************************************)
(* From options to sockets (main.rs, config.rs, tui/settings.rs, net.rs,   *)
(* client.rs).                                                             *)
(*                                                                         *)
(* A program starts from a command line, the environment and the first     *)
(* usable configuration file.  It is refused, serves, or becomes a client  *)
(* whose ClientConfig says which local ports its sockets use.  In the      *)
(* terminal interface the Settings dialog edits that configuration and     *)
(* restarts the run, any number of times, without the checks of start-up.  *)
(***************************************************************************)
EXTENDS Naturals, Sequences

CONSTANTS
    Asked,         \* invocations, see MCLaunch
    NoDefaults,    \* the defaults of an empty configuration file
    MaxStreams,    \* parallel streams allowed (128)
    MaxPort,       \* largest port (65535)
    DefaultPort, Ephemeral,        \* ports the system hands out
    Sec,           \* ticks of a second: a duration need not be whole seconds
    MaxSecs,       \* largest duration in seconds (u32::MAX)
    DefaultSecs, ProbeSecs,        \* 10 s and 60 s
    MaxNumber,     \* largest value of an unsigned integer
    DurStep, DurMax, BitrateSteps, \* the steps of the Settings dialog
    MaxEdits,      \* bound: value keys pressed in the dialog
    Unset          \* an option that was not given

VARIABLES
    stage,     \* start, resolve, ready, connecting, connected, running, failed; refused, serving
    asked,     \* the invocation
    defaults,  \* what the configuration file sets
    config,    \* ClientConfig or ServerConfig, with the output options (out)
    run,       \* the current run: [cfg, peer, control: its local port, data: the streams' local binds]
    dialog,    \* SettingsState: now: the values shown, was: the original_ values; edits: a bound
    shown      \* the parameters the App displays

optionVars == <<stage, asked, defaults, config, run, dialog, shown>>

\* The types of the command line's values and of the configuration file's, as clap and serde give them.
Maybe(S) == S \cup {Unset}
Families == {"v4", "v6"}
ClientBinds == [fam : Families, any : BOOLEAN, port : Maybe(0 .. MaxPort)]
TypedDefaults(d) ==
    /\ d.cport \in Maybe(0 .. MaxPort) /\ d.bind \in Maybe(ClientBinds)
    /\ d.secs \in Maybe(Nat) /\ d.family \in Maybe(Families \cup {"dual"})
TypedOptions(a) ==
    /\ a.role \in {"client", "server"}
    /\ a.mptcp \in BOOLEAN /\ a.time \in Maybe(Nat) /\ a.cport \in Maybe(0 .. MaxPort)
    /\ a.family \in Maybe(Families)
    /\ a.role = "client" => a.bind \in Maybe(ClientBinds)
    /\ a.role = "server" => a.bind = Unset \/ a.bind.fam \in Families
    /\ a.explicit = Unset \/ TypedDefaults(a.explicit.has)
    /\ DOMAIN a.files \subseteq Nat \ {0} /\ \A i \in DOMAIN a.files : TypedDefaults(a.files[i].has)

ASSUME OptionsAssumption ==
    /\ {MaxStreams, MaxPort, Sec, DefaultSecs, ProbeSecs, DurStep, DurMax} \subseteq Nat \ {0}
    /\ Unset \notin Nat
    /\ TypedDefaults(NoDefaults) /\ \A a \in Asked : TypedOptions(a)

Given(o) == o # Unset
Or(a, b) == IF Given(a) THEN a ELSE b
Least(a, b) == IF a < b THEN a ELSE b
Most(a, b) == IF a > b THEN a ELSE b
First(positions) == {i \in positions : \A j \in positions : i <= j}

(***************************************************************************)
(* The configuration file.                                                 *)
(***************************************************************************)
\* load_from: absent, denied, or a file that must be usable; one with a PSK must be private.
load_from(f) ==
    IF f.open \in {"absent", "denied"} THEN f.open
    ELSE IF f.open = "link" \/ ~f.parses \/ (Given(f.has.psk) /\ ~f.private) THEN "broken"
    ELSE "ok"

\* A client passes over a file it may not read; a server does not.
Skipped(a) == {"absent"} \cup (IF a.role = "client" THEN {"denied"} ELSE {})

\* Config::resolve: the explicit file, or the first on the search path that is not skipped.
Chosen(a) ==
    IF Given(a.explicit) THEN {a.explicit}
    ELSE {a.files[i] : i \in First({i \in DOMAIN a.files : load_from(a.files[i]) \notin Skipped(a)})}

LoadConfig ==
    /\ stage = "start"
    /\ \/ Chosen(asked) = {} /\ stage' = "resolve" /\ defaults' = NoDefaults
       \/ \E f \in Chosen(asked) :
             \/ load_from(f) = "ok" /\ stage' = "resolve" /\ defaults' = f.has
             \/ load_from(f) # "ok" /\ stage' = "refused" /\ UNCHANGED defaults
    /\ UNCHANGED <<asked, config, run, dialog, shown>>

(***************************************************************************)
(* Values.  What cannot be parsed at all is in asked.bad.                  *)
(***************************************************************************)
\* parse_bitrate, parse_size and parse_byte_budget: a number with a unit, the product checked.
Overflows(v) == Given(v) /\ v.num * v.unit > MaxNumber
Scaled(v) == IF Given(v) THEN v.num * v.unit ELSE Unset
parse_byte_budget(v) == Given(v) => ~Overflows(v) /\ Scaled(v) > 0

\* parse_test_duration: 0 is endless, otherwise at least a second.
parse_test_duration(t) == Given(t) => t = 0 \/ (t >= Sec /\ t \div Sec <= MaxSecs)

\* validate_report_interval: the reporting period is positive.
validate_report_interval(a, d) == Or(a.interval, Or(d.interval, 1)) > 0

\* Every other value has a parser of its own (DSCP names, timestamp formats, sizes, keys, labels, the
\* file of -o); one of them fails.
WellFormed(a) == a.bad = {}

\* parse_bind_address: an address without a port leaves the choice to the system.
parse_bind_address(b) == IF Given(b) /\ ~Given(b.port) THEN [b EXCEPT !.port = 0] ELSE b
BindOption(a, d) == parse_bind_address(Or(a.bind, d.bind))

resolve_address_family(flag, default) == Or(flag, Or(default, "dual"))

\* client_json_output and client_uses_tui.
client_json_output(a, d) == a.format = "json" \/ (a.format = "plain" /\ d.json)
client_uses_tui(a, d) ==
    /\ a.terminal
    /\ ~(a.noTui \/ d.noTui \/ client_json_output(a, d) \/ a.format # "plain" \/ a.quiet \/ a.probe)

resolve_client_duration(a, d) ==
    CASE Given(a.time) -> a.time
      [] ~Given(a.time) /\ a.probe -> ProbeSecs * Sec
      [] ~Given(a.time) /\ ~a.probe /\ Given(a.bytes) -> 0
      [] OTHER -> Or(d.secs, DefaultSecs) * Sec

resolve_parallel_streams(a, d) == Or(a.parallel, Or(d.parallel, 1))

\* resolve_client_port: the target's, then -p, XFR_PORT, and the file's.
resolve_client_port(a, d) == Or(a.target, Or(a.port, Or(a.envPort, Or(d.port, DefaultPort))))
PortConflict(a) == Given(a.target) /\ Given(a.port) /\ a.target # a.port

protocol(a) == CASE a.quic -> "quic" [] ~a.quic /\ (a.udp \/ a.probe) -> "udp" [] OTHER -> "tcp"

effective_zerocopy(a) == a.zerocopy      \* off, requested or auto

\* --cport joins --bind; alone it takes the unspecified address.
Bind(a, d) ==
    LET cport == Or(a.cport, d.cport)
        bind == BindOption(a, d)
        v6 == resolve_address_family(a.family, d.family) = "v6" IN
    CASE ~Given(cport) -> bind
      [] Given(cport) /\ Given(bind) -> [bind EXCEPT !.port = cport]
      [] OTHER -> [fam |-> IF v6 THEN "v6" ELSE "v4", any |-> TRUE, port |-> cport]

FixedPort(bind) == Given(bind) /\ bind.port # 0

\* --cport: not 0, its range fits (QUIC has one socket), and --bind has no port of its own.
CportRefused(a, d) ==
    LET cport == Or(a.cport, d.cport) IN
    /\ Given(cport)
    /\ \/ cport = 0
       \/ /\ protocol(a) # "quic" /\ resolve_parallel_streams(a, d) > 1
          /\ cport + resolve_parallel_streams(a, d) - 1 > MaxPort
       \/ FixedPort(BindOption(a, d))

\* validate_bind_address: a port in --bind serves one UDP stream or QUIC, nothing else.
validate_bind_address(bind, proto, streams, hasCport) ==
    FixedPort(bind) /\ ~hasCport => proto # "tcp" /\ streams = 1

Refused(a, d) ==
    \/ ~WellFormed(a) \/ ~validate_report_interval(a, d)
    \/ ~parse_test_duration(a.time) \/ ~parse_byte_budget(a.bytes) \/ Overflows(a.rate) \/ Overflows(d.rate)
    \/ resolve_parallel_streams(a, d) \notin 1 .. MaxStreams
    \/ CportRefused(a, d)
    \/ ~validate_bind_address(Bind(a, d), protocol(a), resolve_parallel_streams(a, d),
                              Given(Or(a.cport, d.cport)))
    \/ PortConflict(a) \/ resolve_client_port(a, d) = 0
    \/ a.labels /\ ~Given(Or(a.gateway, d.gateway))

OutputOptions(a, d) ==
    [ui |-> IF client_uses_tui(a, d) THEN "tui" ELSE "print",
     omit |-> Or(a.omit, Or(d.omit, 0)), every |-> Or(a.interval, Or(d.interval, 1)),
     quiet |-> a.quiet \/ client_json_output(a, d)]

Resolved(a, d) ==
    [out |-> OutputOptions(a, d), proto |-> protocol(a), dir |-> a.dir, streams |-> resolve_parallel_streams(a, d),
     dur |-> resolve_client_duration(a, d), rate |-> Or(Scaled(a.rate), Scaled(d.rate)),
     payload |-> a.payload, mptcp |-> a.mptcp, zerocopy |-> effective_zerocopy(a), probe |-> a.probe,
     family |-> resolve_address_family(a.family, d.family), port |-> resolve_client_port(a, d),
     bind |-> Bind(a, d),
     sequential_ports |-> /\ protocol(a) # "quic" /\ Given(Or(a.cport, d.cport))
                          /\ resolve_parallel_streams(a, d) > 1]

Params(c) == [proto |-> c.proto, dir |-> c.dir, streams |-> c.streams, dur |-> c.dur, rate |-> c.rate]
InSecs(p) == [p EXCEPT !.dur = @ \div Sec]

\* SettingsState::new: the dialog keeps whole seconds.
NewDialog(c) ==
    [visible |-> FALSE, tab |-> "display", sel |-> 0, focused |-> FALSE, button |-> 0, edits |-> 0,
     now |-> InSecs(Params(c)), was |-> InSecs(Params(c))]

ResolveClient ==
    /\ stage = "resolve" /\ asked.role = "client"
    /\ \/ Refused(asked, defaults) /\ stage' = "refused" /\ UNCHANGED <<config, dialog, shown>>
       \/ /\ ~Refused(asked, defaults) /\ stage' = "ready"
          /\ config' = Resolved(asked, defaults)
          /\ dialog' = NewDialog(config') /\ shown' = Params(config')
    /\ UNCHANGED <<asked, defaults, run>>

\* The server's arm of main: what it guards itself with comes from the command line or the file.
resolve_server_address_family(a, d) ==
    IF Given(a.bind) THEN a.bind.fam ELSE resolve_address_family(a.family, d.family)
resolve_rate_limit_window(a, d) == Or(a.window, Or(d.window, 1))

\* acl_config: rules on the command line replace the file's list of their kind; the preset's clients
\* are a list of their own.
acl_config(a, d) ==
    [allow |-> IF a.allow = {} THEN d.allow ELSE a.allow, deny |-> IF a.deny = {} THEN d.deny ELSE a.deny,
     aclFile |-> Or(a.aclFile, d.aclFile),
     presetClients |-> IF Given(a.preset) THEN d.presets[a.preset] ELSE {}]

ServerRefused(a, d) ==
    \/ ~WellFormed(a)
    \/ a.labels /\ ~Given(Or(a.gateway, d.gateway))
    \/ Given(a.preset) /\ a.preset \notin DOMAIN d.presets
    \/ resolve_rate_limit_window(a, d) = 0
    \/ Given(a.bind) /\ (a.bind.any \/ a.family \notin {Unset, a.bind.fam})

ResolveServer ==
    /\ stage = "resolve" /\ asked.role = "server"
    /\ \/ ServerRefused(asked, defaults) /\ stage' = "refused" /\ UNCHANGED config
       \/ /\ ~ServerRefused(asked, defaults) /\ stage' = "serving"
          /\ config' = [port |-> Or(asked.port, Or(asked.envPort, Or(defaults.port, DefaultPort))),
                        psk |-> Or(asked.psk, defaults.psk), bind |-> asked.bind,
                        family |-> resolve_server_address_family(asked, defaults),
                        limit |-> Or(asked.limit, defaults.limit),
                        window |-> resolve_rate_limit_window(asked, defaults),
                        acl |-> acl_config(asked, defaults)]
    /\ UNCHANGED <<asked, defaults, run, dialog, shown>>

(***************************************************************************)
(* A run: connect the control channel, then bind the data sockets.         *)
(***************************************************************************)
\* A mutant: the flag stays what it was at start-up.
tui_run_config_as_started(c) == c
\* tui_run_config: the run drops what its protocol cannot use; the configuration keeps it.
tui_run_config(c) ==
    [c EXCEPT !.sequential_ports = c.proto # "quic" /\ c.streams > 1 /\ FixedPort(c.bind),
              !.payload = IF c.proto = "udp" THEN @ ELSE Unset,
              !.mptcp = c.proto = "tcp" /\ @,
              !.zerocopy = IF c.proto = "tcp" THEN @ ELSE "off"]

NoSockets(c) == [cfg |-> c, peer |-> Unset, control |-> 0, data |-> <<>>]
NewRun(c) == NoSockets(IF c.out.ui = "tui" THEN tui_run_config(c) ELSE c)

StartRun ==
    /\ stage = "ready" /\ stage' = "connecting"
    /\ run' = NewRun(config)
    /\ UNCHANGED <<asked, defaults, config, dialog, shown>>

\* ClientConfig::validate.
validate(c) ==
    /\ c.streams \in 1 .. MaxStreams /\ c.dur \div Sec <= MaxSecs
    /\ Given(c.payload) => ~c.probe

\* match_bind_family: the unspecified address follows the remote; binding another family fails.
match_bind_family(bind, remote) == IF bind.any THEN [bind EXCEPT !.fam = remote.fam] ELSE bind
CanBind(bind, remote) == Given(bind) => match_bind_family(bind, remote).fam = remote.fam

\* The positions of the addresses of the wanted family, in the resolver's order.
resolve_host(c) == {i \in DOMAIN asked.addrs : c.family \in {"dual", asked.addrs[i].fam}}

\* TCP and UDP tests try every address for their control connection, QUIC only the first.
Reachable(c) ==
    LET tried == IF c.proto = "quic" THEN First(resolve_host(c)) ELSE resolve_host(c) IN
    First({i \in tried : asked.addrs[i].up /\ CanBind(c.bind, asked.addrs[i])})

\* control_bind_addr: a TCP test keeps its fixed port for the data sockets.
control_bind_port(c) == IF c.proto = "tcp" \/ ~Given(c.bind) THEN 0 ELSE c.bind.port

\* tcp_data_port_range and validate_tcp_control_port, the sum saturating.
validate_tcp_control_port(port, c) ==
    c.proto = "tcp" /\ FixedPort(c.bind) =>
        port \notin c.bind.port .. (IF c.sequential_ports THEN Least(MaxPort, c.bind.port + c.streams - 1)
                                   ELSE c.bind.port)

Connect ==
    LET c == run.cfg IN
    /\ stage = "connecting"
    /\ \/ (~validate(c) \/ Reachable(c) = {}) /\ stage' = "failed" /\ UNCHANGED run
       \/ /\ validate(c)
          /\ \E i \in Reachable(c),
                port \in IF control_bind_port(c) # 0 THEN {control_bind_port(c)} ELSE Ephemeral :
                /\ stage' = IF validate_tcp_control_port(port, c) THEN "connected" ELSE "failed"
                /\ run' = [run EXCEPT !.control = port, !.peer = asked.addrs[i]]
    /\ UNCHANGED <<asked, defaults, config, dialog, shown>>

\* sequential_bind_base and stream_bind_addr; a probe and QUIC have one socket of their own.
sequential_bind_base(c) ==
    c.sequential_ports => FixedPort(c.bind) /\ c.bind.port + c.streams - 1 <= MaxPort
stream_bind_port(c, i) ==
    IF ~Given(c.bind) THEN 0 ELSE c.bind.port + (IF c.sequential_ports THEN i - 1 ELSE 0)

BindStreams ==
    LET c == run.cfg IN
    /\ stage = "connected"
    /\ IF c.proto # "quic" /\ ~c.probe /\ ~sequential_bind_base(c)
       THEN stage' = "failed" /\ UNCHANGED run
       ELSE /\ stage' = "running"
            /\ run' = [run EXCEPT !.data = IF c.proto = "quic" \/ c.probe THEN <<0>>
                                          ELSE [i \in 1 .. c.streams |-> stream_bind_port(c, i)]]
    /\ UNCHANGED <<asked, defaults, config, dialog, shown>>

(***************************************************************************)
(* The Settings dialog.                                                    *)
(***************************************************************************)
Tui == stage \in {"connecting", "connected", "running", "failed"} /\ config.out.ui = "tui"
Dialog == Tui /\ dialog.visible

test_params_dirty(s) == s.now # s.was
LastItem(s) == IF s.tab = "display" THEN 3 ELSE 4
FocusButtons(s) == [s EXCEPT !.focused = TRUE, !.button = IF test_params_dirty(s) THEN 0 ELSE 1]

DialogKey(s) == dialog' = s /\ UNCHANGED <<stage, asked, defaults, config, run, shown>>

toggle == /\ Tui /\ ~dialog.visible
          /\ DialogKey([dialog EXCEPT !.visible = TRUE, !.sel = 0, !.focused = FALSE])
close == Dialog /\ DialogKey([dialog EXCEPT !.visible = FALSE])

move_up ==
    /\ Dialog
    /\ \/ dialog.focused /\ DialogKey([dialog EXCEPT !.focused = FALSE, !.sel = LastItem(dialog)])
       \/ ~dialog.focused /\ dialog.sel > 0 /\ DialogKey([dialog EXCEPT !.sel = @ - 1])

move_down ==
    /\ Dialog /\ ~dialog.focused
    /\ DialogKey(IF dialog.sel < LastItem(dialog) THEN [dialog EXCEPT !.sel = @ + 1]
                 ELSE FocusButtons(dialog))

switch_tab ==
    /\ Dialog
    /\ DialogKey([dialog EXCEPT !.tab = IF @ = "display" THEN "test" ELSE "display", !.sel = 0,
                                !.focused = FALSE])

\* One step along a cycle, forwards or backwards.
Cycle(seq, v, step) ==
    LET at == IF \E i \in DOMAIN seq : seq[i] = v THEN CHOOSE i \in DOMAIN seq : seq[i] = v ELSE 1 IN
    seq[((at - 1 + (IF step = "next" THEN 1 ELSE Len(seq) - 1)) % Len(seq)) + 1]

duration_next(secs) == Least((secs \div DurStep + 1) * DurStep, DurMax)
duration_prev(secs) == Most(((IF secs > 0 THEN secs - 1 ELSE 0) \div DurStep) * DurStep, DurStep)

Edited(p, sel, step) ==
    CASE sel = 0 -> [p EXCEPT !.streams = IF step = "next" THEN Least(@ + 1, MaxStreams) ELSE Most(@ - 1, 1)]
      [] sel = 1 -> [p EXCEPT !.proto = Cycle(<<"tcp", "udp", "quic">>, @, step)]
      [] sel = 2 -> [p EXCEPT !.dur = IF step = "next" THEN duration_next(@) ELSE duration_prev(@)]
      [] sel = 3 -> [p EXCEPT !.dir = Cycle(<<"upload", "download", "bidir">>, @, step)]
      [] OTHER -> [p EXCEPT !.rate = Cycle(BitrateSteps, @, step)]

\* value_next and value_prev: on the buttons they change the button, if both are there; the items of
\* the display tab do not concern the test.
value_key(step) ==
    /\ Dialog
    /\ \/ dialog.focused /\ test_params_dirty(dialog) /\ DialogKey([dialog EXCEPT !.button = 1 - @])
       \/ /\ ~dialog.focused /\ dialog.tab = "test" /\ dialog.edits < MaxEdits
          /\ DialogKey([dialog EXCEPT !.now = Edited(@, dialog.sel, step), !.edits = @ + 1])

\* restart_tui_run once the old run has stopped (see Session).
Restarted(c) == stage' = "connecting" /\ run' = NewRun(c)

\* apply_tui_settings, apply_test_params and mark_applied, then the restart.
apply_tui_settings ==
    LET c == [config EXCEPT !.streams = dialog.now.streams, !.proto = dialog.now.proto,
                            !.dur = dialog.now.dur * Sec, !.dir = dialog.now.dir,
                            !.rate = dialog.now.rate] IN
    /\ config' = c /\ shown' = Params(c)
    /\ dialog' = [dialog EXCEPT !.visible = FALSE, !.was = dialog.now]
    /\ Restarted(c)
    /\ UNCHANGED <<asked, defaults>>

on_enter ==
    /\ Dialog
    /\ \/ ~dialog.focused /\ DialogKey(FocusButtons(dialog))
       \/ /\ dialog.focused /\ (dialog.button = 1 \/ ~test_params_dirty(dialog))
          /\ DialogKey([dialog EXCEPT !.visible = FALSE])
       \/ dialog.focused /\ dialog.button = 0 /\ test_params_dirty(dialog) /\ apply_tui_settings

\* The r key restarts with the configuration as it stands, whatever the dialog holds.
RestartKey ==
    /\ Tui /\ ~dialog.visible
    /\ Restarted(config)
    /\ UNCHANGED <<asked, defaults, config, dialog, shown>>

-----------------------------------------------------------------------------
OptionsInit ==
    /\ stage = "start" /\ asked \in Asked
    /\ defaults = Unset /\ config = Unset /\ run = Unset /\ dialog = Unset /\ shown = Unset

OptionsNext ==
    \/ LoadConfig \/ ResolveClient \/ ResolveServer
    \/ StartRun \/ Connect \/ BindStreams
    \/ toggle \/ close \/ move_up \/ move_down \/ switch_tab \/ on_enter \/ RestartKey
    \/ \E step \in {"next", "prev"} : value_key(step)

-----------------------------------------------------------------------------
\* The ports of a run's sockets are its own: fixed data ports exist and differ, and the control
\* connection of a TCP test is not on one of them.
PortsAreOwn ==
    LET d == run.data
        fixed == {i \in DOMAIN d : d[i] # 0} IN
    /\ \A i \in fixed : d[i] \in 1 .. MaxPort /\ (run.cfg.proto = "tcp" => run.control # d[i])
    /\ \A i, j \in fixed : i # j => d[i] # d[j]

\* A run is what was asked for, however often and in whatever order Settings changed it: its ports
\* are its own; the screen shows its parameters; a test with a time limit stays one, although
\* the dialog keeps whole seconds; what only one protocol uses is back when that protocol is
\* (main.rs:2498, "so switching back restores them"); its address family is the peer's.  And a
\* server runs under the first configuration file that exists, or not at all: it
\* never drops that file's key because it cannot be read (main.rs:1273).
StartsAsConfigured ==
    /\ stage = "running" =>
          LET c == run.cfg IN
          /\ PortsAreOwn
          /\ shown = Params(c) /\ c.streams \in 1 .. MaxStreams
          /\ c.dur = 0 => resolve_client_duration(asked, defaults) = 0
          /\ c.proto = "udp" => c.payload = asked.payload
          /\ c.proto = "tcp" => c.mptcp = asked.mptcp /\ c.zerocopy = asked.zerocopy
          /\ c.family \in {"dual", run.peer.fam}
    /\ stage = "serving" /\ ~Given(asked.explicit) =>
          \A i \in DOMAIN asked.files :
              /\ asked.files[i].open # "absent"
              /\ \A j \in 1 .. i - 1 : asked.files[j].open = "absent"
              => config.psk = Or(asked.psk, asked.files[i].has.psk)
=============================================================================
