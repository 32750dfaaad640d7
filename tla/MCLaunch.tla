--------------------------- MODULE MCLaunch --------------------------------
EXTENDS Launch

\* Displays: each direction on both, two streams, an older server, --omit, --interval and --quiet.
Run(dir, n, ui, expected, reports) ==
    [dir |-> dir, streams |-> n, ui |-> ui, cum |-> TRUE, omit |-> 0, every |-> 1, quiet |-> FALSE,
     expected |-> expected, reports |-> reports]
Rows(reports) == Run("upload", 1, "print", 2, reports)
MCConfs == {Run("upload", 1, "tui", 2, 2), Run("upload", 2, "tui", 1, 1), Run("download", 1, "tui", 3, 2),
            Run("bidir", 1, "tui", 2, 1), Run("bidir", 1, "print", 2, 2), Run("download", 2, "print", 2, 1),
            Rows(3), [Rows(2) EXCEPT !.omit = 1], [Rows(2) EXCEPT !.every = 2],
            [Rows(2) EXCEPT !.cum = FALSE], [Rows(2) EXCEPT !.quiet = TRUE]}

MCNoDefaults ==
    [parallel |-> Unset, secs |-> Unset, cport |-> Unset, bind |-> Unset, port |-> Unset, rate |-> Unset,
     family |-> Unset, gateway |-> Unset, omit |-> Unset, interval |-> Unset, psk |-> Unset,
     window |-> Unset, limit |-> Unset, allow |-> {}, deny |-> {}, aclFile |-> Unset,
     noTui |-> FALSE, json |-> FALSE, presets |-> <<>>]
\* Hosts of the machine and of its clients.
Addr(fam, host) == [fam |-> fam, host |-> host]
A4 == Addr("v4", 1)
B4 == Addr("v4", 2)
A6 == Addr("v6", 1)
MCPeers == {A4, B4, A6}
File(has) == [open |-> "ok", parses |-> TRUE, private |-> TRUE, has |-> has]
Absent == [File(MCNoDefaults) EXCEPT !.open = "absent"]
Keyed == File([MCNoDefaults EXCEPT !.psk = "key", !.presets = [lab |-> {{A4}}]])

At(fam, up) == [fam |-> fam, up |-> up]
IP(fam, any, port) == [fam |-> fam, any |-> any, port |-> port]
On(l) == [fam |-> l.fam, any |-> FALSE, host |-> l.host]
Num(n, unit) == [num |-> n, unit |-> unit]

Plain ==
    [role |-> "client", explicit |-> Unset, files |-> <<Absent, Absent>>, bad |-> {}, dir |-> "upload",
     quic |-> FALSE, udp |-> FALSE, probe |-> FALSE, parallel |-> Unset, time |-> Unset, bytes |-> Unset,
     rate |-> Unset, payload |-> Unset, mptcp |-> FALSE, zerocopy |-> "auto", family |-> Unset,
     bind |-> Unset, cport |-> Unset, target |-> Unset, port |-> Unset, envPort |-> Unset,
     labels |-> FALSE, gateway |-> Unset, format |-> "plain", noTui |-> FALSE, quiet |-> FALSE,
     terminal |-> FALSE, omit |-> Unset, interval |-> Unset, psk |-> Unset, preset |-> Unset,
     window |-> Unset, limit |-> Unset, allow |-> {}, deny |-> {}, aclFile |-> Unset, addrs |-> <<At("v4", TRUE)>>]
Udp == [Plain EXCEPT !.udp = TRUE]
Quic == [Plain EXCEPT !.quic = TRUE]
Tuied(a) == [a EXCEPT !.terminal = TRUE]
Server == [Plain EXCEPT !.role = "server"]
With(a, d) == [a EXCEPT !.files = <<File(d), Absent>>]

\* Displays of plain runs.
Displayed ==
    {[Udp EXCEPT !.dir = d, !.parallel = n] : d \in {"upload", "download", "bidir"}, n \in {1, 2}}
    \cup {[Udp EXCEPT !.omit = 1], [Udp EXCEPT !.interval = 2], [Udp EXCEPT !.quiet = TRUE],
          [Udp EXCEPT !.format = "json"], With(Udp, [MCNoDefaults EXCEPT !.json = TRUE, !.omit = 1])}
\* Runs whose local ports are pinned, by each protocol, at and beyond the last port.
Pinned ==
    {[a EXCEPT !.cport = c, !.bind = b, !.parallel = n] :
        a \in {Plain, Udp, Quic}, c \in {Unset, 0, 3, 5}, n \in {1, 2, 3},
        b \in {Unset, IP("v4", TRUE, Unset), IP("v6", FALSE, 0), IP("v4", TRUE, 4)}}
\* Addresses: families, a dead first address, none of the wanted family.
Hosts ==
    {[a EXCEPT !.family = f, !.bind = b, !.addrs = r] :
        a \in {Udp, Quic}, f \in {Unset, "v4", "v6"}, b \in {Unset, IP("v4", TRUE, 3), IP("v4", FALSE, 3)},
        r \in {<<At("v6", FALSE), At("v4", TRUE)>>, <<At("v6", TRUE), At("v4", TRUE)>>}}
Values ==
    {[Plain EXCEPT !.time = t, !.bytes = n] : t \in {Unset, 0, 1, 3, 4, 10}, n \in {Unset, Num(0, 1), Num(2, 2), Num(3, 4)}}
    \cup {[Plain EXCEPT !.target = t, !.port = p, !.envPort = e] : t, p, e \in {Unset, 0, 1}}
    \cup {[Plain EXCEPT !.labels = TRUE, !.gateway = g] : g \in {Unset, "url"}}
    \cup {[Plain EXCEPT !.bad = {"dscp"}], With(Plain, [MCNoDefaults EXCEPT !.interval = 0]), [Plain EXCEPT !.probe = TRUE], [Plain EXCEPT !.rate = Num(3, 4)]}
    \cup {With(Plain, [MCNoDefaults EXCEPT !.parallel = n, !.secs = s, !.cport = 3]) : n \in {0, 2, 4}, s \in {1, 6}}
\* Files: every state of the two candidates, an explicit one, both roles.
Files ==
    {[a EXCEPT !.files = <<f, g>>, !.explicit = e] : a \in {Plain, Server}, e \in {Unset, Keyed, Absent},
        f, g \in {Absent, Keyed, [Keyed EXCEPT !.private = FALSE], [Keyed EXCEPT !.parses = FALSE],
                  [Keyed EXCEPT !.open = "denied"], [Keyed EXCEPT !.open = "link"]}}
    \cup {[Server EXCEPT !.files[1] = Keyed, !.preset = p, !.window = w, !.bind = b, !.family = f] :
            p \in {Unset, "lab", "other"}, w \in {Unset, 0}, f \in {Unset, "v4", "v6"},
            b \in {Unset, On(A4), IP("v6", TRUE, Unset)}}
\* Runs to edit in Settings.
Edits ==
    {Tuied(a) : a \in {[Udp EXCEPT !.bind = IP("v4", FALSE, 3), !.payload = 100],
                       [Plain EXCEPT !.cport = 4, !.parallel = 2, !.time = 3, !.mptcp = TRUE],
                       [Plain EXCEPT !.time = 1],
                       [Quic EXCEPT !.cport = 5, !.parallel = 3, !.bytes = Num(2, 2)]}}
    \cup {Tuied([Udp EXCEPT !.dir = d]) : d \in {"download", "bidir"}}

\* Servers: access lists from every source, a rule that does not parse, a rate limit.
Rules == {[allow |-> {{A4}, {A6}}, deny |-> {}], [allow |-> {}, deny |-> {{A4}}], [allow |-> {{}}, deny |-> {}]}
Guarded ==
    {[Server EXCEPT !.allow = a, !.deny = d, !.aclFile = f, !.limit = 1] :
        a \in {{}, {{A4, B4}}}, d \in {{}, {{B4}}}, f \in {Unset} \cup Rules}
    \cup {[With(Server, [MCNoDefaults EXCEPT !.allow = {{A4}}, !.presets = [lab |-> p]]) EXCEPT
              !.preset = "lab", !.allow = a] : p \in {{}, {{A4}}, {{}}}, a \in {{}, {{B4}}}}

MCAsked == Displayed \cup Pinned \cup Hosts \cup Values \cup Files \cup Edits \cup Guarded

\* The second server: everywhere, IPv4 or IPv6 only, on one address, on another port.
Second(family, bind, port) ==
    [port |-> port, psk |-> Unset, bind |-> bind, family |-> family, limit |-> Unset, window |-> 1,
     acl |-> [allow |-> {}, deny |-> {}, aclFile |-> Unset, presetClients |-> {}]]
MCOthers ==
    {Second("dual", Unset, 2), Second("v4", Unset, 2), Second("v6", Unset, 2), Second("v4", On(B4), 2),
     Second("v6", On(A6), 2), Second("dual", Unset, 3),
     Second("v4", On(Addr("v4", 3)), 2)}
Kernel(mptcp, precedes, taken) == [mptcp |-> mptcp, precedes |-> precedes, taken |-> taken]
MCKernels ==
    {Kernel("full", p, {}) : p \in {{"v4", "v6", "mapped"}, {"v4", "v6"}, {"v6", "mapped"}, {}}}
    \cup {Kernel("none", {"v4", "v6", "mapped"}, t) : t \in {{}, {"tcp"}, {"udp"}}}
MCBitrateSteps == <<Unset, 1>>
=============================================================================
