------------------------------- MODULE Launch -------------------------------
(***************************************************************************)
(* The program from its options on: Options decides which runs and servers *)
(* start and how; LossDisplay follows one UDP run that did, ServerStart a  *)
(* server that did, with a second one on the same machine.                 *)
(***************************************************************************)
EXTENDS ServerStart, LossDisplay

launchVars == <<optionVars, vars, serverVars>>

\* The kind of display a running UDP test gets from its configuration and output options.
Displays(c) ==
    /\ run.cfg.proto = "udp" /\ ~run.cfg.probe
    /\ c.dir = run.cfg.dir /\ c.streams = run.cfg.streams /\ c.ui = config.out.ui
    /\ c.ui = "print" => /\ c.omit = config.out.omit /\ c.every = config.out.every
                         /\ c.quiet = config.out.quiet

\* Only one part is followed from here on, and the options are forgotten.
Forget(next) ==
    /\ stage' = next
    /\ asked' = Unset /\ defaults' = Unset /\ config' = Unset /\ run' = Unset /\ dialog' = Unset
    /\ shown' = Unset

BeginDisplay ==
    /\ stage = "running" /\ Forget("displayed")
    /\ \E c \in Confs : Displays(c) /\ Begin(c)
    /\ UNCHANGED serverVars

BeginServe ==
    /\ stage = "serving" /\ Forget("launched")
    /\ \E other \in Others : servers' = <<Launched(config), Launched(other)>>
    /\ kernel' \in Kernels
    /\ UNCHANGED vars

LaunchInit == OptionsInit /\ Init /\ servers = <<>> /\ kernel = Unset
LaunchNext ==
    \/ OptionsNext /\ UNCHANGED <<vars, serverVars>>
    \/ BeginDisplay \/ BeginServe
    \/ phase # "idle" /\ Next /\ UNCHANGED <<optionVars, serverVars>>
    \/ ServersNext /\ UNCHANGED <<optionVars, vars>>

Spec == LaunchInit /\ [][LaunchNext]_launchVars
=============================================================================
