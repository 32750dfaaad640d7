------------------------------ MODULE Session ------------------------------
(***************************************************************************)
(* The client program around the library (main.rs): the terminal interface *)
(* (run_client_tui, run_tui_loop) and the plain mode (run_client_plain),   *)
(* each driving one run after another of ClientRun, and what happens once  *)
(* the loop returns: the summary, the result file, the delivery of metrics *)
(* (push_gateway.rs) and the preferences (module Save).                    *)
(*                                                                         *)
(* An iteration of the TUI loop without a key takes the progress updates   *)
(* and looks whether the run is over (Poll).  One with a key is that key   *)
(* alone: some `continue` to the top right away, and after the others the  *)
(* rest of the iteration is the Poll that may follow at once.              *)
(***************************************************************************)
EXTENDS ClientRun, Save

CONSTANTS
    Modes,          \* the interfaces checked: subset of {"tui", "plain"}
    TuiWait,        \* TUI_CANCEL_WAIT, and the same 5 s of the plain mode
    RestartWait,    \* the 3 s restart_tui_run() waits for the old run
    MaxRuns,        \* runs of one session
    MaxPresses      \* pause keys of one run

ASSUME SessionAssumption ==
    /\ Modes \subseteq {"tui", "plain"}
    /\ {TuiWait, RestartWait, MaxRuns} \subseteq Nat \ {0}
    /\ MaxPresses \in Nat

VARIABLES
    ui,      \* the program's own state
    push     \* the runs whose metrics are being delivered (ClientMetrics::pending)

sessionVars == <<ui, push>>
vars == <<conf, run, ctl, stop, held, tasks, up, down, srv, prog, ghost,
          disk, saving, ui, push>>

NoResult == [kind |-> "none", id |-> 0, bytes |-> 0]
Gone == ui.pc \in {"done", "crashed"}
Quitting == ui.deadline # Forever

Init ==
    /\ \E c \in Confs :
         /\ conf = c /\ run = NewRun(1) /\ ctl = NoChannels
         /\ stop = FALSE /\ held = FALSE /\ tasks = 0 /\ up = <<>> /\ down = <<>>
         /\ srv = "testing" /\ prog = 0 /\ ghost = [seen |-> 0, ran |-> 0]
    /\ SaveInit
    /\ push = {}
    /\ \E m \in Modes :
         ui = [mode |-> m, pc |-> IF m = "tui" THEN "top" ELSE "wait", run |-> TRUE,
               state |-> "running", deadline |-> Forever, bytes |-> 0, result |-> NoResult,
               next |-> conf, presses |-> 0, exit |-> "none"]

ClientOnly == UNCHANGED <<disk, saving, ui, push>>
RunOnly == UNCHANGED <<conf, stop, held, tasks, up, down, srv, prog, ghost>>
NoRun == UNCHANGED clientVars
NoSave == UNCHANGED saveVars

-----------------------------------------------------------------------------
(* Leaving the loop.                                                         *)

\* build_fallback_result(), None when nothing was transferred.
tui_fallback_result(u) ==
    IF u.bytes > 0 THEN [kind |-> "partial", id |-> run.id, bytes |-> u.bytes] ELSE NoResult

\* A real result is saved when -o asks for it; a fallback summary is not.
Return(u, result, exit) ==
    [u EXCEPT !.pc = IF result.kind = "server" THEN "save" ELSE "finish",
              !.result = result, !.exit = exit, !.deadline = Forever, !.presses = 0]

\* The result the program shows if the server never gave one.
Summary(u) == IF u.result.kind = "none" THEN tui_fallback_result(u) ELSE u.result

-----------------------------------------------------------------------------
(* The terminal interface.                                                   *)

\* A mutant: the deadline only waits for the run, which it does not abort.
TopExpiredNoAbort ==
    /\ ui.pc = "top" /\ ui.deadline <= 0
    /\ IF ui.run
       THEN NoRun /\ ui' = [ui EXCEPT !.pc = "abort", !.run = FALSE]
       ELSE NoRun /\ ui' = Return(ui, Summary(ui), "ok")
    /\ NoSave /\ UNCHANGED push

\* The cancel deadline has passed: abort the run and wait for that (abort_tui_run).
TopExpired ==
    /\ ui.pc = "top" /\ ui.deadline <= 0
    /\ IF ui.run
       THEN /\ run' = [run EXCEPT !.abort = TRUE]
            /\ ui' = [ui EXCEPT !.pc = "abort", !.run = FALSE]
            /\ RunOnly /\ UNCHANGED ctl
       ELSE NoRun /\ ui' = Return(ui, Summary(ui), "ok")
    /\ NoSave /\ UNCHANGED push

\* ... and leave: with the summary after the deadline, with what there is after a forced exit.
Aborted ==
    /\ ui.pc = "abort" /\ IsOver
    /\ ui' = Return(ui, IF ui.deadline <= 0 THEN Summary(ui) ELSE ui.result, "ok")
    /\ NoRun /\ NoSave /\ UNCHANGED push

AtKey == ui.pc = "top" /\ ui.deadline > 0

\* tui_quit_action(), also for Esc on the result and error screens.  (Settings captures every
\* key but Ctrl-C while it is open, and an interrupt closes it.)
tui_quit_action(ctrl_c) ==
    IF ui.state = "error" THEN "ExitError"
    ELSE IF ui.state = "completed" \/ ~ui.run THEN "ExitOk"
    ELSE IF Quitting THEN (IF ctrl_c THEN "ForceExit" ELSE "Ignore")
    ELSE "StartCancel"

KeyQuit(ctrl_c) ==
    /\ AtKey
    /\ LET action == tui_quit_action(ctrl_c) IN
       CASE action = "ExitError" -> NoRun /\ ui' = [ui EXCEPT !.pc = "finish", !.exit = "err"]
         [] action = "ExitOk" -> NoRun /\ ui' = Return(ui, ui.result, "ok")
         [] action = "ForceExit" ->
              /\ run' = [run EXCEPT !.abort = TRUE]
              /\ ui' = [ui EXCEPT !.pc = "abort", !.run = FALSE, !.deadline = Forever]
              /\ RunOnly /\ UNCHANGED ctl
         [] action = "StartCancel" ->
              /\ cancel
              /\ ui' = [ui EXCEPT !.deadline = TuiWait]
              /\ RunOnly /\ UNCHANGED run
         [] action = "Ignore" -> NoRun /\ UNCHANGED ui
    /\ NoSave /\ UNCHANGED push

\* 'p' (without an effect on the run unless the request is applied).
KeyPause ==
    /\ AtKey /\ ui.run /\ PauseResult = "applied" /\ ui.presses < MaxPresses
    /\ pause
    /\ ui' = [ui EXCEPT !.presses = @ + 1]
    /\ RunOnly /\ UNCHANGED run /\ NoSave /\ UNCHANGED push

\* A mutant: the counters of the old run stay for the fallback summary of the new one.
RestartFromKeepingBytes(next) ==
    /\ run.id < MaxRuns
    /\ IF ui.run THEN cancel ELSE UNCHANGED ctl
    /\ ui' = [ui EXCEPT !.pc = "restart", !.next = next, !.deadline = RestartWait, !.presses = 0]
    /\ RunOnly /\ UNCHANGED run /\ NoSave /\ UNCHANGED push

\* cancel_tui_run() on the current run, and its counters forgotten.
RestartFrom(next) ==
    /\ run.id < MaxRuns
    /\ IF ui.run THEN cancel ELSE UNCHANGED ctl
    /\ ui' = [ui EXCEPT !.pc = "restart", !.next = next,
                        !.deadline = RestartWait, !.bytes = 0, !.presses = 0]
    /\ RunOnly /\ UNCHANGED run /\ NoSave /\ UNCHANGED push

KeyRestart == AtKey /\ RestartFrom(ui.next)

\* Apply in Settings, offered once a test parameter was changed.
KeyApply == AtKey /\ \E c \in Confs \ {ui.next} : RestartFrom(c)

Restarting == ui.pc = "restart"

\* The old run did not stop in time: abort it, and wait for that.
RestartTimeout ==
    /\ Restarting /\ ui.run /\ ui.deadline <= 0 /\ ~IsOver /\ ~run.abort
    /\ run' = [run EXCEPT !.abort = TRUE]
    /\ RunOnly /\ UNCHANGED <<ctl, ui, push>> /\ NoSave

\* The old run is over, whatever it returned: reset_for_restart() and a new run.
Restarted ==
    /\ Restarting /\ (ui.run => IsOver)
    /\ Start(ui.next, run.id + 1)
    /\ ui' = [ui EXCEPT !.run = TRUE, !.state = "running", !.result = NoResult,
                        !.deadline = Forever, !.pc = "top"]
    /\ NoSave /\ UNCHANGED push

\* ClientMetrics::queue(): the delivery of one result.
queue(id) == push' = push \cup {id}
ServerResult == [kind |-> "server", id |-> run.id, bytes |-> 0]

\* Every update in the channel is taken and its bytes counted for the fallback summary.
Drained == IF ui.run THEN [ui EXCEPT !.bytes = @ + prog] ELSE ui

\* A run that has finished is taken: its result pushed and shown, or its error shown.  What it
\* sent after the updates were taken and before this look at it goes with its channel.
Poll ==
    /\ AtKey
    /\ prog' = IF ui.run THEN 0 ELSE prog
    /\ IF ~(ui.run /\ IsOver)
       THEN ui' = Drained /\ UNCHANGED push
       ELSE \E u \in {ui, Drained} :
            LET taken == [u EXCEPT !.run = FALSE] IN
            IF run.st = "ok"
            THEN /\ queue(run.id)
                 /\ ui' = IF Quitting THEN Return(taken, ServerResult, "ok")
                          ELSE [taken EXCEPT !.state = "completed", !.result = ServerResult]
            ELSE /\ UNCHANGED push
                 /\ ui' = IF Quitting THEN Return(taken, Summary(taken), "ok")
                          ELSE [taken EXCEPT !.state = "error"]
    /\ UNCHANGED <<conf, run, ctl, stop, held, tasks, up, down, srv, ghost>> /\ NoSave

-----------------------------------------------------------------------------
(* The plain mode.                                                           *)

\* The print task counts every update it takes.
PlainPrint ==
    /\ ui.mode = "plain" /\ prog > 0 /\ ui.pc \in {"wait", "stopping", "print"}
    /\ prog' = prog - 1
    /\ ui' = [ui EXCEPT !.bytes = @ + 1]
    /\ UNCHANGED <<conf, run, ctl, stop, held, tasks, up, down, srv, ghost, push>> /\ NoSave

\* The run ends by itself: an error ends the program, a result is printed.
PlainEnds ==
    /\ ui.pc = "wait" /\ IsOver
    /\ ui' = IF run.st = "ok" THEN [ui EXCEPT !.pc = "print", !.result = ServerResult]
             ELSE [ui EXCEPT !.pc = "done", !.exit = "err"]
    /\ NoRun /\ NoSave /\ UNCHANGED push

PlainInterrupt ==
    /\ ui.pc = "wait"
    /\ cancel
    /\ ui' = [ui EXCEPT !.pc = "stopping", !.deadline = TuiWait]
    /\ RunOnly /\ UNCHANGED <<run, push>> /\ NoSave

\* A second Ctrl-C while the run is stopping: exit(130).
PlainForce ==
    /\ ui.pc = "stopping"
    /\ ui' = [ui EXCEPT !.pc = "done", !.exit = "130"]
    /\ NoRun /\ NoSave /\ UNCHANGED push

\* The run has stopped, or the wait is over: its result, or the fallback from the counters.
PlainStopped ==
    /\ ui.pc = "stopping" /\ (IsOver \/ ui.deadline <= 0)
    /\ IF run.st = "ok"
       THEN NoRun /\ ui' = [ui EXCEPT !.pc = "print", !.result = ServerResult]
       ELSE /\ run' = [run EXCEPT !.abort = TRUE] /\ RunOnly /\ UNCHANGED ctl
            /\ ui' = IF ui.bytes = 0 THEN [ui EXCEPT !.pc = "done", !.exit = "130"]
                     ELSE [ui EXCEPT !.pc = "print", !.exit = "130",
                                     !.result = tui_fallback_result(ui)]
    /\ NoSave /\ UNCHANGED push

\* The print task ends with the run's sender; a fallback ends the program there.
PlainPrinted ==
    /\ ui.pc = "print" /\ IsOver /\ prog = 0
    /\ ui' = IF ui.exit = "130" THEN [ui EXCEPT !.pc = "done"] ELSE [ui EXCEPT !.pc = "save"]
    /\ NoRun /\ NoSave /\ UNCHANGED push

-----------------------------------------------------------------------------
(* After the loop, in both modes.                                            *)

\* The plain mode queues the metrics only now; the TUI did when it took the result.
AfterSave ==
    /\ ui' = [ui EXCEPT !.pc = "finish", !.exit = "ok"]
    /\ IF ui.mode = "plain" THEN queue(run.id) ELSE UNCHANGED push

\* The result file, if -o asks for one.  A save that fails ends the program with its error.
SaveResult ==
    /\ ui.pc = "save" /\ saving.st = "idle"
    /\ \/ SaveStart("result") /\ UNCHANGED <<ui, push>>
       \/ UNCHANGED saveVars /\ AfterSave
    /\ NoRun

ResultSaved ==
    /\ ui.pc = "save" /\ SaveIsOver
    /\ SaveEnd
    /\ IF saving.st = "saved" THEN AfterSave
       ELSE ui' = [ui EXCEPT !.pc = "done", !.exit = "err"] /\ UNCHANGED push
    /\ NoRun

\* push_metrics(): the attempts of one delivery end, confirmed or not, by its deadline.
PushEnds(i) ==
    /\ i \in push /\ ~Gone
    /\ push' = push \ {i}
    /\ NoRun /\ NoSave /\ UNCHANGED ui

\* ClientMetrics::finish(): wait for every delivery; Ctrl-C gives up on the rest.
Finish ==
    /\ ui.pc = "finish"
    /\ push = {}
    /\ \E changed \in BOOLEAN :          \* a palette or update-check edit
         ui' = [ui EXCEPT !.pc = IF ui.mode = "tui" /\ ui.exit = "ok" /\ changed
                                 THEN "prefs" ELSE "done"]
    /\ NoRun /\ NoSave /\ UNCHANGED push

FinishSkip ==
    /\ ui.pc = "finish" /\ push # {}
    /\ push' = {}
    /\ NoRun /\ NoSave /\ UNCHANGED ui

\* Preferences are saved only when they changed; a failure is ignored.
SavePrefs ==
    /\ ui.pc = "prefs" /\ saving.st = "idle"
    /\ SaveStart("prefs")
    /\ NoRun /\ UNCHANGED <<ui, push>>

PrefsSaved ==
    /\ ui.pc = "prefs" /\ SaveIsOver
    /\ ui' = [ui EXCEPT !.pc = "done"]
    /\ SaveEnd
    /\ NoRun /\ UNCHANGED push

\* The machine stops in the middle of a save.
Crash ==
    /\ ui.pc \in {"save", "prefs"}
    /\ SaveCrash
    /\ ui' = [ui EXCEPT !.pc = "crashed"]
    /\ NoRun /\ UNCHANGED push

-----------------------------------------------------------------------------
\* The program waits for a deadline of its own.
SessionDue ==
    ui.deadline <= 0 /\ (Restarting \/ ui.pc \in {"top", "stopping"})

Tick ==
    /\ ~Gone /\ ~SessionDue
    /\ ClientTick
    /\ ui' = [ui EXCEPT !.deadline = Lower(@)]
    /\ NoSave /\ UNCHANGED push

TuiStep ==
    \/ TopExpired \/ Aborted \/ RestartTimeout \/ Restarted \/ Poll
PlainStep == PlainPrint \/ PlainEnds \/ PlainStopped \/ PlainPrinted
EndingStep == SaveResult \/ ResultSaved \/ Finish \/ SavePrefs \/ PrefsSaved
UserKey ==
    \/ KeyQuit(TRUE) \/ KeyQuit(FALSE) \/ KeyPause \/ KeyRestart
    \/ KeyApply \/ PlainInterrupt \/ PlainForce \/ FinishSkip

\* What the program's main task does on its own.
MainStep ==
    \/ TuiStep \/ PlainStep \/ EndingStep
    \/ ~Gone /\ SaveStep /\ NoRun /\ UNCHANGED sessionVars

Next ==
    \/ ~Gone /\ ClientStep /\ ClientOnly
    \/ ~Gone /\ ServerStep /\ ClientOnly
    \/ Tick
    \/ MainStep \/ UserKey
    \/ \E i \in 1 .. MaxRuns : PushEnds(i)
    \/ Crash

Spec == Init /\ [][Next]_vars

(***************************************************************************)
(* Fairness: the program's own tasks are scheduled, its timers and saves   *)
(* end, a stream told to stop stops (module SendLoops), a delivery ends    *)
(* within its deadline.  Nothing is asked of the user, of the server or of *)
(* a write to it: the control loop may stay in a blocked write for good.   *)
(***************************************************************************)
FairSpec ==
    /\ Spec
    /\ WF_vars(Tick)
    /\ WF_vars(~Gone /\ RunStep /\ ClientOnly)
    /\ WF_vars(MainStep)
    /\ WF_vars(\E i \in 1 .. MaxRuns : PushEnds(i))
-----------------------------------------------------------------------------
(***************************************************************************)
(* The summary the user sees, the file that is saved and the metrics that  *)
(* are pushed are of the current run: the fallback counts exactly the      *)
(* updates this run reported (restarts in between, and updates still in    *)
(* the channel, make no difference), and only a result the server gave is  *)
(* saved or pushed.                                                        *)
(***************************************************************************)
SummaryIsOfThisRun ==
    /\ ui.run /\ ~Restarting => ui.bytes + prog = ghost.seen
    /\ ui.result.kind = "partial" =>
         ui.result.id = run.id /\ ui.result.bytes \in 1 .. ghost.seen
    /\ ui.result.kind = "server" => ui.result.id = run.id /\ run.st = "ok"
    /\ saving.of = "result" => ui.result.kind = "server"
    /\ \A i \in push : i <= run.id /\ (i = run.id => ui.result.kind = "server")

(***************************************************************************)
(* What a crash or a failed step leaves of the files the session saves.    *)
(***************************************************************************)
FilesSurviveCrash == SaveSurvivesCrash(ui.pc = "crashed")

(***************************************************************************)
(* A user who quits gets the terminal back, and one who restarts gets a    *)
(* new run: on a dead link, in the handshake, while paused, with a control *)
(* write that never ends, and however slow the deliveries are.             *)
(***************************************************************************)
QuitEnds ==
    /\ (Quitting \/ ui.pc \in {"abort", "stopping"}) ~> (Gone \/ Restarting)
    /\ Restarting ~> ~Restarting
=============================================================================
