---------------------------- MODULE ClientRun ----------------------------
(***************************************************************************)
(* One run of the client library (client.rs): Client::run from the         *)
(* handshake to its result, with the three controls the embedding program  *)
(* has over it (cancel(), pause(), dropping or aborting the run's future). *)
(* The select! loops of run_test() (TCP, UDP) and run_quic_session() are   *)
(* the same actions; conf.quic tells the few differences.                  *)
(*                                                                         *)
(* Deadlines are countdowns that Tick lowers.  A deadline is an instant,   *)
(* so it goes on counting while the test is paused; resuming adds the      *)
(* time paused back, as the code does.  Only MaxPause ticks of one pause   *)
(* are counted (on both sides of that sum), which loses nothing.           *)
(***************************************************************************)
EXTENDS Integers, Sequences, FiniteSets

CONSTANTS
    Confs,          \* the tests the user can ask for: see ConfType
    Streams,        \* data streams of a test
    Duration,       \* ticks a timed test lasts
    ResponseSlack,  \* the 30 s the server gets beyond the duration
    CancelWait,     \* CONTROL_CANCEL_RESULT_TIMEOUT
    JoinWait,       \* stream_join_timeout()
    CloseGrace,     \* QUIC_CLOSE_GRACE
    MaxPause,       \* ticks of one pause that are counted
    MaxIntervals,   \* interval reports per run
    ProgressCap     \* capacity of the progress channel

(***************************************************************************)
(* quic: run_quic() rather than run_test().  timed: a duration rather than *)
(* "until stopped".  budget: -n with client senders (finish_on_budget).    *)
(* paced: UDP download, whose progress the local clock emits.  pausable:   *)
(* the server advertised the pause_resume capability.                      *)
(***************************************************************************)
ConfType == [quic: BOOLEAN, timed: BOOLEAN, budget: BOOLEAN, paced: BOOLEAN, pausable: BOOLEAN]

ASSUME ClientAssumption ==
    /\ Confs \subseteq ConfType
    /\ {Streams, Duration, CancelWait, JoinWait, ProgressCap} \subseteq Nat \ {0}
    /\ {ResponseSlack, CloseGrace, MaxPause, MaxIntervals} \subseteq Nat

VARIABLES
    conf,    \* the configuration of the current run
    run,     \* the control loop's local state
    ctl,     \* the watch channels cancel() and pause() write to
    stop,    \* cancel_tx: the data streams are to stop
    held,    \* pause_tx: the data streams are to pause
    tasks,   \* running data stream tasks
    up,      \* control messages on their way to the server
    down,    \* control messages on their way to the client
    srv,     \* what the server is doing
    prog,    \* progress updates in the channel to the display
    ghost    \* history: [seen: updates put in that channel, ran: ticks the streams were not paused]

clientVars == <<conf, run, ctl, stop, held, tasks, up, down, srv, prog, ghost>>

Forever == 1000                  \* the deadline one year away
Over == {"ok", "err", "aborted"}
IsOver == run.st \in Over
NoChannels == [on |-> FALSE, cancel |-> FALSE, cancelNew |-> FALSE,
               pause |-> FALSE, pauseNew |-> FALSE]

local_stop_deadline(c) == IF c.timed THEN Duration ELSE Forever
timeout_duration(c) == IF c.timed THEN Duration + ResponseSlack ELSE Forever
Later(t, d) == IF t = Forever THEN t ELSE t + d

(***************************************************************************)
(* Client::new() and the spawned run(): everything a run keeps is its own. *)
(***************************************************************************)
NewRun(id) == [st |-> "handshake", id |-> id, left |-> Forever, local |-> Forever,
               paused |-> FALSE, pausedFor |-> 0, stopped |-> FALSE, finished |-> FALSE,
               out |-> "none", result |-> "err", abort |-> FALSE]

Start(c, id) ==
    /\ conf' = c
    /\ run' = NewRun(id)
    /\ ctl' = NoChannels
    /\ stop' = FALSE /\ held' = FALSE /\ tasks' = 0
    /\ up' = <<>> /\ down' = <<>>
    /\ srv' = "testing"
    /\ prog' = 0
    /\ ghost' = [seen |-> 0, ran |-> 0]

\* A run that returns or is dropped takes its clocks, the receivers of its channels and its
\* connection along; only its streams can outlive it.
Leave(st) ==
    /\ run' = [NewRun(run.id) EXCEPT !.st = st]
    /\ ctl' = NoChannels
    /\ up' = <<>> /\ down' = <<>> /\ srv' = "done" /\ held' = FALSE
    /\ ghost' = [ghost EXCEPT !.ran = 0]

-----------------------------------------------------------------------------
(* Connecting, and the public controls.                                      *)

\* The handshake (module Handshake) succeeds: the channels the public controls use are installed.
HandshakeOk ==
    /\ run.st = "handshake"
    /\ run' = [run EXCEPT !.st = "spawn"]
    /\ ctl' = [NoChannels EXCEPT !.on = TRUE]
    /\ UNCHANGED <<conf, stop, held, tasks, up, down, srv, prog, ghost>>

\* Connecting or the handshake fails, before there is a channel or a task.
HandshakeErr ==
    /\ run.st = "handshake"
    /\ Leave("err")
    /\ UNCHANGED <<conf, stop, tasks, prog>>

\* The data streams are up: both clocks start and the control loop begins.
StreamsUp ==
    /\ run.st = "spawn" /\ ~conf.quic
    /\ run' = [run EXCEPT !.st = "loop", !.left = timeout_duration(conf),
                          !.local = local_stop_deadline(conf)]
    /\ tasks' = Streams
    /\ UNCHANGED <<conf, ctl, stop, held, up, down, srv, prog, ghost>>

\* Each QUIC stream opens or accepts in a task of its own, so nothing can fail here; there is
\* no local clock.
QuicStreamsUp ==
    /\ run.st = "spawn" /\ conf.quic
    /\ run' = [run EXCEPT !.st = "loop", !.left = timeout_duration(conf)]
    /\ tasks' = Streams
    /\ UNCHANGED <<conf, ctl, stop, held, up, down, srv, prog, ghost>>

\* Setting them up fails; the streams already started are left to the cleanup guard.
StreamsFail ==
    /\ run.st = "spawn" /\ ~conf.quic
    /\ tasks' \in 0 .. (Streams - 1)
    /\ stop' = TRUE
    /\ Leave("err")
    /\ UNCHANGED <<conf, prog>>

\* Client::cancel(): an error when no run has installed its channel.
cancel == ctl' = IF ctl.on THEN [ctl EXCEPT !.cancel = TRUE, !.cancelNew = TRUE] ELSE ctl

\* Client::pause() says "applied" only when the request could be sent.
PauseResult ==
    IF run.st = "handshake" THEN "not_ready"
    ELSE IF ~conf.pausable THEN "unsupported"
    ELSE IF ctl.on THEN "applied" ELSE "not_ready"

pause ==
    ctl' = IF PauseResult = "applied"
           THEN [ctl EXCEPT !.pause = ~ctl.pause, !.pauseNew = TRUE] ELSE ctl

-----------------------------------------------------------------------------
(* The control loop.                                                         *)

InLoop == run.st = "loop"
Received(m) == InLoop /\ down # <<>> /\ Head(down) = m

\* Every exit of the loop: stop the streams and wait for them, for a bounded time.
Exit(result) ==
    /\ run' = [run EXCEPT !.st = "join", !.result = result, !.left = JoinWait]
    /\ stop' = TRUE

\* start_control_cancel_wait(): the wait for the Result is bounded even if the test was paused.
start_control_cancel_wait(r) ==
    [r EXCEPT !.left = CancelWait, !.paused = FALSE, !.pausedFor = 0]

\* send_progress_until_cancelled(): waits for room in the channel, but not past a cancel request.
SendProgress ==
    /\ run' = [run EXCEPT !.st = IF ctl.cancel \/ prog < ProgressCap THEN "loop" ELSE "send"]
    /\ IF ~ctl.cancel /\ prog < ProgressCap
       THEN prog' = prog + 1 /\ ghost' = [ghost EXCEPT !.seen = @ + 1]
       ELSE UNCHANGED <<prog, ghost>>
    /\ UNCHANGED <<conf, ctl, stop, held, tasks, up, down, srv>>

\* An Interval report arrives and goes to the display, except where the local clock paces it.
OnInterval ==
    /\ InLoop /\ srv = "testing" /\ down = <<>> /\ ~conf.paced
    /\ ghost.seen < MaxIntervals
    /\ SendProgress

\* The local one-second clock of a UDP download, silent once stopped or while paused.
LocalInterval ==
    /\ InLoop /\ conf.paced /\ ~run.stopped /\ ~run.paused
    /\ ghost.seen < MaxIntervals
    /\ SendProgress

\* The display has made room, or a cancel request drops the update.
SendEnds ==
    /\ run.st = "send" /\ (ctl.cancel \/ prog < ProgressCap)
    /\ SendProgress

OnResult ==
    /\ Received("Result")
    /\ Exit("ok")
    /\ down' = Tail(down)
    /\ UNCHANGED <<conf, ctl, held, tasks, up, srv, prog, ghost>>

\* An Error message, the end of the connection, and a reader that failed or exited.
OnFailure ==
    /\ Received("Error") \/ Received("Eof")
    /\ Exit("err")
    /\ down' = Tail(down)
    /\ UNCHANGED <<conf, ctl, held, tasks, up, srv, prog, ghost>>

\* The Result comes next: wait a short time for it.  Only the QUIC loop stops the streams here.
OnCancelled ==
    /\ Received("Cancelled")
    /\ run' = start_control_cancel_wait(run)
    /\ stop' = (stop \/ conf.quic)
    /\ down' = Tail(down)
    /\ UNCHANGED <<conf, ctl, held, tasks, up, srv, prog, ghost>>

\* send_control_cancel(): the local traffic stops first, then the server is told.
OnCancelRequest ==
    /\ InLoop /\ ctl.cancelNew
    /\ ctl' = [ctl EXCEPT !.cancelNew = FALSE]
    /\ run' = [start_control_cancel_wait(run) EXCEPT !.st = "write", !.out = "Cancel"]
    /\ stop' = TRUE
    /\ UNCHANGED <<conf, held, tasks, up, down, srv, prog, ghost>>

\* A mutant: resuming gives the paused time back to the response deadline only.
PauseClocksLocal(r, paused) ==
    IF paused THEN (IF r.paused THEN r ELSE [r EXCEPT !.paused = TRUE, !.pausedFor = 0])
    ELSE IF r.paused
         THEN [r EXCEPT !.paused = FALSE, !.pausedFor = 0, !.left = Later(@, r.pausedFor)]
         ELSE r

\* What a pause request does to the clocks: freeze them, or give the paused time back.
PauseClocks(r, paused) ==
    IF paused THEN (IF r.paused THEN r ELSE [r EXCEPT !.paused = TRUE, !.pausedFor = 0])
    ELSE IF r.paused
         THEN [r EXCEPT !.paused = FALSE, !.pausedFor = 0,
                        !.left = Later(@, r.pausedFor), !.local = Later(@, r.pausedFor)]
         ELSE r

OnPauseRequest ==
    /\ InLoop /\ ctl.pauseNew
    /\ ctl' = [ctl EXCEPT !.pauseNew = FALSE]
    /\ held' = ctl.pause
    /\ run' = IF conf.pausable
              THEN [PauseClocks(run, ctl.pause) EXCEPT
                       !.st = "write", !.out = IF ctl.pause THEN "Pause" ELSE "Resume"]
              ELSE PauseClocks(run, ctl.pause)
    /\ UNCHANGED <<conf, stop, tasks, up, down, srv, prog, ghost>>

\* The control write ends (or fails: ignored).  Only the first message that ends the test
\* matters to the server; what Pause and Resume do there is in module Reporting.
WriteDone ==
    /\ run.st = "write"
    /\ run' = [run EXCEPT !.st = "loop", !.out = "none"]
    /\ up' = IF srv = "testing" /\ up = <<>> /\ run.out \in {"Cancel", "Finish"}
             THEN <<run.out>> ELSE up
    /\ UNCHANGED <<conf, ctl, stop, held, tasks, down, srv, prog, ghost>>

\* Only the Cancel write shares the deadline of the wait for the Result.
WriteTimeout ==
    /\ run.st = "write" /\ run.out = "Cancel" /\ run.left <= 0
    /\ run' = [run EXCEPT !.st = "loop", !.out = "none"]
    /\ UNCHANGED <<conf, ctl, stop, held, tasks, up, down, srv, prog, ghost>>

\* The local end of a timed TCP or UDP test: stop sending, go on waiting for the Result.
LocalEndDue == InLoop /\ ~run.stopped /\ ~run.paused /\ run.local <= 0
LocalEnd ==
    /\ LocalEndDue
    /\ run' = [run EXCEPT !.stopped = TRUE]
    /\ stop' = TRUE
    /\ UNCHANGED <<conf, ctl, held, tasks, up, down, srv, prog, ghost>>

\* The last stream task has dropped its sender of sending_done: tell the server, once.
SendingDone ==
    /\ InLoop /\ conf.budget /\ ~run.finished /\ tasks = 0
    /\ run' = [run EXCEPT !.finished = TRUE, !.st = "write", !.out = "Finish"]
    /\ UNCHANGED <<conf, ctl, stop, held, tasks, up, down, srv, prog, ghost>>

\* "Timeout waiting for server response", gated off while paused.
ResponseDue == InLoop /\ ~run.paused /\ run.left <= 0
ResponseTimeout ==
    /\ ResponseDue
    /\ Exit("err")
    /\ UNCHANGED <<conf, ctl, held, tasks, up, down, srv, prog, ghost>>

-----------------------------------------------------------------------------
(* After the loop.                                                           *)

\* A successful QUIC run stays connected a moment, so that the Result is acknowledged.
AfterJoin ==
    IF conf.quic /\ run.result = "ok"
    THEN /\ run' = [run EXCEPT !.st = "closing", !.left = CloseGrace]
         /\ UNCHANGED <<ctl, up, down, srv, held, ghost>>
    ELSE Leave(run.result)

JoinDone ==
    /\ run.st = "join" /\ tasks = 0
    /\ AfterJoin
    /\ UNCHANGED <<conf, stop, tasks, prog>>

JoinTimeout ==
    /\ run.st = "join" /\ run.left <= 0
    /\ tasks' = 0
    /\ AfterJoin
    /\ UNCHANGED <<conf, stop, prog>>

\* The server closes the connection, or the grace is over.
Closed ==
    /\ run.st = "closing"
    /\ srv # "silent" \/ run.left <= 0
    /\ Leave(run.result)
    /\ UNCHANGED <<conf, stop, tasks, prog>>

\* A mutant: no cleanup guard, the streams are left as they are.
RunAbortedNoGuard ==
    /\ run.abort /\ ~IsOver
    /\ stop' = stop
    /\ tasks' \in IF run.st = "spawn" THEN 0 .. Streams ELSE {tasks}
    /\ Leave("aborted")
    /\ UNCHANGED <<conf, prog>>

\* The run's future is dropped: ClientRunCleanup (there from "spawn" on) stops the traffic.
RunAborted ==
    /\ run.abort /\ ~IsOver
    /\ stop' = (run.st # "handshake")
    /\ tasks' \in IF run.st = "spawn" THEN 0 .. Streams ELSE {tasks}
    /\ Leave("aborted")
    /\ UNCHANGED <<conf, prog>>

\* A stream task ends: told to stop, or at the end of its own time or budget.
TaskEnds ==
    /\ tasks > 0
    /\ stop \/ conf.budget \/ (conf.timed /\ ghost.ran >= Duration)
    /\ tasks' = tasks - 1
    /\ UNCHANGED <<conf, run, ctl, stop, held, up, down, srv, prog, ghost>>

-----------------------------------------------------------------------------
(* The server and the link, as the client sees them (module Reporting has    *)
(* the server's own control loop).                                           *)

Talking == srv = "testing" /\ run.st \notin {"handshake", "spawn"} \cup Over
ServerOnly == UNCHANGED <<conf, run, ctl, stop, held, tasks, prog, ghost>>

\* The test is over for the server: its time or byte budget ran out, or it failed.
ServerEnds ==
    /\ Talking
    /\ \E last \in {"Result", "Error", "Eof"} : down' = Append(down, last)
    /\ srv' = "done" /\ up' = <<>>
    /\ ServerOnly

ServerReads ==
    /\ Talking /\ up # <<>>
    /\ down' = down \o IF Head(up) = "Cancel" THEN <<"Cancelled", "Result">> ELSE <<"Result">>
    /\ srv' = "done" /\ up' = <<>>
    /\ ServerOnly

\* The link dies: nothing arrives any more, and a write may block for good.
LinkDies ==
    /\ Talking
    /\ srv' = "silent" /\ up' = <<>>
    /\ UNCHANGED down /\ ServerOnly

-----------------------------------------------------------------------------
(* Time.                                                                     *)

Lower(t) == IF t = Forever \/ t <= 0 THEN t ELSE t - 1
TickRun(r) ==
    IF ~r.paused THEN [r EXCEPT !.left = Lower(@), !.local = Lower(@)]
    ELSE IF r.pausedFor < MaxPause
         THEN [r EXCEPT !.pausedFor = @ + 1, !.left = Later(@, -1), !.local = Later(@, -1)]
         ELSE r

\* A deadline that is due and watched is handled before more time passes.
RunDue ==
    \/ LocalEndDue \/ ResponseDue
    \/ run.st = "write" /\ run.out = "Cancel" /\ run.left <= 0
    \/ run.st \in {"join", "closing"} /\ run.left <= 0

ClientTick ==
    /\ ~RunDue
    /\ run' = IF IsOver THEN run ELSE TickRun(run)
    /\ ghost' = [ghost EXCEPT !.ran =
                   IF run.st \in {"loop", "send", "write"} /\ ~held /\ @ < Duration
                   THEN @ + 1 ELSE @]
    /\ UNCHANGED <<conf, ctl, stop, held, tasks, up, down, srv, prog>>

\* The run's task.  Once aborted, it is dropped instead of polled.
SharedArms ==
    \/ OnInterval \/ SendEnds \/ OnResult \/ OnFailure \/ OnCancelled
    \/ OnCancelRequest \/ OnPauseRequest \/ WriteTimeout \/ SendingDone \/ ResponseTimeout
LoopStep == ~conf.quic /\ (SharedArms \/ LocalInterval \/ LocalEnd)
QuicLoopStep == conf.quic /\ SharedArms
EndStep == JoinDone \/ JoinTimeout \/ Closed
RunStep == (~run.abort /\ (LoopStep \/ QuicLoopStep \/ EndStep)) \/ RunAborted
ConnectStep ==
    /\ ~run.abort
    /\ HandshakeOk \/ HandshakeErr \/ StreamsUp \/ QuicStreamsUp \/ StreamsFail \/ WriteDone
ServerStep == ServerEnds \/ ServerReads \/ LinkDies
ClientStep == RunStep \/ ConnectStep \/ TaskEnds

-----------------------------------------------------------------------------
(***************************************************************************)
(* However a run ends (a result, an error, a timeout, streams that did not *)
(* come up, its future dropped in the middle of a write), the data streams *)
(* it leaves running have been told to stop: the Client object keeps the   *)
(* other end of the channel, so nothing else would tell them.              *)
(***************************************************************************)
NoStrayTraffic == IsOver /\ tasks > 0 => stop

(***************************************************************************)
(* The local clock ends the sending of a timed test only after the streams *)
(* were free to run for the whole duration: time spent paused, once or     *)
(* several times, is not taken from the test.                              *)
(***************************************************************************)
FullDuration == run.stopped => ghost.ran >= Duration \/ ctl.cancel
=============================================================================
