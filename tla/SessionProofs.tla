--------------------------- MODULE SessionProofs ---------------------------
(***************************************************************************)
(* Proofs about the client: what one run of the library leaves behind, its *)
(* clocks, the files the program saves and the summary it shows.  They     *)
(* hold for any number of streams, restarts, pauses and progress updates,  *)
(* any durations and every kind of test.                                   *)
(***************************************************************************)
EXTENDS Session, TLAPS

-----------------------------------------------------------------------------
(* The run: its shape, its traffic and its clocks.                           *)

InTest == {"loop", "send", "write"}
Starting == {"handshake", "spawn"}
RunPhases == Starting \cup InTest \cup {"join", "closing"} \cup Over
Outs == {"none", "Cancel", "Finish", "Pause", "Resume"}
Ups == {"Cancel", "Finish"}
Downs == {"Result", "Error", "Eof", "Cancelled"}

RunState ==
    [st : RunPhases, id : Nat, left : Int, local : Int, paused : BOOLEAN, pausedFor : Nat,
     stopped : BOOLEAN, finished : BOOLEAN, out : Outs, result : {"ok", "err"}, abort : BOOLEAN]

Channels == [on : BOOLEAN, cancel : BOOLEAN, cancelNew : BOOLEAN, pause : BOOLEAN,
             pauseNew : BOOLEAN]

RunShape ==
    /\ conf \in ConfType /\ run \in RunState /\ ctl \in Channels
    /\ stop \in BOOLEAN /\ held \in BOOLEAN /\ tasks \in Nat
    /\ up \in Seq(Ups) /\ down \in Seq(Downs)
    /\ srv \in {"testing", "done", "silent"}
    /\ prog \in Nat /\ ghost \in [seen : Nat, ran : Nat]

\* Streams run only between their start and the moment they are told to stop.
TrafficInv ==
    /\ run.st \in Starting => tasks = 0 /\ ~stop
    /\ run.st \in {"join", "closing"} => stop
    /\ IsOver /\ tasks > 0 => stop

\* A Cancel, and the server's answer to it, exist only after a cancel request.
CancelInv ==
    /\ run.st \in Starting => /\ up = <<>> /\ down = <<>> /\ run.out = "none"
                              /\ ~run.paused /\ ~held /\ ~run.stopped
    /\ ctl.cancelNew => ctl.cancel
    /\ run.out = "Cancel" => ctl.cancel
    /\ \A k \in 1..Len(up) : up[k] = "Cancel" => ctl.cancel
    /\ \A k \in 1..Len(down) : down[k] = "Cancelled" => ctl.cancel

\* What is left of the local clock once the time paused is given back.
TimeLeft(r) == r.local + (IF r.paused THEN r.pausedFor ELSE 0)

\* Until a cancel request the streams are paused when the clocks are, and the
\* time they ran and the time that is left make up the duration.
ClockInv ==
    /\ ctl.cancel \/ (held <=> run.paused)
    /\ run.st \in InTest =>
          \/ ctl.cancel \/ conf.quic \/ run.local = Forever
          \/ ghost.ran >= Duration \/ ghost.ran + TimeLeft(run) >= Duration
    /\ run.stopped => ghost.ran >= Duration \/ ctl.cancel

RunInv == RunShape /\ TrafficInv /\ CancelInv /\ ClockInv

-----------------------------------------------------------------------------
(* The saved files.                                                          *)

SaveStates == {"idle", "inspect", "temp", "write", "sync", "rename", "truncate", "overwrite",
               "saved", "failed"}

\* Nothing but the rename of the synced file changes a path in a writable
\* directory; the save belongs to the step of the program that waits for it.
SaveInv ==
    /\ saving \in [of : {"none", "result", "prefs"}, place : Places, st : SaveStates,
                   tmp : {"none", "torn", "cached", "new"}]
    /\ saving.of = "result" => ui.pc \in {"save", "crashed"}
    /\ saving.of = "prefs" => ui.pc \in {"prefs", "crashed"}
    /\ saving.of = "none" <=> saving.st = "idle"
    /\ saving.of = "none" => saving.place = "new"
    /\ saving.st = "rename" => saving.tmp = "new"
    /\ saving.st \in {"temp", "write", "sync", "rename"} => saving.place # "special"
    /\ saving.st \in {"truncate", "overwrite"} => saving.place \in {"special", "fixed"}
    /\ ui.pc # "crashed" /\ saving.place # "fixed" =>
          disk = IF saving.st = "saved" /\ saving.place # "special" THEN "new" ELSE Before
    /\ ui.pc = "crashed" /\ saving.place \in {"file", "new"} => disk \in {Before, "new"}

-----------------------------------------------------------------------------
(* The program's own state and its summary.                                  *)

Results == [kind : {"none", "partial", "server"}, id : Nat, bytes : Nat]
Pcs == {"top", "abort", "restart", "wait", "stopping", "print", "save", "finish", "prefs",
        "done", "crashed"}

UiState ==
    [mode : {"tui", "plain"}, pc : Pcs, run : BOOLEAN,
     state : {"running", "completed", "error"}, deadline : Int, bytes : Nat, result : Results,
     next : ConfType, presses : Nat, exit : {"none", "ok", "err", "130"}]

UiShape ==
    /\ ui \in UiState
    /\ ui.mode = "plain" => ui.run /\ ui.pc \notin {"top", "abort", "restart"}
    /\ ui.mode = "tui" => ui.pc \notin {"wait", "stopping", "print"}

\* The bytes counted are of this run, and so are the result and the deliveries.
SummaryInv ==
    /\ ui.bytes <= ghost.seen
    /\ ui.run /\ ui.pc # "restart" => ui.bytes + prog = ghost.seen
    /\ ui.pc = "restart" => ui.bytes = 0
    /\ ui.result.kind = "partial" => /\ ui.result.id = run.id
                                     /\ ui.result.bytes \in 1..ghost.seen
    /\ ui.result.kind = "server" => ui.result.id = run.id /\ run.st = "ok"
    /\ ui.pc = "save" \/ saving.of = "result" => ui.result.kind = "server"
    /\ ui.pc = "print" => ui.exit = "130" \/ ui.result.kind = "server"
    /\ ui.pc \in {"wait", "stopping", "print"} => push = {}
    /\ \A i \in push : i \in Nat /\ i <= run.id /\ (i = run.id => ui.result.kind = "server")

UiInv == UiShape /\ SaveInv /\ SummaryInv

SessionInv == RunInv /\ UiInv

-----------------------------------------------------------------------------
(* The steps of a run.                                                       *)

\* What RunInv says of the fields the steps read.
LEMMA RunFields ==
    ASSUME RunInv
    PROVE  /\ conf \in ConfType /\ run \in RunState /\ ctl \in Channels
           /\ run.st \in RunPhases /\ run.id \in Nat /\ run.left \in Int /\ run.local \in Int
           /\ run.pausedFor \in Nat
           /\ run.paused \in BOOLEAN /\ run.stopped \in BOOLEAN /\ run.finished \in BOOLEAN
           /\ run.abort \in BOOLEAN /\ run.out \in Outs
           /\ ctl.on \in BOOLEAN /\ ctl.cancel \in BOOLEAN /\ ctl.cancelNew \in BOOLEAN
           /\ ctl.pause \in BOOLEAN /\ ctl.pauseNew \in BOOLEAN
           /\ stop \in BOOLEAN /\ held \in BOOLEAN /\ tasks \in Nat /\ prog \in Nat
           /\ ghost \in [seen : Nat, ran : Nat] /\ ghost.seen \in Nat /\ ghost.ran \in Nat
           /\ up \in Seq(Ups) /\ down \in Seq(Downs) /\ srv \in {"testing", "done", "silent"}
           /\ Streams \in Nat \ {0} /\ Duration \in Nat \ {0} /\ CancelWait \in Nat
           /\ JoinWait \in Nat /\ CloseGrace \in Nat /\ MaxPause \in Nat /\ ResponseSlack \in Nat
  BY ClientAssumption DEF ClientAssumption, RunInv, RunShape, RunState, Channels

LEMMA NoMessages == <<>> \in Seq(Ups) /\ <<>> \in Seq(Downs)
  OBVIOUS

\* The phase of a run changes and its deadline with it.
LEMMA PhaseFields ==
    ASSUME NEW r \in RunState, NEW st \in RunPhases
    PROVE  LET s == [r EXCEPT !.st = st]
           IN  /\ s \in RunState /\ s.st = st /\ s.id = r.id /\ s.local = r.local
               /\ s.left = r.left /\ s.paused = r.paused /\ s.pausedFor = r.pausedFor
               /\ s.stopped = r.stopped /\ s.out = r.out /\ s.abort = r.abort
               /\ s.result = r.result
  BY DEF RunState

LEMMA NewRunFields ==
    ASSUME NEW id \in Nat
    PROVE  /\ NewRun(id) \in RunState /\ NewRun(id).st = "handshake" /\ NewRun(id).id = id
           /\ NewRun(id).paused = FALSE /\ NewRun(id).stopped = FALSE
           /\ NewRun(id).out = "none" /\ NewRun(id).local = Forever /\ NewRun(id).abort = FALSE
  BY DEF NewRun, RunState, RunPhases, Starting, Outs, Forever

LEMMA NoChannelsFields ==
    /\ NoChannels \in Channels /\ NoChannels.cancel = FALSE /\ NoChannels.cancelNew = FALSE
    /\ [NoChannels EXCEPT !.on = TRUE] \in Channels
    /\ [NoChannels EXCEPT !.on = TRUE].cancel = FALSE
    /\ [NoChannels EXCEPT !.on = TRUE].cancelNew = FALSE
  BY DEF NoChannels, Channels

\* A new run.
LEMMA StartKeeps ==
    ASSUME NEW c \in ConfType, NEW id \in Nat, Start(c, id)
    PROVE  RunInv'
<1>1. /\ conf' = c /\ run' = NewRun(id) /\ ctl' = NoChannels
      /\ stop' = FALSE /\ held' = FALSE /\ tasks' = 0 /\ up' = <<>> /\ down' = <<>>
      /\ srv' = "testing" /\ prog' = 0 /\ ghost' = [seen |-> 0, ran |-> 0]
  BY DEF Start
<1>2. /\ run' \in RunState /\ run'.st = "handshake" /\ run'.paused = FALSE
      /\ run'.stopped = FALSE /\ run'.out = "none" /\ ctl' \in Channels
      /\ ctl'.cancel = FALSE /\ ctl'.cancelNew = FALSE
  BY <1>1, NewRunFields, NoChannelsFields
<1>3. RunShape'
  BY <1>1, <1>2, NoMessages DEF RunShape
<1> QED
  BY <1>1, <1>2, <1>3
  DEF RunInv, TrafficInv, CancelInv, ClockInv, Starting, InTest, IsOver, Over

\* A run that returns, or whose future is dropped.
LEMMA LeaveKeeps ==
    ASSUME RunInv, NEW st \in Over, Leave(st), UNCHANGED <<conf, prog>>,
           tasks' \in Nat, stop' \in BOOLEAN, tasks' > 0 => stop'
    PROVE  RunInv'
<1>1. /\ run' = [NewRun(run.id) EXCEPT !.st = st] /\ ctl' = NoChannels
      /\ up' = <<>> /\ down' = <<>> /\ srv' = "done" /\ held' = FALSE
      /\ ghost' = [ghost EXCEPT !.ran = 0]
  BY DEF Leave
<1>2. /\ run' \in RunState /\ run'.st = st /\ run'.paused = FALSE
      /\ run'.stopped = FALSE /\ run'.out = "none"
  <2>1. st \in RunPhases /\ run.id \in Nat
    BY RunFields DEF RunPhases
  <2>2. QED
    <3>1. /\ NewRun(run.id) \in RunState /\ NewRun(run.id).paused = FALSE
          /\ NewRun(run.id).stopped = FALSE /\ NewRun(run.id).out = "none"
      BY <2>1, NewRunFields
    <3> QED
      BY <1>1, <2>1, <3>1, PhaseFields
<1>3. ctl' \in Channels /\ ctl'.cancel = FALSE /\ ctl'.cancelNew = FALSE
  BY <1>1, NoChannelsFields
<1>4. ghost' \in [seen : Nat, ran : Nat]
  BY <1>1, RunFields
<1>5. RunShape'
  BY <1>1, <1>2, <1>3, <1>4, RunFields, NoMessages DEF RunShape
<1>6. TrafficInv'
  BY <1>2 DEF TrafficInv, Starting, Over
<1> QED
  BY <1>1, <1>2, <1>3, <1>5, <1>6
  DEF RunInv, CancelInv, ClockInv, Starting, InTest, Over

\* Every exit of the control loop.
LEMMA ExitKeeps ==
    ASSUME RunInv, InLoop, NEW result \in {"ok", "err"}, Exit(result),
           UNCHANGED <<conf, ctl, held, tasks, up, srv, prog, ghost>>,
           down' = down \/ (down # <<>> /\ down' = Tail(down))
    PROVE  RunInv'
<1>1. /\ run' = [run EXCEPT !.st = "join", !.result = result, !.left = JoinWait] /\ stop' = TRUE
  BY DEF Exit
<1>2. /\ run' \in RunState /\ run'.st = "join" /\ run'.paused = run.paused
      /\ run'.stopped = run.stopped /\ run'.out = run.out
  <2>1. run \in RunState /\ "join" \in RunPhases /\ JoinWait \in Int
    BY RunFields DEF RunPhases
  <2> QED
    BY <1>1, <2>1 DEF RunState
<1>3. down' \in Seq(Downs) /\ \A k \in 1..Len(down') : \E j \in 1..Len(down) : down'[k] = down[j]
  <2>1. CASE down' = down
    BY <2>1, RunFields
  <2>2. CASE down # <<>> /\ down' = Tail(down)
    BY <2>2, RunFields
  <2> QED
    BY <2>1, <2>2
<1>4. RunShape'
  BY <1>1, <1>2, <1>3, RunFields DEF RunShape
<1>5. TrafficInv'
  BY <1>1, <1>2 DEF TrafficInv, Starting, IsOver, Over
<1>6. CancelInv'
  BY <1>2, <1>3 DEF RunInv, CancelInv, Starting
<1>7. ClockInv'
  BY <1>2 DEF RunInv, ClockInv, InTest
<1> QED
  BY <1>4, <1>5, <1>6, <1>7 DEF RunInv

\* A progress update, put in the channel, dropped or waiting for room.
LEMMA ProgressKeeps ==
    ASSUME RunInv, run.st \in {"loop", "send"}, SendProgress
    PROVE  RunInv'
<1> DEFINE st == IF ctl.cancel \/ prog < ProgressCap THEN "loop" ELSE "send"
<1>1. /\ run' = [run EXCEPT !.st = st]
      /\ UNCHANGED <<conf, ctl, stop, held, tasks, up, down, srv>>
      /\ \/ prog' = prog + 1 /\ ghost' = [ghost EXCEPT !.seen = @ + 1]
         \/ prog' = prog /\ ghost' = ghost
  BY DEF SendProgress
<1>2. st \in {"loop", "send"} /\ st \in RunPhases
  BY DEF RunPhases, InTest
<1> HIDE DEF st
<1>3. /\ run' \in RunState /\ run'.st = st /\ run'.paused = run.paused
      /\ run'.stopped = run.stopped /\ run'.out = run.out /\ run'.local = run.local
      /\ run'.pausedFor = run.pausedFor
  BY <1>1, <1>2, RunFields DEF RunState
<1>4. prog' \in Nat /\ ghost' \in [seen : Nat, ran : Nat] /\ ghost'.ran = ghost.ran
  <2>1. prog \in Nat /\ ghost \in [seen : Nat, ran : Nat]
    BY RunFields
  <2> QED
    BY <1>1, <2>1
<1>5. RunShape'
  BY <1>1, <1>3, <1>4, RunFields DEF RunShape
<1>6. TrafficInv'
  BY <1>1, <1>2, <1>3 DEF RunInv, TrafficInv, Starting, IsOver, Over
<1>7. CancelInv'
  BY <1>1, <1>2, <1>3 DEF RunInv, CancelInv, Starting
<1>8. ClockInv'
  BY <1>1, <1>2, <1>3, <1>4 DEF RunInv, ClockInv, InTest, TimeLeft
<1> QED
  BY <1>5, <1>6, <1>7, <1>8 DEF RunInv

\* The streams are up.
LEMMA StreamsUpStep ==
    ASSUME RunInv, StreamsUp \/ QuicStreamsUp
    PROVE  RunInv'
<1> DEFINE local == IF conf.quic THEN run.local ELSE local_stop_deadline(conf)
<1>1. /\ run.st = "spawn" /\ tasks' = Streams
      /\ UNCHANGED <<conf, ctl, stop, held, up, down, srv, prog, ghost>>
      /\ IF conf.quic THEN run' = [run EXCEPT !.st = "loop", !.left = timeout_duration(conf)]
         ELSE run' = [run EXCEPT !.st = "loop", !.left = timeout_duration(conf),
                                 !.local = local_stop_deadline(conf)]
  BY DEF StreamsUp, QuicStreamsUp
<1>2. /\ timeout_duration(conf) \in Int /\ local_stop_deadline(conf) \in Int
      /\ local_stop_deadline(conf) = Forever \/ local_stop_deadline(conf) = Duration
  BY RunFields DEF timeout_duration, local_stop_deadline, Forever
<1>3. /\ run' \in RunState /\ run'.st = "loop" /\ run'.paused = run.paused
      /\ run'.stopped = run.stopped /\ run'.out = run.out
      /\ ~conf.quic => run'.local = local_stop_deadline(conf)
  <2>1. run \in RunState /\ "loop" \in RunPhases
    BY RunFields DEF RunPhases, InTest
  <2>2. CASE conf.quic
    BY <1>1, <1>2, <2>1, <2>2 DEF RunState
  <2>3. CASE ~conf.quic
    BY <1>1, <1>2, <2>1, <2>3 DEF RunState
  <2> QED
    BY <2>2, <2>3
<1>4. RunShape'
  BY <1>1, <1>3, RunFields DEF RunShape
<1>5. TrafficInv' /\ CancelInv'
  BY <1>1, <1>3 DEF RunInv, TrafficInv, CancelInv, Starting, IsOver, Over
<1>6. ClockInv'
  <2>1. run.paused = FALSE /\ run.stopped = FALSE /\ held = FALSE
    BY <1>1, RunFields DEF RunInv, CancelInv, Starting
  <2>2. conf.quic \/ run'.local = Forever \/ ghost.ran + TimeLeft(run') >= Duration
    <3>1. ghost.ran \in Nat /\ Duration \in Nat
      BY RunFields
    <3>2. ~conf.quic => TimeLeft(run') = run'.local
      <4>1. ~conf.quic => run'.local \in Int
        BY <1>2, <1>3
      <4> QED
        BY <1>3, <2>1, <4>1 DEF TimeLeft
    <3> QED
      BY <1>2, <1>3, <3>1, <3>2
  <2> QED
    BY <1>1, <1>3, <2>1, <2>2 DEF ClockInv
<1> QED
  BY <1>4, <1>5, <1>6 DEF RunInv

\* A message of the server, or a cancel request, starts the wait for the Result.
LEMMA CancelWaitFields ==
    ASSUME NEW r \in RunState
    PROVE  LET s == start_control_cancel_wait(r)
           IN  /\ s \in RunState /\ s.st = r.st /\ s.local = r.local /\ s.paused = FALSE
               /\ s.stopped = r.stopped /\ s.out = r.out
<1>1. CancelWait \in Int
  BY ClientAssumption DEF ClientAssumption
<1> QED
  BY <1>1 DEF start_control_cancel_wait, RunState

LEMMA OnCancelledStep ==
    ASSUME RunInv, OnCancelled
    PROVE  RunInv'
<1>1. /\ run.st = "loop" /\ down # <<>> /\ Head(down) = "Cancelled" /\ down' = Tail(down)
      /\ run' = start_control_cancel_wait(run) /\ stop' = (stop \/ conf.quic)
      /\ UNCHANGED <<conf, ctl, held, tasks, up, srv, prog, ghost>>
  BY DEF OnCancelled, Received, InLoop
<1>2. /\ run' \in RunState /\ run'.st = "loop" /\ run'.stopped = run.stopped
      /\ run'.out = run.out
  BY <1>1, RunFields, CancelWaitFields
<1>3. ctl.cancel = TRUE
  BY <1>1, RunFields DEF RunInv, CancelInv
<1>4. down' \in Seq(Downs) /\ stop' \in BOOLEAN
  BY <1>1, RunFields
<1>5. RunShape'
  BY <1>1, <1>2, <1>4, RunFields DEF RunShape
<1> QED
  BY <1>1, <1>2, <1>3, <1>5
  DEF RunInv, TrafficInv, CancelInv, ClockInv, Starting, IsOver, Over

LEMMA OnCancelRequestStep ==
    ASSUME RunInv, OnCancelRequest
    PROVE  RunInv'
<1>1. /\ run.st = "loop" /\ ctl.cancelNew /\ ctl' = [ctl EXCEPT !.cancelNew = FALSE]
      /\ run' = [start_control_cancel_wait(run) EXCEPT !.st = "write", !.out = "Cancel"]
      /\ stop' = TRUE
      /\ UNCHANGED <<conf, held, tasks, up, down, srv, prog, ghost>>
  BY DEF OnCancelRequest, InLoop
<1>2. /\ run' \in RunState /\ run'.st = "write"
  <2>1. start_control_cancel_wait(run) \in RunState /\ "write" \in RunPhases /\ "Cancel" \in Outs
    BY RunFields, CancelWaitFields DEF RunPhases, InTest, Outs
  <2> QED
    BY <1>1, <2>1 DEF RunState
<1>3. ctl' \in Channels /\ ctl'.cancel = TRUE
  BY <1>1, RunFields DEF RunInv, CancelInv, Channels
<1>4. RunShape'
  BY <1>1, <1>2, <1>3, RunFields DEF RunShape
<1> QED
  BY <1>1, <1>2, <1>3, <1>4
  DEF RunInv, TrafficInv, CancelInv, ClockInv, Starting, IsOver, Over

\* A pause freezes the clocks, a resume gives the paused time back.
LEMMA PauseClocksFields ==
    ASSUME NEW r \in RunState, NEW paused \in BOOLEAN
    PROVE  LET s == PauseClocks(r, paused)
           IN  /\ s \in RunState /\ s.st = r.st /\ s.paused = paused
               /\ s.stopped = r.stopped /\ s.out = r.out
               /\ r.local = Forever => s.local = Forever
               /\ s.local = Forever \/ TimeLeft(s) = TimeLeft(r)
<1> DEFINE s == PauseClocks(r, paused)
<1>1. /\ r.local \in Int /\ r.left \in Int /\ r.pausedFor \in Nat /\ r.paused \in BOOLEAN
      /\ Forever \in Int
  BY DEF RunState, Forever
<1>2. CASE paused = TRUE /\ r.paused = TRUE
  BY <1>1, <1>2 DEF PauseClocks
<1>3. CASE paused = TRUE /\ r.paused = FALSE
  <2>1. s = [r EXCEPT !.paused = TRUE, !.pausedFor = 0]
    BY <1>3 DEF PauseClocks
  <2> HIDE DEF s
  <2>2. s \in RunState /\ s.st = r.st /\ s.paused = TRUE /\ s.stopped = r.stopped
        /\ s.out = r.out /\ s.local = r.local /\ s.pausedFor = 0
    BY <2>1 DEF RunState
  <2>3. TimeLeft(s) = TimeLeft(r)
    BY <1>1, <1>3, <2>2 DEF TimeLeft
  <2> QED
    BY <1>3, <2>2, <2>3 DEF s
<1>4. CASE paused = FALSE /\ r.paused = TRUE
  <2>1. s = [r EXCEPT !.paused = FALSE, !.pausedFor = 0,
                      !.left = Later(r.left, r.pausedFor), !.local = Later(r.local, r.pausedFor)]
    BY <1>4 DEF PauseClocks, RunState
  <2> HIDE DEF s
  <2>2. Later(r.left, r.pausedFor) \in Int /\ Later(r.local, r.pausedFor) \in Int
    BY <1>1 DEF Later
  <2>3. s \in RunState /\ s.st = r.st /\ s.paused = FALSE /\ s.stopped = r.stopped
        /\ s.out = r.out /\ s.local = Later(r.local, r.pausedFor)
    BY <2>1, <2>2 DEF RunState
  <2>4. /\ r.local = Forever => s.local = Forever
        /\ s.local = Forever \/ TimeLeft(s) = TimeLeft(r)
    BY <1>1, <1>4, <2>3 DEF TimeLeft, Later
  <2> QED
    BY <1>4, <2>3, <2>4 DEF s
<1>5. CASE paused = FALSE /\ r.paused = FALSE
  BY <1>1, <1>5 DEF PauseClocks
<1> QED
  BY <1>1, <1>2, <1>3, <1>4, <1>5

LEMMA OnPauseRequestStep ==
    ASSUME RunInv, OnPauseRequest
    PROVE  RunInv'
<1> DEFINE s == PauseClocks(run, ctl.pause)
           out == IF ctl.pause THEN "Pause" ELSE "Resume"
<1>1. /\ run.st = "loop" /\ ctl' = [ctl EXCEPT !.pauseNew = FALSE] /\ held' = ctl.pause
      /\ run' = IF conf.pausable THEN [s EXCEPT !.st = "write", !.out = out] ELSE s
      /\ UNCHANGED <<conf, stop, tasks, up, down, srv, prog, ghost>>
  BY DEF OnPauseRequest, InLoop
<1>2. /\ s \in RunState /\ s.st = "loop" /\ s.paused = ctl.pause
      /\ s.stopped = run.stopped /\ s.out = run.out
      /\ run.local = Forever => s.local = Forever
      /\ s.local = Forever \/ TimeLeft(s) = TimeLeft(run)
  BY <1>1, RunFields, PauseClocksFields
<1>3. out \in Outs /\ out # "Cancel" /\ "write" \in RunPhases
  BY DEF Outs, RunPhases, InTest
<1> HIDE DEF s, out
<1>4. /\ run' \in RunState /\ run'.st \in {"loop", "write"} /\ run'.paused = ctl.pause
      /\ run'.stopped = run.stopped /\ (run'.out = "Cancel" => run.out = "Cancel")
      /\ run.local = Forever => run'.local = Forever
      /\ run'.local = Forever \/ TimeLeft(run') = TimeLeft(run)
  <2>1. CASE conf.pausable
    <3>1. run' = [s EXCEPT !.st = "write", !.out = out]
      BY <1>1, <2>1
    <3>2. /\ run' \in RunState /\ run'.st = "write" /\ run'.out = out /\ run'.paused = s.paused
          /\ run'.stopped = s.stopped /\ run'.local = s.local /\ run'.pausedFor = s.pausedFor
      BY <1>2, <1>3, <3>1 DEF RunState
    <3> QED
      BY <1>2, <1>3, <3>2 DEF TimeLeft
  <2>2. CASE ~conf.pausable
    <3>1. run' = s
      BY <1>1, <2>2
    <3> QED
      BY <1>2, <3>1
  <2> QED
    BY <2>1, <2>2
<1>5. /\ ctl' \in Channels /\ ctl'.cancel = ctl.cancel /\ ctl'.cancelNew = ctl.cancelNew
  BY <1>1, RunFields DEF Channels
<1>6. RunShape'
  BY <1>1, <1>4, <1>5, RunFields DEF RunShape
<1>7. TrafficInv' /\ CancelInv'
  BY <1>1, <1>4, <1>5 DEF RunInv, TrafficInv, CancelInv, Starting, IsOver, Over
<1>8. ClockInv'
  <2>1. held' <=> run'.paused
    BY <1>1, <1>4
  <2>2. \/ ctl'.cancel \/ conf'.quic \/ run'.local = Forever
        \/ ghost'.ran >= Duration \/ ghost'.ran + TimeLeft(run') >= Duration
    BY <1>1, <1>4, <1>5 DEF RunInv, ClockInv, InTest
  <2> QED
    BY <1>1, <1>4, <1>5, <2>1, <2>2 DEF RunInv, ClockInv
<1> QED
  BY <1>6, <1>7, <1>8 DEF RunInv

\* The control write ends, or is given up.
LEMMA WriteEndsKeeps ==
    ASSUME RunInv, run.st = "write", run' = [run EXCEPT !.st = "loop", !.out = "none"],
           up' = up \/ (run.out \in {"Cancel", "Finish"} /\ up' = <<run.out>>),
           UNCHANGED <<conf, ctl, stop, held, tasks, down, srv, prog, ghost>>
    PROVE  RunInv'
<1>1. /\ run' \in RunState /\ run'.st = "loop" /\ run'.paused = run.paused
      /\ run'.stopped = run.stopped /\ run'.out = "none" /\ run'.local = run.local
      /\ run'.pausedFor = run.pausedFor
  <2>1. run \in RunState /\ "loop" \in RunPhases /\ "none" \in Outs
    BY RunFields DEF RunPhases, InTest, Outs
  <2> QED
    BY <2>1 DEF RunState
<1>2. /\ up' \in Seq(Ups)
      /\ \A k \in 1..Len(up') : up'[k] = "Cancel" => ctl.cancel
  <2>1. CASE up' = up
    BY <2>1, RunFields DEF RunInv, CancelInv
  <2>2. CASE run.out \in {"Cancel", "Finish"} /\ up' = <<run.out>>
    BY <2>2 DEF RunInv, CancelInv, Ups
  <2> QED
    BY <2>1, <2>2
<1>3. RunShape'
  BY <1>1, <1>2, RunFields DEF RunShape
<1>4. TrafficInv' /\ CancelInv'
  BY <1>1, <1>2 DEF RunInv, TrafficInv, CancelInv, Starting, IsOver, Over
<1>5. ClockInv'
  BY <1>1 DEF RunInv, ClockInv, InTest, TimeLeft
<1> QED
  BY <1>3, <1>4, <1>5 DEF RunInv

\* The streams have run for the whole duration, or a cancel request came.
LEMMA LocalEndStep ==
    ASSUME RunInv, LocalEnd, ~conf.quic
    PROVE  RunInv'
<1>1. /\ run.st = "loop" /\ ~run.paused /\ run.local <= 0 /\ stop' = TRUE
      /\ run' = [run EXCEPT !.stopped = TRUE]
      /\ UNCHANGED <<conf, ctl, held, tasks, up, down, srv, prog, ghost>>
  BY DEF LocalEnd, LocalEndDue, InLoop
<1>2. /\ run' \in RunState /\ run'.st = "loop" /\ run'.paused = run.paused
      /\ run'.stopped = TRUE /\ run'.out = run.out /\ run'.local = run.local
      /\ run'.pausedFor = run.pausedFor
  BY <1>1, RunFields DEF RunState
<1>3. ghost.ran >= Duration \/ ctl.cancel
  <2>1. run.local \in Int /\ ghost.ran \in Nat /\ Duration \in Nat
    BY RunFields
  <2>2. run.local # Forever /\ TimeLeft(run) = run.local
    BY <1>1, <2>1 DEF Forever, TimeLeft
  <2> QED
    BY <1>1, <2>1, <2>2 DEF RunInv, ClockInv, InTest
<1>4. RunShape'
  BY <1>1, <1>2, RunFields DEF RunShape
<1>5. TrafficInv' /\ CancelInv'
  BY <1>1, <1>2 DEF RunInv, TrafficInv, CancelInv, Starting, IsOver, Over
<1>6. ClockInv'
  BY <1>1, <1>2, <1>3 DEF RunInv, ClockInv
<1> QED
  BY <1>4, <1>5, <1>6 DEF RunInv

LEMMA SendingDoneStep ==
    ASSUME RunInv, SendingDone
    PROVE  RunInv'
<1>1. /\ run.st = "loop"
      /\ run' = [run EXCEPT !.finished = TRUE, !.st = "write", !.out = "Finish"]
      /\ UNCHANGED <<conf, ctl, stop, held, tasks, up, down, srv, prog, ghost>>
  BY DEF SendingDone, InLoop
<1>2. /\ run' \in RunState /\ run'.st = "write" /\ run'.paused = run.paused
      /\ run'.stopped = run.stopped /\ run'.out = "Finish" /\ run'.local = run.local
      /\ run'.pausedFor = run.pausedFor
  <2>1. run \in RunState /\ "write" \in RunPhases /\ "Finish" \in Outs
    BY RunFields DEF RunPhases, InTest, Outs
  <2> QED
    BY <1>1, <2>1 DEF RunState
<1>3. RunShape'
  BY <1>1, <1>2, RunFields DEF RunShape
<1>4. TrafficInv' /\ CancelInv'
  BY <1>1, <1>2 DEF RunInv, TrafficInv, CancelInv, Starting, IsOver, Over
<1>5. ClockInv'
  BY <1>1, <1>2 DEF RunInv, ClockInv, InTest, TimeLeft
<1> QED
  BY <1>3, <1>4, <1>5 DEF RunInv

\* The join after the loop: the result is returned, or (QUIC) the connection
\* is kept for a moment.
LEMMA AfterJoinKeeps ==
    ASSUME RunInv, run.st = "join", AfterJoin, UNCHANGED <<conf, stop, prog>>,
           tasks' \in Nat, tasks' <= tasks
    PROVE  RunInv'
<1>1. stop = TRUE /\ run.result \in {"ok", "err"}
  BY RunFields DEF RunInv, TrafficInv, RunState
<1>2. CASE Leave(run.result)
  BY <1>1, <1>2, LeaveKeeps DEF Over
<1>3. CASE /\ run' = [run EXCEPT !.st = "closing", !.left = CloseGrace]
           /\ UNCHANGED <<ctl, up, down, srv, held, ghost>>
  <2>1. /\ run' \in RunState /\ run'.st = "closing" /\ run'.paused = run.paused
        /\ run'.stopped = run.stopped /\ run'.out = run.out
    <3>1. run \in RunState /\ "closing" \in RunPhases /\ CloseGrace \in Int
      BY RunFields DEF RunPhases
    <3> QED
      BY <1>3, <3>1 DEF RunState
  <2>2. RunShape'
    BY <1>3, <2>1, RunFields DEF RunShape
  <2> QED
    BY <1>1, <1>3, <2>1, <2>2
    DEF RunInv, TrafficInv, CancelInv, ClockInv, Starting, InTest, IsOver, Over
<1> QED
  BY <1>2, <1>3 DEF AfterJoin

LEMMA RunAbortedStep ==
    ASSUME RunInv, RunAborted
    PROVE  RunInv'
<1>1. /\ stop' = (run.st # "handshake") /\ Leave("aborted") /\ UNCHANGED <<conf, prog>>
      /\ tasks' \in IF run.st = "spawn" THEN 0 .. Streams ELSE {tasks}
  BY DEF RunAborted
<1>2. tasks' \in Nat /\ stop' \in BOOLEAN
  BY <1>1, RunFields
<1>3. run.st = "handshake" => tasks' = 0
  BY <1>1 DEF RunInv, TrafficInv, Starting
<1>4. tasks' > 0 => stop'
  <2>1. CASE run.st = "handshake"
    BY <1>3, <2>1
  <2>2. CASE run.st # "handshake"
    BY <1>1, <2>2
  <2> QED
    BY <2>1, <2>2
<1>5. "aborted" \in Over
  BY DEF Over
<1> QED
  BY <1>1, <1>2, <1>4, <1>5, LeaveKeeps

LEMMA TaskEndsStep ==
    ASSUME RunInv, TaskEnds
    PROVE  RunInv'
<1>1. /\ tasks > 0 /\ tasks' = tasks - 1
      /\ UNCHANGED <<conf, run, ctl, stop, held, up, down, srv, prog, ghost>>
  BY DEF TaskEnds
<1>2. tasks' \in Nat
  BY <1>1, RunFields
<1>3. RunShape'
  BY <1>1, <1>2, RunFields DEF RunShape
<1>4. TrafficInv'
  <2>1. run.st \notin Starting
    BY <1>1 DEF RunInv, TrafficInv
  <2> QED
    BY <1>1, <2>1 DEF RunInv, TrafficInv, IsOver
<1> QED
  BY <1>1, <1>3, <1>4 DEF RunInv, CancelInv, ClockInv

\* What the server sends: a Cancelled only for a Cancel.
LEMMA ServerKeeps ==
    ASSUME RunInv, ServerStep
    PROVE  RunInv'
<1>1. /\ UNCHANGED <<conf, run, ctl, stop, held, tasks, prog, ghost>> /\ up' = <<>>
      /\ srv' \in {"done", "silent"} /\ run.st \notin Starting
  BY DEF ServerStep, ServerEnds, ServerReads, LinkDies, ServerOnly, Talking, Starting
<1>2. /\ down' \in Seq(Downs)
      /\ \A k \in 1..Len(down') : down'[k] = "Cancelled" => ctl.cancel
  <2>0. down \in Seq(Downs) /\ \A k \in 1..Len(down) : down[k] = "Cancelled" => ctl.cancel
    BY RunFields DEF RunInv, CancelInv
  <2>1. CASE ServerEnds
    <3>1. PICK m \in {"Result", "Error", "Eof"} : down' = Append(down, m)
      BY <2>1 DEF ServerEnds
    <3>2. m \in Downs
      BY DEF Downs
    <3> QED
      BY <2>0, <3>1, <3>2
  <2>2. CASE ServerReads
    <3> DEFINE answer == IF Head(up) = "Cancel" THEN <<"Cancelled", "Result">> ELSE <<"Result">>
    <3>1. down' = down \o answer /\ up # <<>>
      BY <2>2 DEF ServerReads
    <3>2. Head(up) = "Cancel" => ctl.cancel
      <4>1. up \in Seq(Ups)
        BY RunFields
      <4>2. Len(up) >= 1 /\ Head(up) = up[1]
        BY <3>1, <4>1
      <4> QED
        BY <4>1, <4>2 DEF RunInv, CancelInv
    <3>3. /\ answer \in Seq(Downs)
          /\ \A k \in 1..Len(answer) : answer[k] = "Cancelled" => ctl.cancel
      BY <3>2 DEF Downs
    <3> HIDE DEF answer
    <3> QED
      BY <2>0, <3>1, <3>3
  <2>3. CASE LinkDies
    BY <2>0, <2>3 DEF LinkDies
  <2> QED
    BY <2>1, <2>2, <2>3 DEF ServerStep
<1>3. RunShape'
  BY <1>1, <1>2, RunFields, NoMessages DEF RunShape
<1>4. CancelInv'
  BY <1>1, <1>2 DEF RunInv, CancelInv
<1> QED
  BY <1>1, <1>3, <1>4 DEF RunInv, TrafficInv, ClockInv, IsOver

\* Time passes for the run: an unpaused tick takes from the local clock what
\* the streams ran, a paused one is counted as such.
LEMMA TickRunFields ==
    ASSUME NEW r \in RunState
    PROVE  LET s == TickRun(r)
           IN  /\ s \in RunState /\ s.st = r.st /\ s.paused = r.paused /\ s.id = r.id
               /\ s.stopped = r.stopped /\ s.out = r.out
               /\ r.local = Forever => s.local = Forever
               /\ r.paused => s.local = Forever \/ TimeLeft(s) = TimeLeft(r)
               /\ ~r.paused => TimeLeft(s) >= TimeLeft(r) - 1
<1> DEFINE s == TickRun(r)
<1>1. /\ r.local \in Int /\ r.left \in Int /\ r.pausedFor \in Nat /\ r.paused \in BOOLEAN
      /\ Forever \in Int /\ MaxPause \in Nat
  BY ClientAssumption DEF RunState, Forever, ClientAssumption
<1>2. CASE r.paused = FALSE
  <2>1. s = [r EXCEPT !.left = Lower(r.left), !.local = Lower(r.local)]
    BY <1>2 DEF TickRun, RunState
  <2> HIDE DEF s
  <2>2. Lower(r.left) \in Int /\ Lower(r.local) \in Int /\ Lower(r.local) >= r.local - 1
        /\ Lower(Forever) = Forever
    BY <1>1 DEF Lower
  <2>3. s \in RunState /\ s.st = r.st /\ s.paused = r.paused /\ s.stopped = r.stopped
        /\ s.id = r.id /\ s.out = r.out /\ s.local = Lower(r.local)
    BY <2>1, <2>2 DEF RunState
  <2>4. TimeLeft(s) >= TimeLeft(r) - 1
    BY <1>1, <1>2, <2>2, <2>3 DEF TimeLeft
  <2> QED
    BY <1>2, <2>2, <2>3, <2>4 DEF s
<1>3. CASE r.paused = TRUE /\ r.pausedFor < MaxPause
  <2>1. s = [r EXCEPT !.pausedFor = r.pausedFor + 1, !.left = Later(r.left, -1),
                      !.local = Later(r.local, -1)]
    BY <1>3 DEF TickRun, RunState
  <2> HIDE DEF s
  <2>2. /\ Later(r.left, -1) \in Int /\ Later(r.local, -1) \in Int /\ r.pausedFor + 1 \in Nat
        /\ r.local = Forever => Later(r.local, -1) = Forever
        /\ r.local # Forever => Later(r.local, -1) = r.local - 1
    BY <1>1 DEF Later
  <2>3. /\ s \in RunState /\ s.st = r.st /\ s.paused = r.paused /\ s.stopped = r.stopped
        /\ s.id = r.id /\ s.out = r.out /\ s.local = Later(r.local, -1)
        /\ s.pausedFor = r.pausedFor + 1
    BY <2>1, <2>2 DEF RunState
  <2>4. s.local = Forever \/ TimeLeft(s) = TimeLeft(r)
    BY <1>1, <1>3, <2>2, <2>3 DEF TimeLeft
  <2> QED
    BY <1>3, <2>2, <2>3, <2>4 DEF s
<1>4. CASE r.paused = TRUE /\ ~(r.pausedFor < MaxPause)
  BY <1>1, <1>4 DEF TickRun
<1> QED
  BY <1>1, <1>2, <1>3, <1>4

LEMMA ClientTickStep ==
    ASSUME RunInv, ClientTick
    PROVE  RunInv'
<1> DEFINE ran == IF run.st \in InTest /\ ~held /\ ghost.ran < Duration
                  THEN ghost.ran + 1 ELSE ghost.ran
<1>1. /\ run' = IF IsOver THEN run ELSE TickRun(run)
      /\ ghost' = [ghost EXCEPT !.ran = ran]
      /\ UNCHANGED <<conf, ctl, stop, held, tasks, up, down, srv, prog>>
  BY RunFields DEF ClientTick, InTest
<1>2. ghost.ran \in Nat /\ Duration \in Nat /\ run.local \in Int /\ run.pausedFor \in Nat
      /\ run \in RunState /\ ghost \in [seen : Nat, ran : Nat] /\ run.paused \in BOOLEAN
  BY RunFields
<1>3. ran \in Nat /\ ran >= ghost.ran
  BY <1>2
<1>4. ghost' \in [seen : Nat, ran : Nat] /\ ghost'.ran = ran
  <2> HIDE DEF ran
  <2> QED
    BY <1>1, <1>2, <1>3
<1>5. /\ run' \in RunState /\ run'.st = run.st /\ run'.paused = run.paused
      /\ run'.stopped = run.stopped /\ run'.out = run.out
      /\ run.local = Forever => run'.local = Forever
      /\ run.paused => run'.local = Forever \/ TimeLeft(run') = TimeLeft(run)
      /\ ~run.paused => TimeLeft(run') >= TimeLeft(run) - 1
  <2>1. CASE IsOver
    <3>1. run' = run /\ TimeLeft(run) \in Int
      BY <1>1, <1>2, <2>1 DEF TimeLeft
    <3> QED
      BY <1>2, <3>1
  <2>2. CASE ~IsOver
    BY <1>1, <1>2, <2>2, TickRunFields
  <2> QED
    BY <2>1, <2>2
<1>6. RunShape'
  BY <1>1, <1>4, <1>5, RunFields DEF RunShape
<1>7. TrafficInv' /\ CancelInv'
  BY <1>1, <1>5 DEF RunInv, TrafficInv, CancelInv, IsOver
<1>8. ClockInv'
  <2>1. ASSUME run.st \in InTest, ~ctl.cancel, ~conf.quic, run'.local # Forever,
               ~(ran >= Duration)
        PROVE  ran + TimeLeft(run') >= Duration
    <3>1. held <=> run.paused
      BY <2>1 DEF RunInv, ClockInv
    <3>2. ghost.ran + TimeLeft(run) >= Duration
      BY <1>2, <1>3, <1>5, <2>1 DEF RunInv, ClockInv
    <3>3. TimeLeft(run) \in Int /\ TimeLeft(run') \in Int
      <4>1. run'.local \in Int /\ run'.pausedFor \in Nat
        BY <1>5 DEF RunState
      <4> QED
        BY <1>2, <4>1 DEF TimeLeft
    <3>4. CASE run.paused
      <4>1. ran = ghost.ran
        BY <3>1, <3>4
      <4> QED
        BY <1>5, <2>1, <3>2, <3>4, <4>1
    <3>5. CASE ~run.paused
      <4>1. ran = ghost.ran + 1
        BY <1>2, <1>3, <2>1, <3>1, <3>5
      <4> QED
        BY <1>2, <1>5, <3>2, <3>3, <3>5, <4>1
    <3> QED
      BY <3>4, <3>5
  <2>2. run.stopped => ran >= Duration \/ ctl.cancel
    <3>1. run.stopped => ghost.ran >= Duration \/ ctl.cancel
      BY DEF RunInv, ClockInv
    <3> QED
      BY <1>2, <1>3, <3>1
  <2>3. ctl.cancel \/ (held <=> run.paused)
    BY DEF RunInv, ClockInv
  <2> HIDE DEF ran
  <2> QED
    BY <1>1, <1>4, <1>5, <2>1, <2>2, <2>3 DEF ClockInv
<1> QED
  BY <1>6, <1>7, <1>8 DEF RunInv

\* The handshake is over: the channels are there, and nothing was asked yet.
LEMMA HandshakeOkStep ==
    ASSUME RunInv, HandshakeOk
    PROVE  RunInv'
<1>1. /\ run.st = "handshake" /\ run' = [run EXCEPT !.st = "spawn"]
      /\ ctl' = [NoChannels EXCEPT !.on = TRUE]
      /\ UNCHANGED <<conf, stop, held, tasks, up, down, srv, prog, ghost>>
  BY DEF HandshakeOk
<1>2. /\ run' \in RunState /\ run'.st = "spawn" /\ run'.paused = run.paused
      /\ run'.stopped = run.stopped /\ run'.out = run.out
  <2>1. run \in RunState /\ "spawn" \in RunPhases
    BY RunFields DEF RunPhases, Starting
  <2> QED
    BY <1>1, <2>1, PhaseFields
<1>3. ctl' \in Channels /\ ctl'.cancel = FALSE /\ ctl'.cancelNew = FALSE
  BY <1>1, NoChannelsFields
<1>4. RunShape'
  BY <1>1, <1>2, <1>3, RunFields DEF RunShape
<1>5. /\ tasks = 0 /\ ~stop /\ up = <<>> /\ down = <<>> /\ run.out = "none"
      /\ run.paused = FALSE /\ held = FALSE /\ run.stopped = FALSE
  BY <1>1, RunFields DEF RunInv, TrafficInv, CancelInv, Starting
<1> QED
  BY <1>1, <1>2, <1>3, <1>4, <1>5
  DEF RunInv, TrafficInv, CancelInv, ClockInv, Starting, InTest, IsOver, Over

\* Every step of the client and of the server it talks to.
LEMMA ClientKeeps ==
    ASSUME RunInv, ClientStep
    PROVE  RunInv'
<1>1. CASE OnInterval \/ LocalInterval \/ SendEnds
  <2>1. SendProgress /\ run.st \in {"loop", "send"}
    BY <1>1 DEF OnInterval, LocalInterval, SendEnds, InLoop
  <2> QED
    BY <2>1, ProgressKeeps
<1>2. CASE OnResult
  <2>1. /\ InLoop /\ Exit("ok") /\ down # <<>> /\ down' = Tail(down)
        /\ UNCHANGED <<conf, ctl, held, tasks, up, srv, prog, ghost>>
    BY <1>2 DEF OnResult, Received
  <2> QED
    BY <2>1, ExitKeeps
<1>3. CASE OnFailure
  <2>1. /\ InLoop /\ Exit("err") /\ down # <<>> /\ down' = Tail(down)
        /\ UNCHANGED <<conf, ctl, held, tasks, up, srv, prog, ghost>>
    BY <1>3 DEF OnFailure, Received
  <2> QED
    BY <2>1, ExitKeeps
<1>4. CASE ResponseTimeout
  <2>1. /\ InLoop /\ Exit("err") /\ down' = down
        /\ UNCHANGED <<conf, ctl, held, tasks, up, srv, prog, ghost>>
    BY <1>4 DEF ResponseTimeout, ResponseDue
  <2> QED
    BY <2>1, ExitKeeps
<1>5. CASE HandshakeErr
  <2>1. /\ Leave("err") /\ UNCHANGED <<conf, prog>> /\ tasks' = 0 /\ stop' = stop
    BY <1>5 DEF HandshakeErr, RunInv, TrafficInv, Starting
  <2> QED
    BY <2>1, RunFields, LeaveKeeps DEF Over
<1>6. CASE StreamsFail
  <2>1. Leave("err") /\ UNCHANGED <<conf, prog>> /\ tasks' \in 0 .. (Streams - 1) /\ stop' = TRUE
    BY <1>6 DEF StreamsFail
  <2>2. tasks' \in Nat
    BY <2>1, RunFields
  <2> QED
    BY <2>1, <2>2, LeaveKeeps DEF Over
<1>7. CASE Closed
  <2>1. /\ run.st = "closing" /\ Leave(run.result)
        /\ UNCHANGED <<conf, stop, tasks, prog>>
    BY <1>7 DEF Closed
  <2>2. stop = TRUE /\ run.result \in Over
    BY <2>1, RunFields DEF RunInv, TrafficInv, RunState, Over
  <2> QED
    BY <2>1, <2>2, RunFields, LeaveKeeps
<1>8. CASE JoinDone \/ JoinTimeout
  <2>1. /\ run.st = "join" /\ AfterJoin /\ UNCHANGED <<conf, stop, prog>>
        /\ tasks' = tasks \/ tasks' = 0
    BY <1>8 DEF JoinDone, JoinTimeout
  <2>2. tasks' \in Nat /\ tasks' <= tasks
    BY <2>1, RunFields
  <2> QED
    BY <2>1, <2>2, AfterJoinKeeps
<1>9. CASE WriteDone \/ WriteTimeout
  <2>1. /\ run.st = "write" /\ run' = [run EXCEPT !.st = "loop", !.out = "none"]
        /\ up' = up \/ (run.out \in {"Cancel", "Finish"} /\ up' = <<run.out>>)
        /\ UNCHANGED <<conf, ctl, stop, held, tasks, down, srv, prog, ghost>>
    BY <1>9 DEF WriteDone, WriteTimeout
  <2> QED
    BY <2>1, WriteEndsKeeps
<1> QED
  BY <1>1, <1>2, <1>3, <1>4, <1>5, <1>6, <1>7, <1>8, <1>9, HandshakeOkStep, StreamsUpStep,
     OnCancelledStep, OnCancelRequestStep, OnPauseRequestStep, LocalEndStep, SendingDoneStep,
     RunAbortedStep, TaskEndsStep
  DEF ClientStep, RunStep, ConnectStep, LoopStep, QuicLoopStep, EndStep, SharedArms

-----------------------------------------------------------------------------
(* What the program does to a run.                                           *)

\* cancel() and pause() write to the channels only; an abort and the display
\* leave the rest of the run alone.
Controls ==
    /\ UNCHANGED <<conf, stop, held, tasks, up, down, srv, ghost>>
    /\ run' = run \/ run' = [run EXCEPT !.abort = TRUE]
    /\ ctl' = ctl \/ cancel \/ pause
    /\ prog' \in Nat

LEMMA ControlKeeps ==
    ASSUME RunInv, Controls
    PROVE  RunInv'
<1>1. UNCHANGED <<conf, stop, held, tasks, up, down, srv, ghost>> /\ prog' \in Nat
  BY DEF Controls
<1>2. /\ run' \in RunState /\ run'.st = run.st /\ run'.paused = run.paused
      /\ run'.stopped = run.stopped /\ run'.out = run.out /\ run'.local = run.local
      /\ run'.pausedFor = run.pausedFor
  BY RunFields DEF Controls, RunState
<1>3. /\ ctl' \in Channels
      /\ ctl.cancel => ctl'.cancel
      /\ ctl'.cancelNew => ctl.cancelNew \/ ctl'.cancel
  <2>1. CASE ctl' = ctl
    BY <2>1, RunFields
  <2>2. CASE cancel
    <3>1. CASE ctl.on
      <4>1. ctl' = [ctl EXCEPT !.cancel = TRUE, !.cancelNew = TRUE]
        BY <2>2, <3>1 DEF cancel
      <4> QED
        BY <4>1, RunFields DEF Channels
    <3>2. CASE ~ctl.on
      BY <2>2, <3>2, RunFields DEF cancel
    <3> QED
      BY <3>1, <3>2
  <2>3. CASE pause
    <3>1. CASE PauseResult = "applied"
      <4>1. ctl' = [ctl EXCEPT !.pause = ~ctl.pause, !.pauseNew = TRUE]
        BY <2>3, <3>1 DEF pause
      <4>2. (~ctl.pause) \in BOOLEAN
        BY RunFields
      <4> QED
        BY <4>1, <4>2, RunFields DEF Channels
    <3>2. CASE PauseResult # "applied"
      BY <2>3, <3>2, RunFields DEF pause
    <3> QED
      BY <3>1, <3>2
  <2> QED
    BY <2>1, <2>2, <2>3 DEF Controls
<1>4. RunShape'
  BY <1>1, <1>2, <1>3, RunFields DEF RunShape
<1>5. TrafficInv'
  BY <1>1, <1>2 DEF RunInv, TrafficInv, IsOver
<1>6. CancelInv'
  BY <1>1, <1>2, <1>3 DEF RunInv, CancelInv
<1>7. ClockInv'
  BY <1>1, <1>2, <1>3 DEF RunInv, ClockInv, TimeLeft
<1> QED
  BY <1>4, <1>5, <1>6, <1>7 DEF RunInv

\* A step of the program that is neither a step of the run, nor a tick, nor a
\* new run leaves the run alone but for its controls.
Own ==
    \/ TopExpired \/ Aborted \/ RestartTimeout \/ Poll \/ PlainStep \/ EndingStep \/ UserKey
    \/ ~Gone /\ SaveStep /\ NoRun /\ UNCHANGED sessionVars
    \/ \E i \in 1 .. MaxRuns : PushEnds(i)
    \/ Crash

LEMMA OwnControls ==
    ASSUME RunInv, Own
    PROVE  Controls
<1>1. prog \in Nat /\ 0 \in Nat
  BY RunFields
<1>2. NoRun => Controls
  BY <1>1 DEF NoRun, clientVars, Controls
<1>3. RunOnly => /\ UNCHANGED <<conf, stop, held, tasks, up, down, srv, ghost>> /\ prog' \in Nat
  BY <1>1 DEF RunOnly
<1>4. CASE TopExpired
  BY <1>2, <1>3, <1>4 DEF TopExpired, Controls
<1>5. CASE RestartTimeout
  BY <1>3, <1>5 DEF RestartTimeout, Controls
<1>6. CASE Poll
  BY <1>1, <1>6 DEF Poll, Controls
<1>7. CASE PlainStep
  <2>1. CASE PlainPrint
    <3>1. prog' \in Nat
      BY <1>1, <2>1 DEF PlainPrint
    <3> QED
      BY <2>1, <3>1 DEF PlainPrint, Controls
  <2>2. CASE PlainStopped
    BY <1>2, <1>3, <2>2 DEF PlainStopped, Controls
  <2> QED
    BY <1>2, <1>7, <2>1, <2>2 DEF PlainStep, PlainEnds, PlainPrinted
<1>8. CASE UserKey
  <2>1. ASSUME NEW b \in BOOLEAN, KeyQuit(b) PROVE Controls
    <3>1. \/ NoRun
          \/ run' = [run EXCEPT !.abort = TRUE] /\ RunOnly /\ UNCHANGED ctl
          \/ cancel /\ RunOnly /\ UNCHANGED run
      <4>1. tui_quit_action(b) \in {"ExitError", "ExitOk", "ForceExit", "StartCancel", "Ignore"}
        BY DEF tui_quit_action
      <4> QED
        BY <2>1, <4>1 DEF KeyQuit
    <3> QED
      BY <1>2, <1>3, <3>1 DEF Controls
  <2>2. CASE KeyPause
    BY <1>3, <2>2 DEF KeyPause, Controls
  <2>3. ASSUME NEW c, RestartFrom(c) PROVE Controls
    BY <1>3, <2>3 DEF RestartFrom, Controls
  <2>4. CASE PlainInterrupt
    BY <1>3, <2>4 DEF PlainInterrupt, Controls
  <2> QED
    BY <1>2, <1>8, <2>1, <2>2, <2>3, <2>4
    DEF UserKey, KeyRestart, KeyApply, PlainForce, FinishSkip
<1>9. CASE EndingStep
  BY <1>2, <1>9 DEF EndingStep, SaveResult, ResultSaved, Finish, SavePrefs, PrefsSaved
<1> QED
  BY <1>2, <1>4, <1>5, <1>6, <1>7, <1>8, <1>9 DEF Own, Aborted, PushEnds, Crash

\* The five kinds of step of the program.
LEMMA StepKinds ==
    ASSUME Next
    PROVE  \/ ~Gone /\ (ClientStep \/ ServerStep) /\ ClientOnly
           \/ Tick \/ Restarted \/ Own
  BY DEF Next, MainStep, TuiStep, Own

LEMMA RunStepKeeps ==
    ASSUME RunInv, UiShape, [Next]_vars
    PROVE  RunInv'
<1>1. CASE ClientStep \/ ServerStep
  BY <1>1, ClientKeeps, ServerKeeps
<1>2. CASE Tick
  BY <1>2, ClientTickStep DEF Tick
<1>3. CASE Restarted
  <2>1. run.id + 1 \in Nat /\ ui.next \in ConfType /\ Start(ui.next, run.id + 1)
    <3>1. run.id \in Nat
      BY RunFields
    <3> QED
      BY <1>3, <3>1 DEF Restarted, UiShape, UiState
  <2> QED
    BY <2>1, StartKeeps
<1>4. CASE Own
  BY <1>4, OwnControls, ControlKeeps
<1>5. CASE UNCHANGED vars
  <2>1. Controls
    BY <1>5, RunFields DEF vars, Controls
  <2> QED
    BY <2>1, ControlKeeps
<1> QED
  BY <1>1, <1>2, <1>3, <1>4, <1>5, StepKinds

-----------------------------------------------------------------------------
(* The saved files.                                                          *)

\* A step of the save leaves a path in a writable directory alone, up to the
\* rename of the synced file.
LEMMA SaveStepKeeps ==
    ASSUME SaveInv, SaveStep, ui' = ui, ~Gone
    PROVE  SaveInv'
<1> DEFINE S == [of : {"none", "result", "prefs"}, place : Places, st : SaveStates,
                 tmp : {"none", "torn", "cached", "new"}]
<1>1. /\ saving \in S /\ saving.of # "none"
      /\ ui.pc # "crashed"
      /\ saving.place # "fixed" =>
            disk = IF saving.st = "saved" /\ saving.place # "special" THEN "new" ELSE Before
      /\ saving.st \in {"truncate", "overwrite"} => saving.place \in {"special", "fixed"}
      /\ saving.st = "rename" => saving.tmp = "new"
      /\ saving.st \in {"temp", "write", "sync", "rename"} => saving.place # "special"
      /\ saving.st # "idle"
      /\ saving.of = "result" => ui.pc = "save"
      /\ saving.of = "prefs" => ui.pc = "prefs"
  BY DEF SaveInv, Gone, SaveStep, Inspect, CreateTemp, WriteTemp, sync_all, persist, Truncate,
         Overwrite, At
<1>2. ASSUME saving' \in S, saving'.of = saving.of, saving'.place = saving.place,
             saving'.st = "rename" => saving'.tmp = "new",
             saving'.st \in {"temp", "write", "sync", "rename"} => saving.place # "special",
             saving'.st # "idle",
             saving'.st \in {"truncate", "overwrite"} => saving.place \in {"special", "fixed"},
             saving.place # "fixed" =>
               disk' = IF saving'.st = "saved" /\ saving.place # "special" THEN "new" ELSE Before
      PROVE  SaveInv'
  <2>1. Before' = Before
    BY <1>2 DEF Before
  <2> QED
    BY <1>1, <1>2, <2>1 DEF SaveInv
<1>3. ASSUME Fails, UNCHANGED disk, saving.st # "saved" PROVE SaveInv'
  <2>1. saving' = [saving EXCEPT !.st = "failed", !.tmp = "none"]
    BY <1>3 DEF Fails
  <2>2. saving' \in S /\ saving'.of = saving.of /\ saving'.place = saving.place
        /\ saving'.st = "failed"
    BY <1>1, <2>1 DEF SaveStates
  <2> QED
    BY <1>1, <1>2, <1>3, <2>2
<1>4. ASSUME NEW st \in SaveStates, NEW tmp \in {"none", "torn", "cached", "new"},
             saving' = [saving EXCEPT !.st = st, !.tmp = tmp]
      PROVE  /\ saving' \in S /\ saving'.of = saving.of /\ saving'.place = saving.place
             /\ saving'.st = st /\ saving'.tmp = tmp
  BY <1>1, <1>4
<1>5. ASSUME NEW st \in SaveStates, saving' = [saving EXCEPT !.st = st]
      PROVE  /\ saving' \in S /\ saving'.of = saving.of /\ saving'.place = saving.place
             /\ saving'.st = st
  BY <1>1, <1>5
<1> HIDE DEF S
<1>6. CASE Inspect
  <2>1. CASE Fails
    BY <1>3, <1>6, <2>1 DEF Inspect, At
  <2>2. CASE saving.place = "special" /\ Step("truncate")
    BY <1>1, <1>2, <1>5, <1>6, <2>2 DEF Inspect, At, Step, SaveStates
  <2>3. CASE Step("temp")
    BY <1>1, <1>2, <1>5, <1>6, <2>3 DEF Inspect, At, Step, SaveStates
  <2> QED
    BY <1>6, <2>1, <2>2, <2>3 DEF Inspect
<1>7. CASE CreateTemp
  <2>1. CASE Fails
    BY <1>3, <1>7, <2>1 DEF CreateTemp, At
  <2>2. CASE saving.place = "fixed" /\ Step("truncate")
    BY <1>1, <1>2, <1>5, <1>7, <2>2 DEF CreateTemp, At, Step, SaveStates
  <2>3. CASE saving' = [saving EXCEPT !.st = "write", !.tmp = "torn"]
    BY <1>1, <1>2, <1>4, <1>7, <2>3 DEF CreateTemp, At, SaveStates
  <2> QED
    BY <1>7, <2>1, <2>2, <2>3 DEF CreateTemp
<1>8. CASE WriteTemp
  <2>1. CASE Fails
    BY <1>3, <1>8, <2>1 DEF WriteTemp, At
  <2>2. CASE saving' = [saving EXCEPT !.st = "sync", !.tmp = "cached"]
    BY <1>1, <1>2, <1>4, <1>8, <2>2 DEF WriteTemp, At, SaveStates
  <2> QED
    BY <1>8, <2>1, <2>2 DEF WriteTemp
<1>9. CASE sync_all
  <2>1. CASE Fails
    BY <1>3, <1>9, <2>1 DEF sync_all, At
  <2>2. CASE saving' = [saving EXCEPT !.st = "rename", !.tmp = "new"]
    BY <1>1, <1>2, <1>4, <1>9, <2>2 DEF sync_all, At, SaveStates
  <2> QED
    BY <1>9, <2>1, <2>2 DEF sync_all
<1>10. CASE persist
  <2>1. CASE Fails /\ UNCHANGED disk
    BY <1>3, <1>10, <2>1 DEF persist, At
  <2>2. CASE disk' = saving.tmp /\ saving' = [saving EXCEPT !.st = "saved", !.tmp = "none"]
    <3>1. saving.st = "rename" /\ disk' = "new"
      BY <1>1, <1>10, <2>2 DEF persist, At
    <3>2. saving.place # "special"
      BY <1>1, <3>1
    <3> QED
      BY <1>1, <1>2, <1>4, <2>2, <3>1, <3>2 DEF SaveStates
  <2> QED
    BY <1>10, <2>1, <2>2 DEF persist
<1>11. CASE Truncate
  <2>1. CASE Fails /\ UNCHANGED disk
    BY <1>3, <1>11, <2>1 DEF Truncate, At
  <2>2. CASE Step("overwrite") /\ disk' = IF saving.place = "special" THEN disk ELSE "torn"
    BY <1>1, <1>2, <1>5, <1>11, <2>2 DEF Truncate, At, Step, SaveStates
  <2> QED
    BY <1>11, <2>1, <2>2 DEF Truncate
<1>12. CASE Overwrite
  <2>1. CASE Fails /\ UNCHANGED disk
    BY <1>3, <1>12, <2>1 DEF Overwrite, At
  <2>2. CASE Step("saved") /\ disk' = IF saving.place = "special" THEN disk ELSE "cached"
    BY <1>1, <1>2, <1>5, <1>12, <2>2 DEF Overwrite, At, Step, SaveStates
  <2> QED
    BY <1>12, <2>1, <2>2 DEF Overwrite
<1> QED
  BY <1>6, <1>7, <1>8, <1>9, <1>10, <1>11, <1>12 DEF SaveStep

\* A step of the program that leaves the files alone: the save belongs to
\* another step, or there is none.
LEMMA FilesAlone ==
    ASSUME SaveInv, UNCHANGED saveVars,
           \/ ui'.pc = ui.pc
           \/ /\ ui.pc # "crashed" /\ ui'.pc # "crashed"
              /\ ui.pc \notin {"save", "prefs"} \/ saving.st = "idle"
    PROVE  SaveInv'
<1>1. saving' = saving /\ disk' = disk /\ Before' = Before
  BY DEF saveVars, Before
<1> QED
  BY <1>1 DEF SaveInv

LEMMA SaveStartKeeps ==
    ASSUME SaveInv, NEW f \in {"result", "prefs"}, SaveStart(f), ui' = ui,
           ui.pc = IF f = "result" THEN "save" ELSE "prefs"
    PROVE  SaveInv' /\ saving'.of = f
<1>1. PICK p \in Places : /\ saving' = [of |-> f, place |-> p, st |-> "inspect", tmp |-> "none"]
                          /\ disk' = IF p \in {"file", "fixed"} THEN "old" ELSE "none"
  BY DEF SaveStart
<1>2. /\ saving' \in [of : {"none", "result", "prefs"}, place : Places, st : SaveStates,
                      tmp : {"none", "torn", "cached", "new"}]
      /\ saving'.of = f /\ saving'.place = p /\ saving'.st = "inspect"
  BY <1>1 DEF SaveStates
<1>3. Before' = disk'
  BY <1>1, <1>2 DEF Before
<1> QED
  BY <1>2, <1>3 DEF SaveInv

LEMMA SaveEndKeeps ==
    ASSUME SaveEnd, ui'.pc # "crashed"
    PROVE  SaveInv' /\ saving'.of = "none"
<1>1. saving' = NotSaving /\ disk' = "none"
  BY DEF SaveEnd
<1>2. /\ saving' \in [of : {"none", "result", "prefs"}, place : Places, st : SaveStates,
                      tmp : {"none", "torn", "cached", "new"}]
      /\ saving'.of = "none" /\ saving'.place = "new" /\ saving'.st = "idle"
  BY <1>1 DEF NotSaving, SaveStates, Places
<1>3. Before' = "none"
  BY <1>2 DEF Before
<1> QED
  BY <1>1, <1>2, <1>3 DEF SaveInv

LEMMA CrashKeeps ==
    ASSUME SaveInv, SaveCrash, ui.pc # "crashed", ui'.pc = "crashed"
    PROVE  SaveInv'
<1>1. saving' = saving /\ Before' = Before
  BY DEF SaveCrash, Before
<1>2. saving.place \in {"file", "new"} => disk' \in {Before, "new"}
  BY DEF SaveCrash, SaveInv, Before
<1> QED
  BY <1>1, <1>2 DEF SaveInv

-----------------------------------------------------------------------------
(* The program's own steps and the summary.                                  *)

LEMMA UiFields ==
    ASSUME RunInv, UiShape
    PROVE  /\ ui \in UiState /\ ui.pc \in Pcs /\ ui.run \in BOOLEAN /\ ui.bytes \in Nat
           /\ ui.result \in Results /\ ui.deadline \in Int /\ ui.presses \in Nat
           /\ ui.next \in ConfType /\ ui.exit \in {"none", "ok", "err", "130"}
           /\ ui.mode \in {"tui", "plain"} /\ ui.state \in {"running", "completed", "error"}
           /\ prog \in Nat /\ ghost.seen \in Nat /\ run.id \in Nat
           /\ Forever \in Int /\ TuiWait \in Int /\ RestartWait \in Int
  BY RunFields, SessionAssumption DEF SessionAssumption, UiShape, UiState, Forever

\* A result that is of this run, and no less than what the program had.
OfThisRun(r) ==
    /\ r \in Results
    /\ r.kind = "partial" => r.id = run.id /\ r.bytes \in 1..ghost.seen
    /\ r.kind = "server" => r.id = run.id /\ run.st = "ok"
    /\ ui.result.kind = "server" => r.kind = "server"

LEMMA NoResultFields == NoResult \in Results /\ NoResult.kind = "none"
  BY DEF NoResult, Results

LEMMA SummaryOfThisRun ==
    ASSUME RunInv, UiShape, SummaryInv
    PROVE  /\ OfThisRun(ui.result)
           /\ run.st = "ok" => OfThisRun(ServerResult) /\ ServerResult.kind = "server"
           /\ \A u \in UiState : u.result = ui.result /\ u.bytes <= ghost.seen
                                  => OfThisRun(Summary(u))
           /\ ui.result.kind # "server" /\ ui.bytes > 0 => OfThisRun(tui_fallback_result(ui))
<1>1. OfThisRun(ui.result)
  BY UiFields DEF OfThisRun, SummaryInv
<1>2. run.st = "ok" => OfThisRun(ServerResult) /\ ServerResult.kind = "server"
  BY UiFields DEF OfThisRun, ServerResult, Results
<1>3. ASSUME NEW u \in UiState, u.bytes <= ghost.seen, ui.result.kind # "server"
      PROVE  OfThisRun(tui_fallback_result(u))
  <2>1. u.bytes \in Nat
    BY DEF UiState
  <2>2. CASE u.bytes > 0
    <3>1. tui_fallback_result(u) = [kind |-> "partial", id |-> run.id, bytes |-> u.bytes]
      BY <2>2 DEF tui_fallback_result
    <3>2. u.bytes \in 1..ghost.seen
      BY <1>3, <2>1, <2>2, UiFields
    <3> QED
      BY <1>3, <2>1, <3>1, <3>2, UiFields DEF OfThisRun, Results
  <2>3. CASE ~(u.bytes > 0)
    BY <1>3, <2>3, NoResultFields DEF OfThisRun, tui_fallback_result
  <2> QED
    BY <2>2, <2>3
<1>4. ASSUME NEW u \in UiState, u.result = ui.result, u.bytes <= ghost.seen
      PROVE  OfThisRun(Summary(u))
  <2>1. CASE u.result.kind = "none"
    BY <1>3, <1>4, <2>1 DEF Summary
  <2>2. CASE u.result.kind # "none"
    BY <1>1, <1>4, <2>2 DEF Summary
  <2> QED
    BY <2>1, <2>2
<1>5. ui.bytes <= ghost.seen /\ ui \in UiState
  BY UiFields DEF SummaryInv
<1> QED
  BY <1>1, <1>2, <1>3, <1>4, <1>5

LEMMA ReturnFields ==
    ASSUME NEW u \in UiState, NEW r \in Results, NEW exit \in {"none", "ok", "err", "130"}
    PROVE  LET s == Return(u, r, exit)
           IN  /\ s \in UiState /\ s.pc \in {"save", "finish"} /\ s.result = r
               /\ s.pc = "save" => r.kind = "server"
               /\ s.run = u.run /\ s.bytes = u.bytes /\ s.mode = u.mode /\ s.exit = exit
<1> DEFINE pc == IF r.kind = "server" THEN "save" ELSE "finish"
<1> DEFINE v == [u EXCEPT !.pc = pc, !.result = r, !.exit = exit]
<1>1. /\ pc \in Pcs /\ pc \in {"save", "finish"} /\ 0 \in Nat /\ Forever \in Int
      /\ pc = "save" => r.kind = "server"
  BY DEF Pcs, Forever
<1>2. Return(u, r, exit) = [v EXCEPT !.deadline = Forever, !.presses = 0]
  BY DEF Return, UiState
<1> HIDE DEF pc
<1>3. /\ v \in UiState /\ v.pc = pc /\ v.result = r /\ v.run = u.run /\ v.bytes = u.bytes
      /\ v.mode = u.mode /\ v.exit = exit
  BY <1>1 DEF UiState
<1> HIDE DEF v
<1>4. LET s == [v EXCEPT !.deadline = Forever, !.presses = 0]
      IN  /\ s \in UiState /\ s.pc = v.pc /\ s.result = v.result /\ s.run = v.run
          /\ s.bytes = v.bytes /\ s.mode = v.mode /\ s.exit = v.exit
  BY <1>1, <1>3 DEF UiState
<1> QED
  BY <1>1, <1>2, <1>3, <1>4

LEMMA ControlFields ==
    ASSUME RunInv, Controls
    PROVE  /\ run'.id = run.id /\ run'.st = run.st /\ ghost' = ghost /\ prog' \in Nat
           /\ conf' = conf
  BY RunFields DEF Controls, RunState

\* A step of the terminal interface, told by what it leaves.
LEMMA TuiKeeps ==
    ASSUME RunInv, UiInv, Controls, UNCHANGED saveVars, ui.pc \in {"top", "abort"},
           ui' \in UiState, ui'.mode = ui.mode,
           ui'.pc \in {"top", "abort", "restart", "save", "finish"},
           OfThisRun(ui'.result), ui'.pc = "save" => ui'.result.kind = "server",
           ui'.bytes <= ghost.seen,
           ui'.run /\ ui'.pc # "restart" => ui'.bytes + prog' = ghost.seen,
           ui'.pc = "restart" => ui'.bytes = 0,
           \/ push' = push
           \/ push' = push \cup {run.id} /\ ui'.result.kind = "server"
    PROVE  UiInv'
<1>1. UiShape'
  BY DEF UiInv, UiShape
<1>2. SaveInv' /\ saving'.of # "result"
  <2>1. SaveInv'
    BY FilesAlone DEF UiInv
  <2>2. saving' = saving
    BY DEF saveVars
  <2> QED
    BY <2>1, <2>2 DEF UiInv, SaveInv
<1>3. SummaryInv'
  <2>1. run'.id = run.id /\ run'.st = run.st /\ ghost' = ghost /\ run.id \in Nat
    BY ControlFields, RunFields
  <2>2. \A i \in push' : i \in Nat /\ i <= run.id /\ (i = run.id => ui'.result.kind = "server")
    BY <2>1 DEF UiInv, SummaryInv, OfThisRun
  <2> QED
    BY <1>2, <2>1, <2>2 DEF SummaryInv, OfThisRun
<1> QED
  BY <1>1, <1>2, <1>3 DEF UiInv

\* The same for the plain mode.
LEMMA PlainKeeps ==
    ASSUME RunInv, UiInv, Controls, UNCHANGED <<disk, saving, push>>,
           ui.pc \in {"wait", "stopping", "print"},
           ui' \in UiState, ui'.mode = ui.mode, ui'.run = ui.run,
           ui'.pc \in {"wait", "stopping", "print", "done", "save"},
           OfThisRun(ui'.result), ui'.pc = "save" => ui'.result.kind = "server",
           ui'.pc = "print" => ui'.exit = "130" \/ ui'.result.kind = "server",
           ui'.bytes + prog' = ui.bytes + prog
    PROVE  UiInv'
<1>0. ui.run /\ ui.bytes + prog = ghost.seen
  BY UiFields DEF UiInv, UiShape, SummaryInv
<1>1. UiShape'
  BY <1>0 DEF UiInv, UiShape
<1>2. SaveInv' /\ saving'.of # "result"
  <2>1. SaveInv'
    BY FilesAlone DEF UiInv, saveVars
  <2>2. saving' = saving
    OBVIOUS
  <2> QED
    BY <2>1, <2>2 DEF UiInv, SaveInv
<1>3. SummaryInv'
  <2>1. /\ run'.id = run.id /\ run'.st = run.st /\ ghost' = ghost /\ ghost.seen \in Nat
        /\ prog' \in Nat /\ push' = {}
    BY ControlFields, RunFields DEF UiInv, SummaryInv
  <2>2. ui'.bytes \in Nat
    BY DEF UiState
  <2>3. ui'.bytes + prog' = ghost.seen /\ ui'.bytes <= ghost.seen
    BY <1>0, <2>1, <2>2
  <2> QED
    BY <1>2, <2>1, <2>3 DEF SummaryInv, OfThisRun
<1> QED
  BY <1>1, <1>2, <1>3 DEF UiInv

\* Leaving the loop with a result that is of this run.
LEMMA ReturnKeeps ==
    ASSUME RunInv, UiInv, Controls, UNCHANGED saveVars, ui.pc \in {"top", "abort"},
           NEW u \in UiState, u.mode = ui.mode, u.bytes <= ghost.seen,
           u.run => u.bytes + prog' = ghost.seen,
           NEW r, OfThisRun(r), ui' = Return(u, r, "ok"),
           \/ push' = push
           \/ push' = push \cup {run.id} /\ r.kind = "server"
    PROVE  UiInv'
<1>1. r \in Results
  BY DEF OfThisRun
<1>2. /\ ui' \in UiState /\ ui'.pc \in {"save", "finish"} /\ ui'.result = r
      /\ ui'.pc = "save" => r.kind = "server"
      /\ ui'.run = u.run /\ ui'.bytes = u.bytes /\ ui'.mode = u.mode
  BY <1>1, ReturnFields
<1> QED
  BY <1>2, TuiKeeps

LEMMA TopExpiredKeeps ==
    ASSUME RunInv, UiInv, Controls, TopExpired \/ Aborted
    PROVE  UiInv'
<1>0. /\ RunInv /\ UiShape /\ SummaryInv /\ UNCHANGED saveVars /\ push' = push
      /\ ui.pc \in {"top", "abort"}
  BY DEF UiInv, TopExpired, Aborted, NoSave
<1>1. /\ ui \in UiState /\ ui.bytes \in Nat /\ ui.bytes <= ghost.seen /\ OfThisRun(ui.result)
      /\ OfThisRun(Summary(ui))
  BY <1>0, UiFields, SummaryOfThisRun DEF SummaryInv
<1>2. CASE ui' = [ui EXCEPT !.pc = "abort", !.run = FALSE]
  <2>1. /\ ui' \in UiState /\ ui'.pc = "abort" /\ ui'.run = FALSE /\ ui'.mode = ui.mode
        /\ ui'.bytes = ui.bytes /\ ui'.result = ui.result
    BY <1>1, <1>2 DEF UiState, Pcs
  <2> QED
    BY <1>0, <1>1, <2>1, TuiKeeps
<1>3. ASSUME NEW r, OfThisRun(r), ui' = Return(ui, r, "ok"), prog' = prog PROVE UiInv'
  <2>1. ui.run => ui.bytes + prog' = ghost.seen
    BY <1>0, <1>3 DEF SummaryInv
  <2> QED
    BY <1>0, <1>1, <1>3, <2>1, ReturnKeeps
<1>4. CASE TopExpired
  BY <1>1, <1>2, <1>3, <1>4 DEF TopExpired, NoRun, clientVars
<1>5. CASE Aborted
  <2>1. ui' = Return(ui, Summary(ui), "ok") \/ ui' = Return(ui, ui.result, "ok")
    BY <1>5 DEF Aborted
  <2>2. prog' = prog
    BY <1>5 DEF Aborted, NoRun, clientVars
  <2> QED
    BY <1>1, <1>3, <2>1, <2>2
<1> QED
  BY <1>4, <1>5

\* A key that ends the loop, starts the cancel or changes nothing.
LEMMA KeyQuitKeeps ==
    ASSUME RunInv, UiInv, Controls, NEW b \in BOOLEAN, KeyQuit(b)
    PROVE  UiInv'
<1>0. /\ UiShape /\ SummaryInv /\ UNCHANGED saveVars /\ push' = push /\ ui.pc = "top"
  BY DEF UiInv, KeyQuit, AtKey, NoSave
<1>1. /\ ui \in UiState /\ ui.bytes \in Nat /\ ui.bytes <= ghost.seen /\ OfThisRun(ui.result)
      /\ TuiWait \in Int /\ Forever \in Int
  BY <1>0, UiFields, SummaryOfThisRun DEF SummaryInv
<1>2. prog' = prog
  BY DEF KeyQuit, NoRun, clientVars, RunOnly, tui_quit_action
<1>3. ui.run => ui.bytes + prog' = ghost.seen
  BY <1>0, <1>2 DEF SummaryInv
<1>4. ASSUME ui' \in UiState, ui'.mode = ui.mode, ui'.pc \in {"top", "abort", "finish"},
             ui'.run => ui.run, ui'.bytes = ui.bytes, ui'.result = ui.result
      PROVE  UiInv'
  BY <1>0, <1>1, <1>3, <1>4, TuiKeeps
<1>5. \/ ui' = [ui EXCEPT !.pc = "finish", !.exit = "err"]
      \/ ui' = Return(ui, ui.result, "ok")
      \/ ui' = [ui EXCEPT !.pc = "abort", !.run = FALSE, !.deadline = Forever]
      \/ ui' = [ui EXCEPT !.deadline = TuiWait]
      \/ ui' = ui
  BY DEF KeyQuit, tui_quit_action
<1>6. CASE ui' = [ui EXCEPT !.pc = "finish", !.exit = "err"]
  BY <1>1, <1>4, <1>6 DEF UiState, Pcs
<1>7. CASE ui' = Return(ui, ui.result, "ok")
  BY <1>0, <1>1, <1>3, <1>7, ReturnKeeps
<1>8. CASE ui' = [ui EXCEPT !.pc = "abort", !.run = FALSE, !.deadline = Forever]
  BY <1>1, <1>4, <1>8 DEF UiState, Pcs
<1>9. CASE ui' = [ui EXCEPT !.deadline = TuiWait]
  BY <1>0, <1>1, <1>4, <1>9 DEF UiState, Pcs
<1>10. CASE ui' = ui
  BY <1>0, <1>1, <1>4, <1>10
<1> QED
  BY <1>5, <1>6, <1>7, <1>8, <1>9, <1>10

LEMMA KeyRunKeeps ==
    ASSUME RunInv, UiInv, Controls, KeyPause \/ KeyRestart \/ KeyApply
    PROVE  UiInv'
<1>0. /\ UiShape /\ SummaryInv /\ UNCHANGED saveVars /\ push' = push /\ ui.pc = "top"
      /\ prog' = prog
  BY DEF UiInv, KeyPause, KeyRestart, KeyApply, RestartFrom, AtKey, NoSave, RunOnly
<1>1. /\ ui \in UiState /\ ui.bytes \in Nat /\ ui.bytes <= ghost.seen /\ OfThisRun(ui.result)
      /\ RestartWait \in Int /\ ui.presses \in Nat /\ ui.next \in ConfType /\ ghost.seen \in Nat
  BY <1>0, UiFields, SummaryOfThisRun DEF SummaryInv
<1>2. CASE KeyPause
  <2>1. ui' = [ui EXCEPT !.presses = ui.presses + 1] /\ ui.presses + 1 \in Nat
    BY <1>1, <1>2 DEF KeyPause, UiState
  <2>2. /\ ui' \in UiState /\ ui'.pc = ui.pc /\ ui'.run = ui.run /\ ui'.mode = ui.mode
        /\ ui'.bytes = ui.bytes /\ ui'.result = ui.result
    BY <1>1, <2>1 DEF UiState
  <2>3. ui.run => ui.bytes + prog' = ghost.seen
    BY <1>0 DEF SummaryInv
  <2> QED
    BY <1>0, <1>1, <2>2, <2>3, TuiKeeps
<1>3. CASE KeyRestart \/ KeyApply
  <2>1. PICK next \in ConfType : RestartFrom(next)
    BY <1>1, <1>3, ClientAssumption DEF KeyRestart, KeyApply, ClientAssumption
  <2> DEFINE v == [ui EXCEPT !.pc = "restart", !.next = next, !.deadline = RestartWait]
  <2>2. ui' = [v EXCEPT !.bytes = 0, !.presses = 0]
    BY <1>1, <2>1 DEF RestartFrom, UiState
  <2>3. v \in UiState /\ v.pc = "restart" /\ v.mode = ui.mode /\ v.result = ui.result
    BY <1>1 DEF UiState, Pcs
  <2> HIDE DEF v
  <2>4. /\ ui' \in UiState /\ ui'.pc = "restart" /\ ui'.mode = ui.mode /\ ui'.bytes = 0
        /\ ui'.result = ui.result
    BY <2>2, <2>3 DEF UiState
  <2>5. ui'.bytes <= ghost.seen
    BY <1>1, <2>4
  <2> QED
    BY <1>0, <1>1, <2>4, <2>5, TuiKeeps
<1> QED
  BY <1>2, <1>3

\* The updates are taken, and a run that is over with them.
LEMMA PollKeeps ==
    ASSUME RunInv, UiInv, Controls, Poll
    PROVE  UiInv'
<1>0. /\ UiShape /\ SummaryInv /\ UNCHANGED saveVars /\ ui.pc = "top"
      /\ prog' = IF ui.run THEN 0 ELSE prog
  BY DEF UiInv, Poll, AtKey, NoSave
<1>1. /\ ui \in UiState /\ ui.bytes \in Nat /\ ui.bytes <= ghost.seen /\ OfThisRun(ui.result)
      /\ prog \in Nat /\ ghost.seen \in Nat
      /\ run.st = "ok" => OfThisRun(ServerResult) /\ ServerResult.kind = "server"
      /\ \A u \in UiState : u.result = ui.result /\ u.bytes <= ghost.seen => OfThisRun(Summary(u))
  BY <1>0, UiFields, SummaryOfThisRun DEF SummaryInv
<1>2. ui.run => ui.bytes + prog = ghost.seen
  BY <1>0 DEF SummaryInv
<1>3. /\ Drained \in UiState /\ Drained.pc = "top" /\ Drained.run = ui.run
      /\ Drained.mode = ui.mode /\ Drained.result = ui.result
      /\ Drained.bytes = IF ui.run THEN ui.bytes + prog ELSE ui.bytes
  <2>1. CASE ui.run
    <3>1. Drained = [ui EXCEPT !.bytes = ui.bytes + prog] /\ ui.bytes + prog \in Nat
      BY <1>1, <2>1 DEF Drained, UiState
    <3> QED
      BY <1>0, <1>1, <2>1, <3>1 DEF UiState
  <2>2. CASE ~ui.run
    BY <1>0, <1>1, <2>2 DEF Drained
  <2> QED
    BY <2>1, <2>2
<1>4. Drained.bytes <= ghost.seen /\ (ui.run => Drained.bytes + prog' = ghost.seen)
  <2>1. CASE ui.run
    <3>1. Drained.bytes = ui.bytes + prog /\ prog' = 0
      BY <1>0, <1>3, <2>1
    <3> QED
      BY <1>1, <1>2, <2>1, <3>1
  <2>2. CASE ~ui.run
    BY <1>1, <1>3, <2>2
  <2> QED
    BY <2>1, <2>2
<1>5. CASE ~(ui.run /\ IsOver)
  <2>1. ui' = Drained /\ push' = push
    BY <1>5 DEF Poll
  <2> QED
    BY <1>0, <1>1, <1>3, <1>4, <2>1, TuiKeeps
<1>6. CASE ui.run /\ IsOver
  <2> DEFINE taken(u) == [u EXCEPT !.run = FALSE]
  <2>1. PICK u \in {ui, Drained} :
          IF run.st = "ok"
          THEN /\ queue(run.id)
               /\ ui' = IF Quitting THEN Return(taken(u), ServerResult, "ok")
                        ELSE [taken(u) EXCEPT !.state = "completed", !.result = ServerResult]
          ELSE /\ UNCHANGED push
               /\ ui' = IF Quitting THEN Return(taken(u), Summary(taken(u)), "ok")
                        ELSE [taken(u) EXCEPT !.state = "error"]
    BY <1>6 DEF Poll
  <2> DEFINE t == taken(u)
  <2>2. /\ t \in UiState /\ t.run = FALSE /\ t.pc = "top" /\ t.mode = ui.mode
        /\ t.result = ui.result /\ t.bytes <= ghost.seen
    <3>1. /\ u \in UiState /\ u.pc = "top" /\ u.mode = ui.mode /\ u.result = ui.result
          /\ u.bytes <= ghost.seen
      BY <1>0, <1>1, <1>3, <1>4
    <3> QED
      BY <3>1 DEF UiState
  <2>3. \/ run.st = "ok" /\ push' = push \cup {run.id} /\ ui' = Return(t, ServerResult, "ok")
        \/ /\ run.st = "ok" /\ push' = push \cup {run.id}
           /\ ui' = [t EXCEPT !.state = "completed", !.result = ServerResult]
        \/ push' = push /\ ui' = Return(t, Summary(t), "ok")
        \/ push' = push /\ ui' = [t EXCEPT !.state = "error"]
    BY <2>1 DEF queue
  <2> HIDE DEF t, taken
  <2>4. CASE run.st = "ok" /\ push' = push \cup {run.id} /\ ui' = Return(t, ServerResult, "ok")
    BY <1>0, <1>1, <2>2, <2>4, ReturnKeeps
  <2>5. CASE /\ run.st = "ok" /\ push' = push \cup {run.id}
             /\ ui' = [t EXCEPT !.state = "completed", !.result = ServerResult]
    <3>1. ServerResult \in Results
      BY <1>1, <2>5 DEF OfThisRun
    <3>2. /\ ui' \in UiState /\ ui'.pc = "top" /\ ui'.run = FALSE /\ ui'.mode = ui.mode
          /\ ui'.result = ServerResult /\ ui'.bytes = t.bytes
      BY <2>2, <2>5, <3>1 DEF UiState
    <3> QED
      BY <1>0, <1>1, <2>2, <2>5, <3>2, TuiKeeps
  <2>6. CASE push' = push /\ ui' = Return(t, Summary(t), "ok")
    <3>1. OfThisRun(Summary(t))
      BY <1>1, <2>2
    <3> QED
      BY <1>0, <2>2, <2>6, <3>1, ReturnKeeps
  <2>7. CASE push' = push /\ ui' = [t EXCEPT !.state = "error"]
    <3>1. /\ ui' \in UiState /\ ui'.pc = "top" /\ ui'.run = FALSE /\ ui'.mode = ui.mode
          /\ ui'.result = ui.result /\ ui'.bytes = t.bytes
      BY <2>2, <2>7 DEF UiState
    <3> QED
      BY <1>0, <1>1, <2>2, <2>7, <3>1, TuiKeeps
  <2> QED
    BY <2>3, <2>4, <2>5, <2>6, <2>7
<1> QED
  BY <1>5, <1>6

\* The plain mode: its print task, its end and its interrupts.
LEMMA PlainModeKeeps ==
    ASSUME RunInv, UiInv, Controls, PlainStep \/ PlainInterrupt \/ PlainForce
    PROVE  UiInv'
<1>0. /\ UiShape /\ SummaryInv /\ UNCHANGED <<disk, saving, push>>
      /\ ui.pc \in {"wait", "stopping", "print"}
  BY DEF UiInv, PlainStep, PlainPrint, PlainEnds, PlainStopped, PlainPrinted, PlainInterrupt,
         PlainForce, NoSave, saveVars
<1>1. /\ ui \in UiState /\ ui.bytes \in Nat /\ ui.bytes <= ghost.seen /\ OfThisRun(ui.result)
      /\ TuiWait \in Int /\ prog \in Nat
      /\ run.st = "ok" => OfThisRun(ServerResult) /\ ServerResult.kind = "server"
  BY <1>0, UiFields, SummaryOfThisRun DEF SummaryInv
<1>2. ASSUME ui' \in UiState, ui'.mode = ui.mode, ui'.run = ui.run, ui'.bytes = ui.bytes,
             ui'.pc \in {"stopping", "print", "done", "save"}, prog' = prog,
             OfThisRun(ui'.result), ui'.pc = "save" => ui'.result.kind = "server",
             ui'.pc = "print" => ui'.exit = "130" \/ ui'.result.kind = "server"
      PROVE  UiInv'
  BY <1>0, <1>2, PlainKeeps
<1>3. CASE PlainPrint
  <2>1. /\ ui' = [ui EXCEPT !.bytes = ui.bytes + 1] /\ prog' = prog - 1 /\ ui.bytes + 1 \in Nat
    BY <1>1, <1>3 DEF PlainPrint, UiState
  <2>2. /\ ui' \in UiState /\ ui'.mode = ui.mode /\ ui'.run = ui.run /\ ui'.pc = ui.pc
        /\ ui'.exit = ui.exit /\ ui'.result = ui.result /\ ui'.bytes = ui.bytes + 1
    BY <1>1, <2>1 DEF UiState
  <2>3. ui'.bytes + prog' = ui.bytes + prog
    BY <1>1, <2>1, <2>2
  <2>4. ui'.pc = "print" => ui'.exit = "130" \/ ui'.result.kind = "server"
    BY <1>0, <2>2 DEF SummaryInv
  <2>5. ui'.pc \in {"wait", "stopping", "print", "done", "save"} /\ OfThisRun(ui'.result)
        /\ ui'.pc # "save"
    BY <1>0, <1>1, <2>2
  <2> QED
    BY <1>0, <2>2, <2>3, <2>4, <2>5, PlainKeeps
<1>4. ASSUME prog' = prog, run.st = "ok", ui' = [ui EXCEPT !.pc = "print", !.result = ServerResult]
      PROVE  UiInv'
  <2>1. ServerResult \in Results
    BY <1>1, <1>4 DEF OfThisRun
  <2>2. /\ ui' \in UiState /\ ui'.mode = ui.mode /\ ui'.run = ui.run /\ ui'.pc = "print"
        /\ ui'.result = ServerResult /\ ui'.bytes = ui.bytes
    BY <1>1, <1>4, <2>1 DEF UiState, Pcs
  <2> QED
    BY <1>1, <1>2, <1>4, <2>2
<1>5. ASSUME prog' = prog, NEW e \in {"none", "ok", "err", "130"},
             ui' = [ui EXCEPT !.pc = "done", !.exit = e]
      PROVE  UiInv'
  <2>1. /\ ui' \in UiState /\ ui'.mode = ui.mode /\ ui'.run = ui.run /\ ui'.pc = "done"
        /\ ui'.result = ui.result /\ ui'.bytes = ui.bytes
    BY <1>1, <1>5 DEF UiState, Pcs
  <2> QED
    BY <1>1, <1>2, <1>5, <2>1
<1>6. CASE PlainEnds
  BY <1>4, <1>5, <1>6 DEF PlainEnds, NoRun, clientVars
<1>7. CASE PlainForce
  BY <1>5, <1>7 DEF PlainForce, NoRun, clientVars
<1>8. CASE PlainInterrupt
  <2>1. ui' = [ui EXCEPT !.pc = "stopping", !.deadline = TuiWait] /\ prog' = prog
    BY <1>8 DEF PlainInterrupt, RunOnly
  <2>2. /\ ui' \in UiState /\ ui'.mode = ui.mode /\ ui'.run = ui.run /\ ui'.pc = "stopping"
        /\ ui'.result = ui.result /\ ui'.bytes = ui.bytes
    BY <1>1, <2>1 DEF UiState, Pcs
  <2> QED
    BY <1>1, <1>2, <2>1, <2>2
<1>9. CASE PlainStopped
  <2>1. prog' = prog
    BY <1>9 DEF PlainStopped, NoRun, clientVars, RunOnly
  <2>2. CASE run.st = "ok"
    BY <1>4, <1>9, <2>1, <2>2 DEF PlainStopped
  <2>3. CASE run.st # "ok" /\ ui.bytes = 0
    BY <1>5, <1>9, <2>1, <2>3 DEF PlainStopped
  <2>4. CASE run.st # "ok" /\ ui.bytes # 0
    <3> DEFINE r == tui_fallback_result(ui)
    <3>1. ui' = [ui EXCEPT !.pc = "print", !.exit = "130", !.result = r]
      BY <1>9, <2>4 DEF PlainStopped
    <3>2. ui.result.kind # "server" /\ ui.bytes > 0
      BY <1>0, <1>1, <2>4 DEF SummaryInv
    <3>3. OfThisRun(r) /\ r \in Results
      BY <1>0, <3>2, SummaryOfThisRun DEF OfThisRun
    <3> HIDE DEF r
    <3>4. /\ ui' \in UiState /\ ui'.mode = ui.mode /\ ui'.run = ui.run /\ ui'.pc = "print"
          /\ ui'.result = r /\ ui'.bytes = ui.bytes /\ ui'.exit = "130"
      BY <1>1, <3>1, <3>3 DEF UiState, Pcs
    <3> QED
      BY <1>2, <2>1, <3>3, <3>4
  <2> QED
    BY <2>2, <2>3, <2>4
<1>10. CASE PlainPrinted
  <2>1. prog' = prog /\ ui.pc = "print"
    BY <1>10 DEF PlainPrinted, NoRun, clientVars
  <2>2. \/ ui' = [ui EXCEPT !.pc = "done"]
        \/ ui' = [ui EXCEPT !.pc = "save"] /\ ui.result.kind = "server"
    BY <1>0, <1>10, <2>1 DEF PlainPrinted, SummaryInv
  <2>3. /\ ui' \in UiState /\ ui'.mode = ui.mode /\ ui'.run = ui.run
        /\ ui'.pc \in {"done", "save"} /\ ui'.result = ui.result /\ ui'.bytes = ui.bytes
        /\ ui'.pc = "save" => ui.result.kind = "server"
    BY <1>1, <2>2 DEF UiState, Pcs
  <2> QED
    BY <1>1, <1>2, <2>1, <2>3
<1> QED
  BY <1>3, <1>6, <1>7, <1>8, <1>9, <1>10 DEF PlainStep

\* After the loop: the result is there, whatever is saved or delivered.
LEMMA EndKeeps ==
    ASSUME RunInv, UiInv, Controls, prog' = prog, SaveInv',
           ui.pc \in {"save", "finish", "prefs"}, ui' \in UiState, ui'.mode = ui.mode,
           ui'.pc \in {"save", "finish", "prefs", "done", "crashed"}, ui'.run = ui.run,
           ui'.bytes = ui.bytes, ui'.result = ui.result,
           ui'.pc = "save" \/ saving'.of = "result" => ui.result.kind = "server",
           \/ push' \subseteq push
           \/ push' = push \cup {run.id} /\ ui.result.kind = "server"
    PROVE  UiInv'
<1>1. UiShape'
  BY DEF UiInv, UiShape
<1>2. SummaryInv'
  <2>1. run'.id = run.id /\ run'.st = run.st /\ ghost' = ghost /\ run.id \in Nat
    BY ControlFields, RunFields
  <2>2. \A i \in push' : i \in Nat /\ i <= run.id /\ (i = run.id => ui.result.kind = "server")
    BY <2>1 DEF UiInv, SummaryInv
  <2> QED
    BY <2>1, <2>2 DEF UiInv, SummaryInv
<1> QED
  BY <1>1, <1>2 DEF UiInv

LEMMA EndingKeeps ==
    ASSUME RunInv, UiInv, Controls, EndingStep \/ FinishSkip \/ Crash
    PROVE  UiInv'
<1>0. /\ UiShape /\ SummaryInv /\ SaveInv /\ ui.pc \in {"save", "finish", "prefs"} /\ prog' = prog
  BY DEF UiInv, EndingStep, SaveResult, ResultSaved, Finish, SavePrefs, PrefsSaved, FinishSkip,
         Crash, NoRun, clientVars
<1>1. ui \in UiState /\ (ui.pc = "save" \/ saving.of = "result" => ui.result.kind = "server")
  BY <1>0, UiFields DEF SummaryInv
<1>2. ASSUME NEW pc \in {"finish", "prefs", "done", "crashed"}, ui' = [ui EXCEPT !.pc = pc]
      PROVE  /\ ui' \in UiState /\ ui'.mode = ui.mode /\ ui'.pc = pc /\ ui'.run = ui.run
             /\ ui'.bytes = ui.bytes /\ ui'.result = ui.result
  BY <1>1, <1>2 DEF UiState, Pcs
<1>3. ASSUME NEW pc \in {"finish", "done"}, NEW e \in {"ok", "err"},
             ui' = [ui EXCEPT !.pc = pc, !.exit = e]
      PROVE  /\ ui' \in UiState /\ ui'.mode = ui.mode /\ ui'.pc = pc /\ ui'.run = ui.run
             /\ ui'.bytes = ui.bytes /\ ui'.result = ui.result
  BY <1>1, <1>3 DEF UiState, Pcs
<1>4. ASSUME AfterSave, ui.pc = "save", SaveInv', saving'.of # "result" PROVE UiInv'
  <2>1. /\ ui' = [ui EXCEPT !.pc = "finish", !.exit = "ok"]
        /\ push' = push \/ push' = push \cup {run.id}
    BY <1>4 DEF AfterSave, queue
  <2> QED
    BY <1>0, <1>1, <1>3, <1>4, <2>1, EndKeeps
<1>5. CASE SaveResult
  <2>1. CASE SaveStart("result") /\ UNCHANGED <<ui, push>>
    <3>1. SaveInv' /\ ui.pc = "save"
      BY <1>0, <1>5, <2>1, SaveStartKeeps DEF SaveResult
    <3> QED
      BY <1>0, <1>1, <2>1, <3>1, EndKeeps
  <2>2. CASE UNCHANGED saveVars /\ AfterSave
    <3>1. ui.pc = "save" /\ saving.st = "idle" /\ saving' = saving
      BY <1>5, <2>2 DEF SaveResult, saveVars
    <3>2. ui'.pc = "finish"
      BY <1>1, <1>3, <2>2 DEF AfterSave
    <3>3. SaveInv' /\ saving'.of # "result"
      BY <1>0, <2>2, <3>1, <3>2, FilesAlone DEF SaveInv
    <3> QED
      BY <1>4, <2>2, <3>1, <3>3
  <2> QED
    BY <1>5, <2>1, <2>2 DEF SaveResult
<1>6. CASE ResultSaved
  <2>1. CASE AfterSave
    <3>1. ui'.pc = "finish" /\ ui.pc = "save"
      BY <1>1, <1>3, <1>6, <2>1 DEF AfterSave, ResultSaved
    <3>2. SaveInv' /\ saving'.of # "result"
      BY <1>6, <3>1, SaveEndKeeps DEF ResultSaved
    <3> QED
      BY <1>4, <2>1, <3>1, <3>2
  <2>2. CASE ui' = [ui EXCEPT !.pc = "done", !.exit = "err"] /\ UNCHANGED push
    <3>1. /\ ui' \in UiState /\ ui'.mode = ui.mode /\ ui'.pc = "done" /\ ui'.run = ui.run
          /\ ui'.bytes = ui.bytes /\ ui'.result = ui.result
      BY <1>3, <2>2
    <3>2. SaveInv' /\ saving'.of # "result"
      BY <1>6, <3>1, SaveEndKeeps DEF ResultSaved
    <3> QED
      BY <1>0, <2>2, <3>1, <3>2, EndKeeps
  <2> QED
    BY <1>6, <2>1, <2>2 DEF ResultSaved
<1>7. CASE Finish
  <2>1. PICK pc \in {"prefs", "done"} : ui' = [ui EXCEPT !.pc = pc]
    BY <1>7 DEF Finish
  <2>2. /\ ui' \in UiState /\ ui'.mode = ui.mode /\ ui'.pc = pc /\ ui'.run = ui.run
        /\ ui'.bytes = ui.bytes /\ ui'.result = ui.result
    BY <1>2, <2>1
  <2>3. SaveInv' /\ saving'.of # "result" /\ push' = push
    BY <1>0, <1>7, <2>2, FilesAlone DEF Finish, NoSave, SaveInv, saveVars
  <2> QED
    BY <1>0, <2>2, <2>3, EndKeeps
<1>8. CASE FinishSkip
  <2>1. ui' = ui /\ push' = {} /\ ui.pc = "finish" /\ UNCHANGED saveVars
    BY <1>8 DEF FinishSkip, NoSave
  <2>2. SaveInv' /\ saving' = saving
    BY <1>0, <2>1, FilesAlone DEF saveVars
  <2> QED
    BY <1>0, <1>1, <2>1, <2>2, EndKeeps
<1>9. CASE SavePrefs
  <2>1. SaveStart("prefs") /\ ui' = ui /\ push' = push /\ ui.pc = "prefs"
    BY <1>9 DEF SavePrefs
  <2>2. SaveInv' /\ saving'.of = "prefs"
    BY <1>0, <2>1, SaveStartKeeps
  <2> QED
    BY <1>0, <1>1, <2>1, <2>2, EndKeeps
<1>10. CASE PrefsSaved
  <2>1. /\ ui' \in UiState /\ ui'.mode = ui.mode /\ ui'.pc = "done" /\ ui'.run = ui.run
        /\ ui'.bytes = ui.bytes /\ ui'.result = ui.result
    BY <1>2, <1>10 DEF PrefsSaved
  <2>2. SaveInv' /\ saving'.of # "result" /\ push' = push
    BY <1>10, <2>1, SaveEndKeeps DEF PrefsSaved
  <2> QED
    BY <1>0, <2>1, <2>2, EndKeeps
<1>11. CASE Crash
  <2>1. /\ ui' \in UiState /\ ui'.mode = ui.mode /\ ui'.pc = "crashed" /\ ui'.run = ui.run
        /\ ui'.bytes = ui.bytes /\ ui'.result = ui.result
    BY <1>2, <1>11 DEF Crash
  <2>2. SaveInv' /\ saving' = saving /\ push' = push
    BY <1>0, <1>11, <2>1, CrashKeeps DEF Crash, SaveCrash
  <2> QED
    BY <1>0, <1>1, <2>1, <2>2, EndKeeps
<1> QED
  BY <1>5, <1>6, <1>7, <1>8, <1>9, <1>10, <1>11 DEF EndingStep

\* Steps that leave the program's own state as it is.
LEMMA RestKeeps ==
    ASSUME RunInv, UiInv, Controls, ui' = ui, prog' = prog, push' \subseteq push,
           SaveInv', saving'.of = saving.of
    PROVE  UiInv'
<1>1. UiShape'
  BY DEF UiInv, UiShape
<1>2. run'.id = run.id /\ run'.st = run.st /\ ghost' = ghost
  BY ControlFields
<1>3. SummaryInv'
  BY <1>2 DEF UiInv, SummaryInv
<1> QED
  BY <1>1, <1>3 DEF UiInv

LEMMA OwnKeeps ==
    ASSUME RunInv, UiInv, Own
    PROVE  UiInv'
<1>0. Controls
  BY OwnControls
<1>1. CASE RestartTimeout
  <2>1. ui' = ui /\ push' = push /\ UNCHANGED saveVars /\ prog' = prog
    BY <1>1 DEF RestartTimeout, NoSave, RunOnly
  <2>2. SaveInv' /\ saving' = saving
    BY <2>1, FilesAlone DEF UiInv, saveVars
  <2> QED
    BY <1>0, <2>1, <2>2, RestKeeps
<1>2. CASE ~Gone /\ SaveStep /\ NoRun /\ UNCHANGED sessionVars
  <2>1. ui' = ui /\ push' = push /\ prog' = prog
    BY <1>2 DEF sessionVars, NoRun, clientVars
  <2>2. SaveInv'
    BY <1>2, <2>1, SaveStepKeeps DEF UiInv
  <2>3. saving'.of = saving.of
    BY <1>2 DEF UiInv, SaveInv, SaveStep, Inspect, CreateTemp, WriteTemp, sync_all, persist,
                Truncate, Overwrite, Fails, Step
  <2> QED
    BY <1>0, <2>1, <2>2, <2>3, RestKeeps
<1>3. CASE \E i \in 1 .. MaxRuns : PushEnds(i)
  <2>1. ui' = ui /\ push' \subseteq push /\ UNCHANGED saveVars /\ prog' = prog
    BY <1>3 DEF PushEnds, NoSave, NoRun, clientVars
  <2>2. SaveInv' /\ saving' = saving
    BY <2>1, FilesAlone DEF UiInv, saveVars
  <2> QED
    BY <1>0, <2>1, <2>2, RestKeeps
<1> QED
  BY <1>0, <1>1, <1>2, <1>3, TopExpiredKeeps, KeyQuitKeeps, KeyRunKeeps, PollKeeps,
     PlainModeKeeps, EndingKeeps
  DEF Own, UserKey

\* What a step of the run, of the server or of the clock leaves of its
\* history: the updates in the channel are counted, and a run that is over
\* stays as it ended.
LEMMA RunHistory ==
    ASSUME RunInv, ClientStep \/ ServerStep \/ ClientTick
    PROVE  /\ run'.id = run.id
           /\ IsOver => run'.st = run.st
           /\ \/ prog' = prog /\ ghost'.seen = ghost.seen
              \/ prog' = prog + 1 /\ ghost'.seen = ghost.seen + 1
<1>1. /\ run \in RunState /\ run.id \in Nat /\ ghost \in [seen : Nat, ran : Nat]
  BY RunFields
<1>2. ASSUME NEW st \in Over, Leave(st), prog' = prog, ~IsOver
      PROVE  run'.id = run.id /\ ~IsOver /\ prog' = prog /\ ghost'.seen = ghost.seen
  <2>1. NewRun(run.id) \in RunState /\ NewRun(run.id).id = run.id
    BY <1>1, NewRunFields
  <2>2. run'.id = run.id
    BY <1>2, <2>1 DEF Leave, RunState
  <2> QED
    BY <1>1, <1>2, <2>2 DEF Leave
<1>3. CASE OnInterval \/ LocalInterval \/ SendEnds
  <2>1. SendProgress /\ ~IsOver
    BY <1>3 DEF OnInterval, LocalInterval, SendEnds, InLoop, IsOver, Over
  <2>2. run'.id = run.id
    BY <1>1, <2>1 DEF SendProgress, RunState
  <2> QED
    BY <1>1, <2>1, <2>2 DEF SendProgress
<1>4. CASE OnResult \/ OnFailure \/ ResponseTimeout
  BY <1>1, <1>4 DEF OnResult, OnFailure, ResponseTimeout, ResponseDue, Received, InLoop, Exit,
                    RunState, IsOver, Over
<1>5. CASE OnCancelled \/ OnCancelRequest
  <2>1. start_control_cancel_wait(run).id = run.id
    BY <1>1 DEF start_control_cancel_wait, RunState
  <2>2. start_control_cancel_wait(run) \in RunState
    BY <1>1, CancelWaitFields
  <2> QED
    BY <1>5, <2>1, <2>2 DEF OnCancelled, OnCancelRequest, Received, InLoop, RunState, IsOver, Over
<1>6. CASE OnPauseRequest
  <2> DEFINE c == PauseClocks(run, ctl.pause)
  <2>1. /\ InLoop /\ prog' = prog /\ ghost' = ghost
        /\ \/ run' = [c EXCEPT !.st = "write", !.out = IF ctl.pause THEN "Pause" ELSE "Resume"]
           \/ run' = c
    BY <1>6 DEF OnPauseRequest
  <2>2. c \in RunState /\ c.id = run.id
    <3>1. c \in RunState
      BY <1>1, RunFields, PauseClocksFields
    <3>2. c.id = run.id
      BY <1>1 DEF PauseClocks, RunState
    <3> QED
      BY <3>1, <3>2
  <2> HIDE DEF c
  <2> QED
    BY <2>1, <2>2 DEF RunState, InLoop, IsOver, Over
<1>7. CASE WriteDone \/ WriteTimeout \/ LocalEnd \/ SendingDone
  BY <1>1, <1>7 DEF WriteDone, WriteTimeout, LocalEnd, LocalEndDue, SendingDone, InLoop, RunState,
                    IsOver, Over
<1>8. CASE HandshakeOk \/ StreamsUp \/ QuicStreamsUp
  BY <1>1, <1>8 DEF HandshakeOk, StreamsUp, QuicStreamsUp, RunState, IsOver, Over
<1>9. CASE HandshakeErr \/ StreamsFail \/ RunAborted
  <2>1. /\ ~IsOver /\ prog' = prog /\ (Leave("err") \/ Leave("aborted"))
    BY <1>9 DEF HandshakeErr, StreamsFail, RunAborted, IsOver, Over
  <2> QED
    BY <1>2, <2>1 DEF Over
<1>10. CASE Closed \/ JoinDone \/ JoinTimeout
  <2>1. ~IsOver /\ prog' = prog /\ run.result \in Over
    BY <1>1, <1>10 DEF Closed, JoinDone, JoinTimeout, IsOver, Over, RunState
  <2>2. CASE Leave(run.result)
    BY <1>2, <2>1, <2>2
  <2>3. CASE run' = [run EXCEPT !.st = "closing", !.left = CloseGrace] /\ ghost' = ghost
    BY <1>1, <2>1, <2>3 DEF RunState
  <2> QED
    BY <1>10, <2>2, <2>3 DEF Closed, JoinDone, JoinTimeout, AfterJoin
<1>11. CASE TaskEnds
  BY <1>11 DEF TaskEnds
<1>12. CASE ServerStep
  BY <1>12 DEF ServerStep, ServerEnds, ServerReads, LinkDies, ServerOnly
<1>13. CASE ClientTick
  <2>1. run'.id = run.id /\ run'.st = run.st
    BY <1>1, <1>13, TickRunFields DEF ClientTick
  <2>2. prog' = prog /\ ghost'.seen = ghost.seen
    BY <1>1, <1>13 DEF ClientTick
  <2> QED
    BY <2>1, <2>2
<1> QED
  BY <1>3, <1>4, <1>5, <1>6, <1>7, <1>8, <1>9, <1>10, <1>11, <1>12, <1>13
  DEF ClientStep, RunStep, ConnectStep, LoopStep, QuicLoopStep, EndStep, SharedArms

\* The run goes on under the program, which may wait for a deadline meanwhile.
LEMMA RunGoesOn ==
    ASSUME RunInv, UiInv, RunInv', ~Gone,
           \/ (ClientStep \/ ServerStep) /\ ClientOnly
           \/ Tick
    PROVE  UiInv'
<1>1. /\ run'.id = run.id
      /\ IsOver => run'.st = run.st
      /\ \/ prog' = prog /\ ghost'.seen = ghost.seen
         \/ prog' = prog + 1 /\ ghost'.seen = ghost.seen + 1
  BY RunHistory DEF Tick
<1>2. /\ ui' \in UiState /\ ui'.mode = ui.mode /\ ui'.pc = ui.pc /\ ui'.run = ui.run
      /\ ui'.bytes = ui.bytes /\ ui'.result = ui.result /\ ui'.exit = ui.exit
  <2>1. ui \in UiState /\ Lower(ui.deadline) \in Int
    BY UiFields DEF UiInv, Lower
  <2>2. CASE ui' = ui
    BY <2>1, <2>2
  <2>3. CASE ui' = [ui EXCEPT !.deadline = Lower(ui.deadline)]
    BY <2>1, <2>3 DEF UiState
  <2> QED
    BY <2>1, <2>2, <2>3 DEF ClientOnly, Tick, UiState
<1>3. UNCHANGED <<disk, saving, push>>
  BY DEF ClientOnly, Tick, NoSave, saveVars
<1>4. UiShape' /\ SaveInv'
  BY <1>2, <1>3, FilesAlone DEF UiInv, UiShape, saveVars
<1>5. SummaryInv'
  <2>1. /\ ui.bytes \in Nat /\ prog \in Nat /\ ghost.seen \in Nat /\ ui.result \in Results
        /\ ui.result.bytes \in Nat
    BY UiFields DEF UiInv, Results
  <2>2. /\ ui.bytes <= ghost.seen => ui.bytes <= ghost'.seen
        /\ ui.bytes + prog = ghost.seen => ui.bytes + prog' = ghost'.seen
        /\ ui.result.bytes \in 1..ghost.seen => ui.result.bytes \in 1..ghost'.seen
    BY <1>1, <2>1
  <2>3. run.st = "ok" => run'.st = "ok"
    BY <1>1 DEF IsOver, Over
  <2> QED
    BY <1>1, <1>2, <1>3, <2>2, <2>3 DEF UiInv, SummaryInv
<1> QED
  BY <1>4, <1>5 DEF UiInv

\* A new run: nothing of the old one is shown, saved or pushed for it.
LEMMA RestartedKeeps ==
    ASSUME RunInv, UiInv, Restarted
    PROVE  UiInv'
<1>0. /\ UiShape /\ SummaryInv /\ SaveInv /\ ui.pc = "restart" /\ UNCHANGED saveVars
      /\ push' = push /\ Start(ui.next, run.id + 1)
      /\ ui' = [ui EXCEPT !.run = TRUE, !.state = "running", !.result = NoResult,
                          !.deadline = Forever, !.pc = "top"]
  BY DEF UiInv, Restarted, Restarting, NoSave
<1>1. /\ run.id \in Nat /\ ui \in UiState /\ Forever \in Int /\ ui.bytes = 0
      /\ NoResult \in Results /\ NoResult.kind = "none"
  BY <1>0, UiFields, NoResultFields DEF SummaryInv
<1> DEFINE v == [ui EXCEPT !.run = TRUE, !.state = "running", !.result = NoResult]
<1>2. ui' = [v EXCEPT !.deadline = Forever, !.pc = "top"]
  BY <1>0, <1>1 DEF UiState
<1>3. /\ v \in UiState /\ v.run = TRUE /\ v.result = NoResult /\ v.bytes = 0 /\ v.mode = ui.mode
  BY <1>1 DEF UiState
<1> HIDE DEF v
<1>4. /\ ui' \in UiState /\ ui'.run = TRUE /\ ui'.result = NoResult /\ ui'.bytes = 0
      /\ ui'.pc = "top" /\ ui'.mode = ui.mode
  BY <1>1, <1>2, <1>3 DEF UiState, Pcs
<1>5. UiShape'
  BY <1>0, <1>4 DEF UiShape
<1>6. SaveInv' /\ saving'.of # "result"
  <2>1. SaveInv'
    BY <1>0, <1>4, FilesAlone
  <2> QED
    BY <2>1, <1>4 DEF SaveInv
<1>7. SummaryInv'
  <2>1. run'.id = run.id + 1 /\ prog' = 0 /\ ghost'.seen = 0
    <3>1. run.id + 1 \in Nat
      BY <1>1
    <3> QED
      BY <1>0, <3>1, NewRunFields DEF Start
  <2>2. \A i \in push' : i \in Nat /\ i <= run'.id /\ i # run'.id
    BY <1>0, <1>1, <2>1 DEF SummaryInv
  <2> QED
    BY <1>1, <1>4, <1>6, <2>1, <2>2 DEF SummaryInv
<1> QED
  BY <1>5, <1>6, <1>7 DEF UiInv

-----------------------------------------------------------------------------
(* The theorems.                                                             *)

LEMMA InitHolds == Init => RunInv /\ UiInv
<1> SUFFICES ASSUME Init PROVE RunInv /\ UiInv
  OBVIOUS
<1>1. PICK c \in Confs :
         /\ conf = c /\ run = NewRun(1) /\ ctl = NoChannels
         /\ stop = FALSE /\ held = FALSE /\ tasks = 0 /\ up = <<>> /\ down = <<>>
         /\ srv = "testing" /\ prog = 0 /\ ghost = [seen |-> 0, ran |-> 0]
  BY DEF Init
<1>2. c \in ConfType
  BY ClientAssumption DEF ClientAssumption
<1>3. /\ run \in RunState /\ run.st = "handshake" /\ run.paused = FALSE /\ run.id = 1
      /\ run.stopped = FALSE /\ run.out = "none" /\ ctl \in Channels
      /\ ctl.cancel = FALSE /\ ctl.cancelNew = FALSE
  BY <1>1, NewRunFields, NoChannelsFields
<1>4. RunInv
  <2>1. RunShape
    BY <1>1, <1>2, <1>3, NoMessages DEF RunShape
  <2> QED
    BY <1>1, <1>3, <2>1
    DEF RunInv, TrafficInv, CancelInv, ClockInv, Starting, InTest, IsOver, Over
<1>5. PICK m \in Modes :
         ui = [mode |-> m, pc |-> IF m = "tui" THEN "top" ELSE "wait", run |-> TRUE,
               state |-> "running", deadline |-> Forever, bytes |-> 0, result |-> NoResult,
               next |-> conf, presses |-> 0, exit |-> "none"]
  BY DEF Init
<1>6. m \in {"tui", "plain"}
  BY SessionAssumption DEF SessionAssumption
<1>7. /\ ui \in UiState /\ ui.mode = m /\ ui.pc = (IF m = "tui" THEN "top" ELSE "wait")
      /\ ui.run = TRUE /\ ui.bytes = 0 /\ ui.result.kind = "none"
  BY <1>1, <1>2, <1>5, <1>6, NoResultFields DEF UiState, Pcs, Forever
<1>8. UiShape
  BY <1>6, <1>7 DEF UiShape
<1>9. SaveInv /\ saving.of = "none" /\ push = {}
  BY <1>6, <1>7 DEF Init, SaveInit, SaveInv, NotSaving, Places, SaveStates, Before
<1>10. SummaryInv
  BY <1>1, <1>3, <1>6, <1>7, <1>9 DEF SummaryInv
<1> QED
  BY <1>4, <1>8, <1>9, <1>10 DEF UiInv

LEMMA SessionStep ==
    ASSUME RunInv, UiInv, [Next]_vars
    PROVE  RunInv' /\ UiInv'
<1>1. RunInv'
  BY RunStepKeeps DEF UiInv
<1>2. CASE ~Gone /\ (ClientStep \/ ServerStep) /\ ClientOnly
  BY <1>1, <1>2, RunGoesOn
<1>3. CASE Tick
  BY <1>1, <1>3, RunGoesOn DEF Tick
<1>4. CASE Restarted
  BY <1>1, <1>4, RestartedKeeps
<1>5. CASE Own
  BY <1>1, <1>5, OwnKeeps
<1>6. CASE UNCHANGED vars
  <2>1. Controls /\ ui' = ui /\ push' = push /\ prog' = prog /\ UNCHANGED saveVars
    BY <1>6, RunFields DEF vars, saveVars, Controls
  <2>2. SaveInv' /\ saving' = saving
    BY <2>1, FilesAlone DEF UiInv, saveVars
  <2> QED
    BY <1>1, <2>1, <2>2, RestKeeps
<1> QED
  BY <1>2, <1>3, <1>4, <1>5, <1>6, StepKinds

LEMMA SessionInvariant == Spec => []SessionInv
<1>1. Init => SessionInv
  BY InitHolds DEF SessionInv
<1>2. SessionInv /\ [Next]_vars => SessionInv'
  BY SessionStep DEF SessionInv
<1> QED
  BY <1>1, <1>2, PTL DEF Spec

(***************************************************************************)
(* Every variable of the client and of the program around it keeps its     *)
(* type: the control loop's local state, its channels and messages, the    *)
(* saved files, and the state of the terminal or plain interface.          *)
(***************************************************************************)
THEOREM TypeCorrect == Spec => [](RunShape /\ UiShape)
<1>1. SessionInv => RunShape /\ UiShape
  BY DEF SessionInv, RunInv, UiInv
<1> QED
  BY <1>1, SessionInvariant, PTL

(***************************************************************************)
(* However a run of the client ends, for any number of streams, restarts   *)
(* and control requests, the streams it leaves running were told to stop   *)
(* (ClientRunCleanup and the exits of the control loop).                   *)
(***************************************************************************)
THEOREM StraysStop == Spec => []NoStrayTraffic
<1>1. SessionInv => NoStrayTraffic
  BY DEF SessionInv, RunInv, TrafficInv, NoStrayTraffic
<1> QED
  BY <1>1, SessionInvariant, PTL

(***************************************************************************)
(* The local clock ends a timed test only after its streams were free to   *)
(* run for the whole duration, for any duration and any number and length  *)
(* of pauses (client.rs, the pause arm of the control loop).               *)
(***************************************************************************)
THEOREM RunsItsTime == Spec => []FullDuration
<1>1. SessionInv => FullDuration
  BY DEF SessionInv, RunInv, ClockInv, FullDuration
<1> QED
  BY <1>1, SessionInvariant, PTL

(***************************************************************************)
(* A crash, or a step of a save that fails, leaves the old contents or all *)
(* of the new ones at a path in a writable directory (write_with()).       *)
(***************************************************************************)
THEOREM CrashSafe == Spec => []FilesSurviveCrash
<1>1. SessionInv => FilesSurviveCrash
  BY DEF SessionInv, UiInv, SaveInv, FilesSurviveCrash, SaveSurvivesCrash, At
<1> QED
  BY <1>1, SessionInvariant, PTL

(***************************************************************************)
(* The summary, the saved file and the pushed metrics are of the current   *)
(* run: the fallback counts exactly what this run reported, and only what  *)
(* the server sent is saved or pushed (run_tui_loop, run_client_plain).    *)
(***************************************************************************)
THEOREM SummaryRight == Spec => []SummaryIsOfThisRun
<1>1. SessionInv => SummaryIsOfThisRun
  BY DEF SessionInv, UiInv, SummaryInv, SummaryIsOfThisRun, Restarting
<1> QED
  BY <1>1, SessionInvariant, PTL
=============================================================================
