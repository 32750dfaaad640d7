----------------------------- MODULE Reporting -----------------------------
(***************************************************************************)
(* One running test as the server sees it: the report loop of              *)
(* serve/reporting.rs (run, run_inner, Reporting::finish), the control     *)
(* reader that feeds it, the data tasks it ends, and the part of           *)
(* run_test/run_quic_test that joins them and sends the Result.            *)
(*                                                                         *)
(* The loop is a select! over the test deadline, the drain window, the two *)
(* "data done" channels, the sampling timer, client commands and the       *)
(* control writer.  tokio polls the branches in random order, so every     *)
(* ready branch may be taken.  The writer may be blocked for ever: writing *)
(* a piece of a frame is always possible and never owed.                   *)
(*                                                                         *)
(* `now` counts milliseconds since the loop started.  It advances only     *)
(* when no timer of the loop is due: the runtime serves a timer at once.   *)
(* What the client has received is kept as the state of its decoder:       *)
(* frames completed, and the bytes and time their intervals report.        *)
(***************************************************************************)
EXTENDS Integers, Sequences

CONSTANTS
    SendTasks,       \* data tasks that send; they hold sending_done handles
    RecvTasks,       \* data tasks that receive; they hold recv_done handles
    Tests,           \* the tests the client may ask for: see TestStart below
    StatsInterval,   \* STATS_INTERVAL
    DrainGrace,      \* finish_drain_grace(protocol)
    CancelFlush,     \* CANCEL_FLUSH_TIMEOUT
    ResultFlush,     \* RESULT_FLUSH_TIMEOUT
    FrameLen,        \* pieces the writer may split a frame into
    MaxBytes,        \* bound: bytes the data tasks move
    MaxCmds,         \* bound: commands the client sends
    MaxNow           \* bound: the clock of an idle test stops here

\* The parameters of a test; duration 0 is no limit, budget a -n test.
TestStart ==
    [protocol : {"tcp", "udp", "quic"}, direction : {"upload", "download", "bidir"},
     budget : BOOLEAN, duration : Nat]

ASSUME ReportingAssumption ==
    /\ Tests \subseteq TestStart
    /\ StatsInterval \in Nat \ {0}
    /\ DrainGrace \in Nat /\ CancelFlush \in Nat /\ ResultFlush \in Nat
    /\ FrameLen \in Nat \ {0}
    /\ MaxBytes \in Nat /\ MaxCmds \in Nat
    /\ MaxNow \in Nat

Tasks == SendTasks \cup RecvTasks
Commands == {"Cancel", "Pause", "Resume", "Finish"}

\* An absent time, frame and sample.
None == -1
NoFrame == [kind |-> "none", seq |-> 0, bytes |-> 0, span |-> 0, at |-> 0, left |-> 0]
NoSample == [count |-> 0, bytes |-> 0, span |-> 0, at |-> 0]

VARIABLES
    test,          \* the test
    now,
    pc,            \* where run_test is
    \* the data tasks and the channels to them
    running,       \* data tasks that have not returned
    total,         \* TestStats.total_bytes
    dataCancel, dataPaused,   \* values of cancel_tx and pause_tx
    active,        \* the test is in active_tests
    \* the control reader
    cmds,          \* its queue of commands
    cmdsLeft, readerUp,
    \* locals of run_inner
    pausedTotal, pauseStart, nextTick, current, pending, codecSeq,
    cancelled, clientFinished, serverSendDone, drainUntil, receivedAt, sentAt,
    \* record_intervals: the byte count it last saw, all the bytes it has
    \* reported since the start, and when
    sampled, captured, sampledAt,
    \* results of the loop
    transferEnd, finishDeadline, durationMs, resultBytes, cancelDue, resultDue,
    \* the client's decoder
    rxSeq, rxKind, rxBytes, rxSpan, rxAt

dataVars == <<running, total, dataCancel, dataPaused, active>>
cmdVars == <<cmds, cmdsLeft, readerUp>>
clockVars == <<pausedTotal, pauseStart>>
frameVars == <<current, pending, codecSeq>>
budgetVars == <<clientFinished, serverSendDone, drainUntil, receivedAt, sentAt>>
sampleVars == <<nextTick, sampled, captured, sampledAt>>
endVars == <<cancelled, transferEnd, finishDeadline, durationMs, resultBytes,
             cancelDue, resultDue>>
rxVars == <<rxSeq, rxKind, rxBytes, rxSpan, rxAt>>
vars == <<test, now, pc, dataVars, cmdVars, clockVars, frameVars, budgetVars,
          sampleVars, endVars, rxVars>>

Labels == {"top", "select", "ended", "join", "flush", "done", "failed", "removed"}
Kinds == {"none", "interval", "cancelled", "result"}
OptTime == Nat \cup {None}
Frames == [kind : Kinds, seq : Nat, bytes : Nat, span : Nat, at : Nat, left : 0..FrameLen]
Samples == [count : Nat, bytes : Nat, span : Nat, at : Nat]

TypeOK ==
    /\ test \in Tests
    /\ now \in Nat /\ pc \in Labels
    /\ running \subseteq Tasks /\ total \in Nat
    /\ dataCancel \in BOOLEAN /\ dataPaused \in BOOLEAN /\ active \in BOOLEAN
    /\ cmds \in Seq(Commands) /\ cmdsLeft \in Nat /\ readerUp \in BOOLEAN
    /\ pausedTotal \in Nat /\ pauseStart \in OptTime
    /\ nextTick \in Nat /\ sampled \in Nat /\ captured \in Nat /\ sampledAt \in Nat
    /\ current \in Frames /\ pending \in Samples /\ codecSeq \in Nat
    /\ cancelled \in BOOLEAN /\ clientFinished \in BOOLEAN
    /\ serverSendDone \in BOOLEAN
    /\ drainUntil \in OptTime /\ receivedAt \in OptTime /\ sentAt \in OptTime
    /\ transferEnd \in OptTime /\ finishDeadline \in Nat /\ durationMs \in Nat
    /\ resultBytes \in Nat /\ cancelDue \in BOOLEAN /\ resultDue \in BOOLEAN
    /\ rxSeq \in Nat /\ rxKind \in Kinds /\ rxBytes \in Nat /\ rxSpan \in Nat
    /\ rxAt \in Nat

Init ==
    /\ test \in Tests
    /\ now = 0 /\ pc = "top"
    /\ running = (IF test.direction = "upload" THEN {} ELSE SendTasks)
                    \cup (IF test.direction = "download" THEN {} ELSE RecvTasks)
    /\ total = 0
    /\ dataCancel = FALSE /\ dataPaused = FALSE /\ active = TRUE
    /\ cmds = <<>> /\ cmdsLeft = MaxCmds /\ readerUp = TRUE
    /\ pausedTotal = 0 /\ pauseStart = None
    /\ nextTick = StatsInterval /\ sampled = 0 /\ captured = 0 /\ sampledAt = 0
    /\ current = NoFrame /\ pending = NoSample /\ codecSeq = 0
    /\ cancelled = FALSE /\ clientFinished = FALSE /\ serverSendDone = FALSE
    /\ drainUntil = None /\ receivedAt = None /\ sentAt = None
    /\ transferEnd = None /\ finishDeadline = 0 /\ durationMs = 0
    /\ resultBytes = 0 /\ cancelDue = FALSE /\ resultDue = FALSE
    /\ rxSeq = 0 /\ rxKind = "none" /\ rxBytes = 0 /\ rxSpan = 0 /\ rxAt = 0

-----------------------------------------------------------------------------
(* Helpers of the loop *)

\* Test time excluding pauses, including one in progress.
active_elapsed ==
    LET off == pausedTotal + (IF pauseStart = None THEN 0 ELSE now - pauseStart)
    IN  IF off <= now THEN now - off ELSE 0

Timed == test.duration > 0

budget_transfer_complete(finished, sendDone) ==
    CASE test.direction = "upload"   -> finished
      [] test.direction = "download" -> sendDone
      [] test.direction = "bidir"    -> finished /\ sendDone

end_on_server_send == test.budget /\ test.direction # "upload"

\* Mutant: QUIC receive loops get no handle either.
RecvClosedUnlessTcp == ~test.budget \/ test.protocol # "tcp" \/ running \cap RecvTasks = {}

\* The mpsc channels carry no message: recv() returns once every sender is
\* gone.  run_test gives no recv_done handle to a UDP test.
SendClosed == ~end_on_server_send \/ running \cap SendTasks = {}
RecvClosed == ~test.budget \/ test.protocol = "udp" \/ running \cap RecvTasks = {}

\* Option::get_or_insert
GetOrInsert(opt, v) == IF opt = None THEN v ELSE opt

\* Frame::encode: the codec spends a sequence number on it.
Encode(kind, smp) ==
    /\ current' = [kind |-> kind, seq |-> codecSeq, bytes |-> smp.bytes,
                   span |-> smp.span, at |-> smp.at, left |-> FrameLen]
    /\ codecSeq' = codecSeq + 1

\* The loop breaks, or goes round again.
Again(break) == pc' = IF break THEN "ended" ELSE "top"

-----------------------------------------------------------------------------
(* run_inner *)

\* Mutant: the pending interval replaces a frame in flight.
TopReplacesFrame ==
    /\ pc = "top"
    /\ IF Timed /\ active_elapsed >= test.duration
       THEN pc' = "ended" /\ UNCHANGED frameVars
       ELSE /\ pc' = "select"
            /\ IF pending.count > 0
               THEN Encode("interval", pending) /\ pending' = NoSample
               ELSE UNCHANGED frameVars
    /\ UNCHANGED <<test, now, dataVars, cmdVars, clockVars, budgetVars, sampleVars,
                   endVars, rxVars>>

\* The code between the top of the loop and its select!.
Top ==
    /\ pc = "top"
    /\ IF Timed /\ active_elapsed >= test.duration
       THEN pc' = "ended" /\ UNCHANGED frameVars
       ELSE /\ pc' = "select"
            /\ IF current.left = 0 /\ pending.count > 0
               THEN Encode("interval", pending) /\ pending' = NoSample
               ELSE UNCHANGED frameVars
    /\ UNCHANGED <<test, now, dataVars, cmdVars, clockVars, budgetVars, sampleVars,
                   endVars, rxVars>>

DeadlineDue == Timed /\ pauseStart = None /\ now >= pausedTotal + test.duration
DrainDue == drainUntil # None /\ now >= drainUntil
TickDue == now >= nextTick

\* sleep_until(start + paused_total + duration)
DeadlineBranch ==
    /\ pc = "select" /\ DeadlineDue
    /\ pc' = "ended"
    /\ UNCHANGED <<test, now, dataVars, cmdVars, clockVars, frameVars, budgetVars,
                   sampleVars, endVars, rxVars>>

\* sleep_until(drain_until)
DrainBranch ==
    /\ pc = "select" /\ DrainDue
    /\ clientFinished' = TRUE
    /\ receivedAt' = GetOrInsert(receivedAt, active_elapsed)
    /\ drainUntil' = None
    /\ Again(budget_transfer_complete(TRUE, serverSendDone))
    /\ UNCHANGED <<test, now, dataVars, cmdVars, clockVars, frameVars, serverSendDone,
                   sentAt, sampleVars, endVars, rxVars>>

\* recv_done_rx.recv()
RecvDoneBranch ==
    /\ pc = "select" /\ RecvClosed
    /\ \/ drainUntil # None
       \/ test.budget /\ test.protocol # "udp" /\ receivedAt = None
    /\ receivedAt' = GetOrInsert(receivedAt, active_elapsed)
    /\ IF drainUntil # None
       THEN /\ clientFinished' = TRUE
            /\ drainUntil' = None
            /\ Again(budget_transfer_complete(TRUE, serverSendDone))
       ELSE Again(FALSE) /\ UNCHANGED <<clientFinished, drainUntil>>
    /\ UNCHANGED <<test, now, dataVars, cmdVars, clockVars, frameVars, serverSendDone,
                   sentAt, sampleVars, endVars, rxVars>>

\* sending_done_rx.recv()
SendDoneBranch ==
    /\ pc = "select" /\ end_on_server_send /\ ~serverSendDone /\ SendClosed
    /\ serverSendDone' = TRUE
    /\ sentAt' = active_elapsed
    /\ Again(budget_transfer_complete(clientFinished, TRUE))
    /\ UNCHANGED <<test, now, dataVars, cmdVars, clockVars, frameVars, clientFinished,
                   drainUntil, receivedAt, sampleVars, endVars, rxVars>>

\* Sample::capture, at the current byte count and time.
Capture ==
    [count |-> 1, bytes |-> IF total >= sampled THEN total - sampled ELSE 0,
     span |-> now - sampledAt, at |-> active_elapsed]

\* Mutant: the newer sample replaces the pending one.
MergeReplaces(older, newer) == [newer EXCEPT !.count = older.count + newer.count]

\* Sample::merge: deltas and spans add up, the rest is the newer snapshot.
Merge(older, newer) ==
    [count |-> older.count + newer.count, bytes |-> older.bytes + newer.bytes,
     span |-> older.span + newer.span, at |-> newer.at]

\* Mutant: the tick that falls on the deadline is sampled.
TickSamplesDeadline ==
    /\ pc = "select" /\ TickDue
    /\ nextTick' = (now \div StatsInterval + 1) * StatsInterval
    /\ Again(FALSE)
    /\ pending' = Merge(pending, Capture)
    /\ sampled' = total
    /\ captured' = captured + Capture.bytes
    /\ sampledAt' = now
    /\ UNCHANGED <<test, now, dataVars, cmdVars, clockVars, current, codecSeq, budgetVars,
                   endVars, rxVars>>

\* timer.tick(), with MissedTickBehavior::Skip.
TickBranch ==
    /\ pc = "select" /\ TickDue
    /\ nextTick' = (now \div StatsInterval + 1) * StatsInterval
    /\ IF Timed /\ active_elapsed >= test.duration
       THEN /\ Again(TRUE)
            /\ UNCHANGED <<pending, sampled, captured, sampledAt>>
       ELSE /\ Again(FALSE)
            /\ pending' = Merge(pending, Capture)
            /\ sampled' = total
            /\ captured' = captured + Capture.bytes
            /\ sampledAt' = now
    /\ UNCHANGED <<test, now, dataVars, cmdVars, clockVars, current, codecSeq, budgetVars,
                   endVars, rxVars>>

\* cmd_rx.recv() yields a command.
FinishCmd ==
    /\ drainUntil' = IF test.budget /\ ~clientFinished /\ drainUntil = None
                     THEN now + DrainGrace ELSE drainUntil
    /\ Again(FALSE)
    /\ UNCHANGED <<dataVars, clockVars, cancelled, clientFinished>>

CancelCmd ==
    /\ cancelled' = TRUE
    /\ Again(TRUE)
    /\ UNCHANGED <<dataVars, clockVars, clientFinished, drainUntil>>

PauseCmd ==
    /\ pauseStart' = GetOrInsert(pauseStart, now)
    /\ dataPaused' = TRUE
    /\ Again(FALSE)
    /\ UNCHANGED <<pausedTotal, running, total, dataCancel, active, cancelled,
                   clientFinished, drainUntil>>

ResumeCmd ==
    /\ pausedTotal' = IF pauseStart = None THEN pausedTotal
                      ELSE pausedTotal + (now - pauseStart)
    /\ pauseStart' = None
    /\ dataPaused' = FALSE
    /\ Again(FALSE)
    /\ UNCHANGED <<running, total, dataCancel, active, cancelled, clientFinished,
                   drainUntil>>

CommandBranch ==
    /\ pc = "select" /\ cmds # <<>>
    /\ CASE Head(cmds) = "Finish" -> FinishCmd
         [] Head(cmds) = "Cancel" -> CancelCmd
         [] Head(cmds) = "Pause"  -> PauseCmd
         [] Head(cmds) = "Resume" -> ResumeCmd
    /\ cmds' = Tail(cmds)
    /\ UNCHANGED <<test, now, cmdsLeft, readerUp, frameVars, serverSendDone, receivedAt,
                   sentAt, sampleVars, transferEnd, finishDeadline, durationMs,
                   resultBytes, cancelDue, resultDue, rxVars>>

\* cmd_rx.recv() yields None: the reader is gone and its queue is empty.
ReaderGoneBranch ==
    /\ pc = "select" /\ cmds = <<>> /\ ~readerUp
    /\ pc' = "ended"
    /\ UNCHANGED <<test, now, dataVars, cmdVars, clockVars, frameVars, budgetVars,
                   sampleVars, endVars, rxVars>>

\* Pieces of the current frame reach the client; its last one completes it.
Deliver(n) ==
    /\ n \in 1..current.left
    /\ IF n = current.left
       THEN /\ current' = NoFrame
            /\ rxSeq' = rxSeq + 1
            /\ rxKind' = current.kind
            /\ rxBytes' = rxBytes + current.bytes
            /\ rxSpan' = rxSpan + current.span
            /\ rxAt' = IF current.kind = "interval" THEN current.at ELSE rxAt
       ELSE /\ current' = [current EXCEPT !.left = @ - n]
            /\ UNCHANGED rxVars

\* frame.write_once(writer)
WriteBranch ==
    /\ pc = "select"
    /\ \E n \in 1..FrameLen : Deliver(n)
    /\ Again(FALSE)
    /\ UNCHANGED <<test, now, dataVars, cmdVars, clockVars, pending, codecSeq, budgetVars,
                   sampleVars, endVars>>

\* The write fails: run() still stops the data tasks, and run_test gives up.
WriteFailsBranch ==
    /\ pc = "select" /\ current.left > 0
    /\ pc' = "failed"
    /\ dataCancel' = TRUE
    /\ readerUp' = FALSE /\ cmds' = <<>>
    /\ UNCHANGED <<test, now, running, total, dataPaused, active, cmdsLeft, clockVars,
                   frameVars, budgetVars, sampleVars, endVars, rxVars>>

-----------------------------------------------------------------------------
(* After the loop *)

OptMax(a, b) == IF a >= b THEN a ELSE b

\* The duration of the Result; that of a complete -n transfer is at least 1 ms.
duration_ms(end) == IF end # None THEN OptMax(end, 1) ELSE active_elapsed

\* When a complete -n transfer was over.
transfer_end ==
    IF \/ cancelled \/ ~test.budget
       \/ ~budget_transfer_complete(clientFinished, serverSendDone)
    THEN None
    ELSE CASE test.direction = "upload"   -> receivedAt
           [] test.direction = "download" -> sentAt
           [] test.direction = "bidir"    -> OptMax(receivedAt, sentAt)

\* Mutant: the data tasks are not cancelled.
EndRunUncancelled ==
    /\ pc = "ended"
    /\ transferEnd' = transfer_end
    /\ finishDeadline' = now + (IF cancelled THEN CancelFlush ELSE ResultFlush)
    /\ pending' = IF cancelled THEN NoSample ELSE pending
    /\ cancelDue' = cancelled /\ resultDue' = TRUE
    /\ readerUp' = FALSE /\ cmds' = <<>>
    /\ durationMs' = duration_ms(transferEnd')
    /\ pc' = "join"
    /\ UNCHANGED <<test, now, dataVars, cmdsLeft, clockVars, current, codecSeq,
                   budgetVars, sampleVars, cancelled, resultBytes, rxVars>>

\* The rest of run_inner, then run() cancels the data tasks before any
\* terminal output, and run_test stops the reader.  TCP and UDP take the
\* duration here, QUIC after the join.
EndRun ==
    /\ pc = "ended"
    /\ transferEnd' = transfer_end
    /\ finishDeadline' = now + (IF cancelled THEN CancelFlush ELSE ResultFlush)
    /\ pending' = IF cancelled THEN NoSample ELSE pending
    /\ cancelDue' = cancelled /\ resultDue' = TRUE
    /\ dataCancel' = TRUE
    /\ readerUp' = FALSE /\ cmds' = <<>>
    /\ durationMs' = duration_ms(transferEnd')
    /\ pc' = "join"
    /\ UNCHANGED <<test, now, running, total, dataPaused, active, cmdsLeft, clockVars,
                   current, codecSeq, budgetVars, sampleVars, cancelled, resultBytes,
                   rxVars>>

\* Mutant: the Result does not wait for the data tasks.
JoinAtOnce ==
    /\ pc = "join"
    /\ resultBytes' = total
    /\ durationMs' = IF test.protocol = "quic" THEN duration_ms(transferEnd) ELSE durationMs
    /\ pc' = "flush"
    /\ UNCHANGED <<test, now, dataVars, cmdVars, clockVars, frameVars, budgetVars,
                   sampleVars, cancelled, transferEnd, finishDeadline, cancelDue,
                   resultDue, rxVars>>

\* All data tasks have returned: the Result is put together.
Join ==
    /\ pc = "join" /\ running = {}
    /\ resultBytes' = total
    /\ durationMs' = IF test.protocol = "quic" THEN duration_ms(transferEnd) ELSE durationMs
    /\ pc' = "flush"
    /\ UNCHANGED <<test, now, dataVars, cmdVars, clockVars, frameVars, budgetVars,
                   sampleVars, cancelled, transferEnd, finishDeadline, cancelDue,
                   resultDue, rxVars>>

\* Mutant: the Result goes out before Cancelled.
FlushResultFirst ==
    /\ pc = "flush" /\ current.left = 0
    /\ \/ /\ pending.count > 0
          /\ Encode("interval", pending) /\ pending' = NoSample
          /\ UNCHANGED <<pc, cancelDue, resultDue>>
       \/ /\ pending.count = 0 /\ resultDue
          /\ Encode("result", NoSample) /\ resultDue' = FALSE
          /\ UNCHANGED <<pc, pending, cancelDue>>
       \/ /\ pending.count = 0 /\ cancelDue /\ ~resultDue
          /\ Encode("cancelled", NoSample) /\ cancelDue' = FALSE
          /\ UNCHANGED <<pc, pending, resultDue>>
       \/ /\ pending.count = 0 /\ ~cancelDue /\ ~resultDue
          /\ pc' = "done"
          /\ UNCHANGED <<frameVars, cancelDue, resultDue>>
    /\ UNCHANGED <<test, now, dataVars, cmdVars, clockVars, budgetVars, sampleVars,
                   cancelled, transferEnd, finishDeadline, durationMs, resultBytes,
                   rxVars>>

\* Reporting::finish: the frame in flight, the last interval, Cancelled, Result.
FlushNext ==
    /\ pc = "flush" /\ current.left = 0
    /\ \/ /\ pending.count > 0
          /\ Encode("interval", pending) /\ pending' = NoSample
          /\ UNCHANGED <<pc, cancelDue, resultDue>>
       \/ /\ pending.count = 0 /\ cancelDue
          /\ Encode("cancelled", NoSample) /\ cancelDue' = FALSE
          /\ UNCHANGED <<pc, pending, resultDue>>
       \/ /\ pending.count = 0 /\ ~cancelDue /\ resultDue
          /\ Encode("result", NoSample) /\ resultDue' = FALSE
          /\ UNCHANGED <<pc, pending, cancelDue>>
       \/ /\ pending.count = 0 /\ ~cancelDue /\ ~resultDue
          /\ pc' = "done"
          /\ UNCHANGED <<frameVars, cancelDue, resultDue>>
    /\ UNCHANGED <<test, now, dataVars, cmdVars, clockVars, budgetVars, sampleVars,
                   cancelled, transferEnd, finishDeadline, durationMs, resultBytes,
                   rxVars>>

FlushWrite ==
    /\ pc = "flush"
    /\ \E n \in 1..FrameLen : Deliver(n)
    /\ UNCHANGED <<test, now, pc, dataVars, cmdVars, clockVars, pending, codecSeq,
                   budgetVars, sampleVars, endVars>>

\* A write error, or timeout_at(finish_deadline).
FlushFails ==
    /\ pc = "flush" /\ current.left > 0
    /\ pc' = "failed"
    /\ UNCHANGED <<test, now, dataVars, cmdVars, clockVars, frameVars, budgetVars,
                   sampleVars, endVars, rxVars>>

FlushTimeout ==
    /\ pc = "flush" /\ now >= finishDeadline
    /\ pc' = "failed"
    /\ UNCHANGED <<test, now, dataVars, cmdVars, clockVars, frameVars, budgetVars,
                   sampleVars, endVars, rxVars>>

\* remove_active_test, however the test ended; it cancels once more.
Remove ==
    /\ pc \in {"done", "failed"}
    /\ active' = FALSE /\ dataCancel' = TRUE
    /\ pc' = "removed"
    /\ UNCHANGED <<test, now, running, total, dataPaused, cmdVars, clockVars, frameVars,
                   budgetVars, sampleVars, endVars, rxVars>>

-----------------------------------------------------------------------------
(* The data tasks, the client and the clock *)

\* A data task moves and counts bytes; a pause leaves a sender the write it is in.
MoveBytes(t) ==
    /\ t \in running /\ total < MaxBytes
    /\ total' = total + 1
    /\ UNCHANGED <<test, now, pc, running, dataCancel, dataPaused, active, cmdVars,
                   clockVars, frameVars, budgetVars, sampleVars, endVars, rxVars>>

\* A data task returns, on its own or cancelled.  A TCP sender may first clamp
\* its count to the acknowledged bytes: without a byte budget always, with one
\* after a write error.
TaskEnds(t) ==
    /\ t \in running
    /\ running' = running \ {t}
    /\ IF t \in SendTasks /\ test.protocol = "tcp"
       THEN total' \in 0..total
       ELSE UNCHANGED total
    /\ UNCHANGED <<test, now, pc, dataCancel, dataPaused, active, cmdVars, clockVars,
                   frameVars, budgetVars, sampleVars, endVars, rxVars>>

\* The control reader passes on a command of the client.
ReadCommand(c) ==
    /\ readerUp /\ cmdsLeft > 0
    /\ cmds' = Append(cmds, c)
    /\ cmdsLeft' = cmdsLeft - 1
    /\ UNCHANGED <<test, now, pc, dataVars, readerUp, clockVars, frameVars, budgetVars,
                   sampleVars, endVars, rxVars>>

\* EOF or a read error on the control connection.
ReaderExits ==
    /\ readerUp
    /\ readerUp' = FALSE
    /\ UNCHANGED <<test, now, pc, dataVars, cmds, cmdsLeft, clockVars, frameVars,
                   budgetVars, sampleVars, endVars, rxVars>>

\* A step the runtime takes before time passes.
TimerDue ==
    \/ pc \in {"top", "ended"}
    \/ pc = "select" /\ (DeadlineDue \/ DrainDue \/ TickDue)
    \/ pc = "flush" /\ now >= finishDeadline

\* A deadline the test still waits for keeps the clock going past MaxNow.
Awaited ==
    \/ pc = "select" /\ (drainUntil # None \/ (Timed /\ pauseStart = None))
    \/ pc \in {"join", "flush"} /\ now < finishDeadline

ClockTick ==
    /\ ~TimerDue /\ (now < MaxNow \/ Awaited)
    /\ pc \notin {"done", "failed", "removed"}
    /\ now' = now + 1
    /\ UNCHANGED <<test, pc, dataVars, cmdVars, clockVars, frameVars, budgetVars,
                   sampleVars, endVars, rxVars>>

Finished ==
    /\ pc = "removed" /\ running = {}
    /\ UNCHANGED vars

\* The steps the runtime owes the test, whatever the client does.
ServerStep ==
    \/ Top \/ DeadlineBranch \/ DrainBranch \/ RecvDoneBranch \/ SendDoneBranch
    \/ TickBranch \/ CommandBranch \/ ReaderGoneBranch
    \/ EndRun \/ Join \/ FlushNext \/ FlushTimeout \/ Remove

Next ==
    \/ ServerStep
    \/ WriteBranch \/ WriteFailsBranch \/ FlushWrite \/ FlushFails
    \/ \E t \in Tasks : MoveBytes(t) \/ TaskEnds(t)
    \/ \E c \in Commands : ReadCommand(c)
    \/ ReaderExits \/ ClockTick \/ Finished

Spec == Init /\ [][Next]_vars

\* tokio runs the ready branches and timers, time passes, and a cancelled
\* data task returns (SendLoops checks that for the senders).  Nothing makes
\* the client read: no write is owed.
Fairness ==
    /\ WF_vars(ServerStep)
    /\ WF_vars(ClockTick)
    /\ \A t \in Tasks : WF_vars(dataCancel /\ TaskEnds(t))

FairSpec == Spec /\ Fairness

-----------------------------------------------------------------------------
(* Properties *)

\* Whatever the writer does, the intervals the client has, the frame in
\* flight and the pending sample together hold exactly the bytes and the
\* time sampled so far; only a cancel gives up the pending ones.
NothingSampledIsLost ==
    ~cancelled =>
        /\ rxBytes + current.bytes + pending.bytes = captured
        /\ rxSpan + current.span + pending.span = sampledAt

\* The codec's sequence numbers reach the client without a gap: the frame in
\* flight is the next one it expects, and no other has been encoded.
SequenceUnbroken ==
    /\ current.left > 0 => current.seq = rxSeq
    /\ codecSeq = rxSeq + (IF current.left > 0 THEN 1 ELSE 0)

\* The Result is the last message, nothing but it follows Cancelled, and
\* Cancelled is sent only to a client that asked for it.
TerminalOrder ==
    [][rxSeq' # rxSeq =>
         /\ rxKind # "result"
         /\ rxKind = "cancelled" => rxKind' = "result"
         /\ rxKind' = "cancelled" => cancelled
         /\ rxKind' = "result" /\ cancelled => rxKind = "cancelled"]_vars

\* Test time, with or without pauses: rows come in its order, a timed test
\* has none at or after its end, the duration a TCP or UDP Result states is
\* never more than the client asked for, and a -n test that is reported as
\* complete has heard from both sides that send.
RowsInTestTime ==
    /\ [][rxAt' >= rxAt]_vars
    /\ [](pc \in {"join", "flush", "done"} /\ transferEnd # None =>
            /\ test.direction # "download" => clientFinished /\ transferEnd >= receivedAt
            /\ test.direction # "upload" => serverSendDone /\ transferEnd >= sentAt
            /\ transferEnd <= active_elapsed)
    /\ [](Timed => rxAt < test.duration)
    /\ [](Timed /\ test.protocol # "quic" /\ pc \in {"flush", "done"}
             => durationMs <= test.duration)

\* No terminal output while data tasks may still run uncancelled, and the
\* totals in the Result are final.
ResultIsFinal ==
    /\ pc \in {"join", "flush", "done", "failed", "removed"} => dataCancel
    /\ pc \in {"flush", "done"} => running = {} /\ resultBytes = total

\* After the client's Finish, the drain ends when the tail has landed (every
\* receive loop saw its EOF) or the grace window is over (serve.rs:57).
DrainHonoured ==
    [][(drainUntil # None /\ drainUntil' = None)
         => now >= drainUntil \/ running \cap RecvTasks = {}]_vars

Over == pc = "removed"

\* A cancel ends the test even if the client never reads another byte, and
\* so does the loss of the control connection.
StopEnds == (cancelled \/ ~readerUp) ~> Over

\* A timed test ends unless the client leaves it paused.
TimedEnds == Timed /\ (<>[](pauseStart = None)) => <>Over

\* A -n test ends once the data tasks are done and the client said Finish.
BudgetEnds ==
    (test.budget /\ running = {} /\ (drainUntil # None \/ clientFinished)) ~> Over

\* Every test ends: a stopped one, a timed one, and a -n test that has sent
\* all its bytes (serve/reporting.rs, run).
TestEnds == StopEnds /\ TimedEnds /\ BudgetEnds
=============================================================================
