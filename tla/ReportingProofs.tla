-------------------------- MODULE ReportingProofs --------------------------
(***************************************************************************)
(* Safety of the report loop for every duration, interval, grace window,   *)
(* frame split and number of data tasks: nothing sampled is lost, the      *)
(* codec's sequence numbers reach the client unbroken, the Result is final *)
(* and the last message, rows and durations are in test time, and a drain  *)
(* ends when it should.                                                    *)
(***************************************************************************)
EXTENDS Reporting, TLAPS

USE DEF dataVars, cmdVars, clockVars, frameVars, budgetVars, sampleVars,
        endVars, rxVars, None

\* Clock readings lie in the past.
ClockInv == sampledAt <= now /\ pauseStart <= now

\* A slot with nothing left to write holds no bytes.
SlotInv == current.left = 0 => current.bytes = 0 /\ current.span = 0

IInv ==
    /\ TypeOK
    /\ ClockInv
    /\ SlotInv
    /\ NothingSampledIsLost
    /\ SequenceUnbroken
    /\ ResultIsFinal

LEMMA InitIInv == Init => IInv
<1> SUFFICES ASSUME Init PROVE IInv
  OBVIOUS
<1>1. TypeOK
  <2>1. /\ NoFrame \in Frames /\ NoSample \in Samples
    BY ReportingAssumption
    DEF NoFrame, NoSample, Frames, Samples, Kinds, ReportingAssumption
  <2>2. <<>> \in Seq(Commands)
    OBVIOUS
  <2>3. running \subseteq Tasks
    BY DEF Init, Tasks
  <2> QED
    BY <2>1, <2>2, <2>3, ReportingAssumption
    DEF Init, TypeOK, Labels, OptTime, Kinds, ReportingAssumption
<1>2. ClockInv /\ SlotInv /\ NothingSampledIsLost /\ SequenceUnbroken /\ ResultIsFinal
  BY DEF Init, ClockInv, SlotInv, NothingSampledIsLost, SequenceUnbroken,
         ResultIsFinal, NoFrame, NoSample
<1> QED
  BY <1>1, <1>2 DEF IInv

\* Test time is a natural number of clock units.
LEMMA ElapsedType == ASSUME TypeOK, ClockInv PROVE active_elapsed \in Nat
BY DEF TypeOK, ClockInv, active_elapsed, OptTime

\* Encoding into an empty slot.
LEMMA EncodeType ==
    ASSUME TypeOK, NEW kind \in Kinds, NEW smp \in Samples, Encode(kind, smp)
    PROVE  /\ current' \in Frames /\ codecSeq' \in Nat
           /\ current'.bytes = smp.bytes /\ current'.span = smp.span
           /\ current'.left = FrameLen /\ current'.seq = codecSeq
           /\ FrameLen > 0 /\ FrameLen \in Nat
<1>1. FrameLen \in Nat /\ FrameLen > 0
  BY ReportingAssumption DEF ReportingAssumption
<1> QED
  BY <1>1 DEF TypeOK, Encode, Frames, Samples

\* The parts of the state the frames do not share with anything else.
FrameInv == SlotInv /\ NothingSampledIsLost /\ SequenceUnbroken

\* Steps that leave frames, samples and the client alone keep FrameInv.
LEMMA FrameFrame ==
    ASSUME IInv, UNCHANGED <<frameVars, sampled, captured, sampledAt, rxVars>>,
           cancelled => cancelled'
    PROVE  FrameInv'
BY DEF IInv, FrameInv, SlotInv, NothingSampledIsLost, SequenceUnbroken

\* The branches that change neither frames nor samples.
LEMMA PlainBranches ==
    ASSUME IInv,
           \/ DeadlineBranch \/ DrainBranch \/ RecvDoneBranch \/ SendDoneBranch
           \/ ReaderGoneBranch
    PROVE  IInv'
<1> USE DEF IInv
<1>1. active_elapsed \in Nat
  BY ElapsedType
<1>2. TypeOK'
  <2> USE DEF TypeOK, GetOrInsert, Again, Labels, OptTime
  <2>1. CASE DeadlineBranch
    BY <2>1 DEF DeadlineBranch
  <2>2. CASE DrainBranch
    <3>1. receivedAt' \in OptTime /\ drainUntil' \in OptTime /\ pc' \in Labels
      BY <1>1, <2>2 DEF DrainBranch
    <3> QED
      BY <2>2, <3>1 DEF DrainBranch
  <2>3. CASE RecvDoneBranch
    <3>1. receivedAt' \in OptTime
      BY <1>1, <2>3 DEF RecvDoneBranch
    <3>2. pc' \in Labels /\ drainUntil' \in OptTime
      BY <2>3 DEF RecvDoneBranch
    <3>3. clientFinished' \in BOOLEAN
      BY <2>3 DEF RecvDoneBranch
    <3> QED
      BY <2>3, <3>1, <3>2, <3>3 DEF RecvDoneBranch
  <2>4. CASE SendDoneBranch
    BY <1>1, <2>4 DEF SendDoneBranch
  <2>5. CASE ReaderGoneBranch
    BY <2>5 DEF ReaderGoneBranch
  <2> QED
    BY <2>1, <2>2, <2>3, <2>4, <2>5
<1>3. /\ UNCHANGED <<frameVars, sampled, captured, sampledAt, rxVars, cancelled, now,
                     pauseStart>>
      /\ pc' \in {"top", "ended"}
  BY DEF DeadlineBranch, DrainBranch, RecvDoneBranch, SendDoneBranch,
     ReaderGoneBranch, Again
<1>4. FrameInv'
  BY <1>3, FrameFrame
<1>5. ClockInv' /\ ResultIsFinal'
  BY <1>3 DEF ClockInv, ResultIsFinal
<1> QED
  BY <1>2, <1>4, <1>5 DEF FrameInv

\* The top of the loop may move the pending sample into the empty slot.
LEMMA TopStep == ASSUME IInv, Top PROVE IInv'
<1> USE DEF IInv
<1>1. CASE UNCHANGED frameVars
  <2>1. TypeOK'
    BY <1>1 DEF Top, TypeOK, Labels
  <2>2. FrameInv'
    BY <1>1, FrameFrame DEF Top
  <2>3. ClockInv' /\ ResultIsFinal'
    BY DEF Top, ClockInv, ResultIsFinal
  <2> QED
    BY <2>1, <2>2, <2>3 DEF FrameInv
<1>2. CASE /\ current.left = 0 /\ pending.count > 0
           /\ Encode("interval", pending) /\ pending' = NoSample
  <2>1. /\ current' \in Frames /\ codecSeq' \in Nat
        /\ current'.bytes = pending.bytes /\ current'.span = pending.span
        /\ current'.left = FrameLen /\ current'.seq = codecSeq
        /\ FrameLen > 0 /\ FrameLen \in Nat /\ codecSeq' = codecSeq + 1
    <3>1. "interval" \in Kinds /\ pending \in Samples /\ TypeOK
      BY DEF Kinds, TypeOK
    <3> QED
      BY <1>2, <3>1, EncodeType DEF Encode
  <2>2. pending' \in Samples /\ pending'.bytes = 0 /\ pending'.span = 0
    BY <1>2 DEF NoSample, Samples
  <2>3. TypeOK'
    BY <2>1, <2>2 DEF Top, TypeOK, Labels
  <2>4. SlotInv' /\ SequenceUnbroken'
    BY <1>2, <2>1 DEF Top, SlotInv, SequenceUnbroken, TypeOK
  <2>5. NothingSampledIsLost'
    <3>1. current.bytes = 0 /\ current.span = 0
      BY <1>2 DEF SlotInv
    <3>2. /\ rxBytes \in Nat /\ rxSpan \in Nat
          /\ pending.bytes \in Nat /\ pending.span \in Nat
      BY DEF TypeOK, Samples
    <3> QED
      BY <2>1, <2>2, <3>1, <3>2 DEF Top, NothingSampledIsLost
  <2>6. ClockInv' /\ ResultIsFinal'
    BY DEF Top, ClockInv, ResultIsFinal
  <2> QED
    BY <2>3, <2>4, <2>5, <2>6
<1> QED
  BY <1>1, <1>2 DEF Top

\* A tick moves what happened since the last one into the pending sample.
LEMMA TickStep == ASSUME IInv, TickBranch PROVE IInv'
<1> USE DEF IInv
<1>0. nextTick' \in Nat
  <2>1. now \in Nat /\ StatsInterval \in Nat /\ StatsInterval > 0
    BY ReportingAssumption DEF TypeOK, ReportingAssumption
  <2>2. now \div StatsInterval \in Nat
    BY <2>1
  <2>3. (now \div StatsInterval + 1) \in Nat
    BY <2>2
  <2>4. \A a, b \in Nat : a * b \in Nat
    OBVIOUS
  <2> QED
    BY <2>1, <2>3, <2>4 DEF TickBranch
<1>1. CASE UNCHANGED <<pending, sampled, captured, sampledAt>> /\ Again(TRUE)
  <2>1. TypeOK'
    BY <1>0, <1>1 DEF TickBranch, TypeOK, Again, Labels
  <2>2. FrameInv'
    BY <1>1, FrameFrame DEF TickBranch
  <2>3. ClockInv' /\ ResultIsFinal'
    BY <1>1 DEF TickBranch, Again, ClockInv, ResultIsFinal
  <2> QED
    BY <2>1, <2>2, <2>3 DEF FrameInv
<1>2. CASE /\ Again(FALSE) /\ pending' = Merge(pending, Capture)
           /\ sampled' = total /\ captured' = captured + Capture.bytes
           /\ sampledAt' = now
  <2>1. /\ Capture.bytes \in Nat /\ Capture.span = now - sampledAt
        /\ Capture.span \in Nat /\ Capture.at \in Nat /\ Capture.count = 1
    <3>1. total \in Nat /\ sampled \in Nat /\ now \in Nat /\ sampledAt \in Nat
          /\ sampledAt <= now /\ active_elapsed \in Nat
      BY ElapsedType DEF TypeOK, ClockInv
    <3> QED
      BY <3>1 DEF Capture
  <2>2. /\ pending' \in Samples
        /\ pending'.bytes = pending.bytes + Capture.bytes
        /\ pending'.span = pending.span + (now - sampledAt)
    <3>1. pending \in Samples
      BY DEF TypeOK
    <3>2. pending' = Merge(pending, Capture)
      BY <1>2
    <3> HIDE DEF IInv
    <3> QED
      BY <2>1, <3>1, <3>2 DEF Merge, Samples
  <2>3. TypeOK'
    BY <1>0, <1>2, <2>1, <2>2 DEF TickBranch, TypeOK, Again, Labels
  <2>4. SlotInv' /\ SequenceUnbroken'
    BY DEF TickBranch, SlotInv, SequenceUnbroken
  <2>5. NothingSampledIsLost'
    <3>1. /\ rxBytes \in Nat /\ rxSpan \in Nat /\ captured \in Nat
          /\ current.bytes \in Nat /\ current.span \in Nat
          /\ pending.bytes \in Nat /\ pending.span \in Nat
          /\ now \in Nat /\ sampledAt \in Nat
      BY DEF TypeOK, Samples, Frames
    <3> QED
      BY <1>2, <2>1, <2>2, <3>1 DEF TickBranch, NothingSampledIsLost
  <2>6. ClockInv' /\ ResultIsFinal'
    BY <1>2 DEF TickBranch, Again, ClockInv, ResultIsFinal, TypeOK
  <2> QED
    BY <2>3, <2>4, <2>5, <2>6
<1> QED
  BY <1>1, <1>2 DEF TickBranch

\* Commands change the clock, the pause signal and the loop's flags.
LEMMA CommandStep == ASSUME IInv, CommandBranch PROVE IInv'
<1> USE DEF IInv
<1>1. /\ cmds \in Seq(Commands) /\ cmds # <<>>
      /\ Head(cmds) \in Commands /\ cmds' \in Seq(Commands)
  BY DEF CommandBranch, TypeOK
<1>2. FinishCmd \/ CancelCmd \/ PauseCmd \/ ResumeCmd
  BY <1>1 DEF CommandBranch, Commands
<1>3. UNCHANGED <<test, now, cmdsLeft, readerUp, frameVars, serverSendDone, receivedAt,
                  sentAt, sampleVars, transferEnd, finishDeadline, durationMs,
                  resultBytes, cancelDue, resultDue, rxVars>>
  BY DEF CommandBranch
<1>4. pc' \in {"top", "ended"} /\ (cancelled => cancelled')
  BY <1>2 DEF FinishCmd, CancelCmd, PauseCmd, ResumeCmd, Again
<1>5. TypeOK'
  <2>1. DrainGrace \in Nat
    BY ReportingAssumption DEF ReportingAssumption
  <2>2. CASE FinishCmd
    BY <1>1, <1>3, <2>1, <2>2 DEF FinishCmd, Again, TypeOK, Labels, OptTime
  <2>3. CASE CancelCmd
    BY <1>1, <1>3, <2>3 DEF CancelCmd, Again, TypeOK, Labels, OptTime
  <2>4. CASE PauseCmd
    <3>1. pauseStart' \in OptTime
      BY <2>4 DEF PauseCmd, GetOrInsert, TypeOK, OptTime
    <3> QED
      BY <1>1, <1>3, <1>4, <2>4, <3>1 DEF PauseCmd, TypeOK, Labels
  <2>5. CASE ResumeCmd
    <3>1. pauseStart' \in OptTime /\ pausedTotal' \in Nat
      BY <2>5 DEF ResumeCmd, TypeOK, OptTime, ClockInv
    <3> QED
      BY <1>1, <1>3, <1>4, <2>5, <3>1 DEF ResumeCmd, TypeOK, Labels
  <2> QED
    BY <1>2, <2>2, <2>3, <2>4, <2>5
<1>6. FrameInv'
  BY <1>3, <1>4, FrameFrame
<1>7. ClockInv'
  <2>1. now \in Nat /\ now' = now /\ sampledAt' = sampledAt
    BY <1>3 DEF TypeOK
  <2>2. pauseStart' \in {pauseStart, now, -1}
    BY <1>2 DEF FinishCmd, CancelCmd, PauseCmd, ResumeCmd, GetOrInsert
  <2> QED
    BY <2>1, <2>2 DEF ClockInv
<1>8. ResultIsFinal'
  BY <1>4 DEF ResultIsFinal
<1> QED
  BY <1>5, <1>6, <1>7, <1>8 DEF FrameInv

\* A piece of a frame, in the loop or in the final flush, moves no byte from
\* one side of the sum to the other.
LEMMA DeliverStep == ASSUME IInv, WriteBranch \/ FlushWrite PROVE IInv'
<1> USE DEF IInv
<1>1. PICK n \in 1..FrameLen : Deliver(n)
  BY DEF WriteBranch, FlushWrite
<1>2. /\ UNCHANGED <<test, now, dataVars, cmdVars, clockVars, pending, codecSeq, budgetVars,
                     sampleVars, endVars>>
      /\ pc' = "top" \/ pc' = pc
  BY DEF WriteBranch, FlushWrite, Again
<1>3. /\ current \in Frames /\ current.left \in Nat /\ current.left <= FrameLen
      /\ current.bytes \in Nat /\ current.span \in Nat /\ current.at \in Nat
      /\ current.kind \in Kinds /\ FrameLen \in Nat
      /\ n \in Nat /\ n > 0 /\ n <= current.left
  <2>1. FrameLen \in Nat
    BY ReportingAssumption DEF ReportingAssumption
  <2>2. current \in Frames
    BY DEF TypeOK
  <2> QED
    BY <1>1, <2>1, <2>2 DEF Frames, Deliver
<1>4. /\ rxSeq \in Nat /\ rxKind \in Kinds /\ rxBytes \in Nat /\ rxSpan \in Nat
      /\ rxAt \in Nat /\ pending \in Samples
      /\ pending.bytes \in Nat /\ pending.span \in Nat
  BY DEF TypeOK, Samples
<1>5. CASE n = current.left
  <2>1. /\ current' = NoFrame /\ rxSeq' = rxSeq + 1 /\ rxKind' = current.kind
        /\ rxBytes' = rxBytes + current.bytes /\ rxSpan' = rxSpan + current.span
        /\ rxAt' \in {current.at, rxAt}
    BY <1>1, <1>5 DEF Deliver
  <2>2. /\ current' \in Frames /\ current'.left = 0
        /\ current'.bytes = 0 /\ current'.span = 0
    BY <1>3, <2>1 DEF NoFrame, Frames, Kinds
  <2>3. TypeOK'
    <3>1. /\ rxSeq' \in Nat /\ rxKind' \in Kinds /\ rxBytes' \in Nat
          /\ rxSpan' \in Nat /\ rxAt' \in Nat
      BY <1>3, <1>4, <2>1
    <3>2. pc' \in Labels
      BY <1>2 DEF TypeOK, Labels
    <3> QED
      BY <1>2, <2>2, <3>1, <3>2 DEF TypeOK
  <2>4. SlotInv' /\ SequenceUnbroken'
    BY <1>2, <1>3, <1>4, <1>5, <2>1, <2>2 DEF SlotInv, SequenceUnbroken
  <2>5. NothingSampledIsLost'
    BY <1>2, <1>3, <1>4, <2>1, <2>2 DEF NothingSampledIsLost
  <2> QED
    BY <1>2, <2>3, <2>4, <2>5 DEF ClockInv, ResultIsFinal
<1>6. CASE n # current.left
  <2>1. /\ current' = [current EXCEPT !.left = @ - n]
        /\ UNCHANGED rxVars
    BY <1>1, <1>6 DEF Deliver
  <2>2. /\ current' \in Frames /\ current'.left = current.left - n
        /\ current'.bytes = current.bytes /\ current'.span = current.span
        /\ current'.seq = current.seq
    BY <1>3, <2>1 DEF Frames
  <2>3. TypeOK'
    <3>1. pc' \in Labels
      BY <1>2 DEF TypeOK, Labels
    <3> QED
      BY <1>2, <2>1, <2>2, <3>1 DEF TypeOK
  <2>4. SlotInv' /\ SequenceUnbroken'
    BY <1>2, <1>3, <1>6, <2>1, <2>2 DEF SlotInv, SequenceUnbroken
  <2>5. NothingSampledIsLost'
    BY <1>2, <2>1, <2>2 DEF NothingSampledIsLost
  <2> QED
    BY <1>2, <2>3, <2>4, <2>5 DEF ClockInv, ResultIsFinal
<1> QED
  BY <1>5, <1>6

\* Failures, timeouts and removal leave the frames as they are.
LEMMA FailStep ==
    ASSUME IInv, WriteFailsBranch \/ FlushFails \/ FlushTimeout \/ Remove
    PROVE  IInv'
<1> USE DEF IInv
<1>1. /\ UNCHANGED <<test, now, clockVars, frameVars, budgetVars, sampleVars, endVars,
                     rxVars, running, total, dataPaused, cmdsLeft>>
      /\ pc' \in {"failed", "removed"}
      /\ dataCancel' = TRUE \/ (pc = "flush" /\ dataCancel' = dataCancel)
  BY DEF WriteFailsBranch, FlushFails, FlushTimeout, Remove
<1>2. /\ active' \in BOOLEAN /\ readerUp' \in BOOLEAN /\ dataCancel' \in BOOLEAN
      /\ cmds' \in Seq(Commands)
  <2>1. <<>> \in Seq(Commands)
    OBVIOUS
  <2> QED
    BY <2>1 DEF WriteFailsBranch, FlushFails, FlushTimeout, Remove, TypeOK
<1>3. TypeOK'
  BY <1>1, <1>2 DEF TypeOK, Labels
<1>4. FrameInv'
  BY <1>1, FrameFrame
<1>5. ClockInv' /\ ResultIsFinal'
  BY <1>1 DEF ClockInv, ResultIsFinal
<1> QED
  BY <1>3, <1>4, <1>5 DEF FrameInv

\* duration_ms is a natural number of milliseconds.
LEMMA DurationType ==
    ASSUME TypeOK, ClockInv, NEW end \in OptTime
    PROVE  duration_ms(end) \in Nat
BY ElapsedType DEF duration_ms, OptMax, OptTime

\* The end of the loop: a cancel gives up the pending sample, nothing else does.
LEMMA EndRunStep == ASSUME IInv, EndRun PROVE IInv'
<1> USE DEF IInv
<1>1. transferEnd' \in OptTime
  <2>1. /\ receivedAt \in OptTime /\ sentAt \in OptTime /\ None \in OptTime
        /\ OptMax(receivedAt, sentAt) \in OptTime
    BY DEF TypeOK, OptTime, OptMax
  <2>2. test.direction \in {"upload", "download", "bidir"}
    BY ReportingAssumption DEF ReportingAssumption, TestStart, TypeOK
  <2> QED
    BY <2>1, <2>2 DEF EndRun, transfer_end
<1>2. durationMs' \in Nat
  BY <1>1, DurationType DEF EndRun
<1>3. finishDeadline' \in Nat
  <2>1. now \in Nat /\ CancelFlush \in Nat /\ ResultFlush \in Nat
    BY ReportingAssumption DEF TypeOK, ReportingAssumption
  <2>2. \/ finishDeadline' = now + CancelFlush
        \/ finishDeadline' = now + ResultFlush
    BY DEF EndRun
  <2> QED
    BY <2>1, <2>2
<1>4. pending' \in Samples /\ (~cancelled => pending' = pending)
  BY DEF EndRun, TypeOK, NoSample, Samples
<1>5. <<>> \in Seq(Commands)
  OBVIOUS
<1>6. TypeOK'
  BY <1>1, <1>2, <1>3, <1>4, <1>5 DEF EndRun, TypeOK, Labels
<1>7. SlotInv' /\ SequenceUnbroken' /\ NothingSampledIsLost'
  BY <1>4 DEF EndRun, SlotInv, SequenceUnbroken, NothingSampledIsLost
<1>8. ClockInv' /\ ResultIsFinal'
  BY DEF EndRun, ClockInv, ResultIsFinal
<1> QED
  BY <1>6, <1>7, <1>8

\* The Result is put together once no data task runs.
LEMMA JoinStep == ASSUME IInv, Join PROVE IInv'
<1> USE DEF IInv
<1>1. durationMs' \in Nat
  BY DurationType DEF Join, TypeOK
<1>2. TypeOK'
  BY <1>1 DEF Join, TypeOK, Labels
<1>3. FrameInv'
  BY FrameFrame DEF Join
<1>4. ClockInv' /\ ResultIsFinal'
  BY DEF Join, ClockInv, ResultIsFinal
<1> QED
  BY <1>2, <1>3, <1>4 DEF FrameInv

\* The final flush encodes into the empty slot, one frame at a time.
LEMMA FlushStep == ASSUME IInv, FlushNext PROVE IInv'
<1> USE DEF IInv
<1>1. /\ UNCHANGED <<test, now, dataVars, cmdVars, clockVars, budgetVars, sampleVars,
                     cancelled, transferEnd, finishDeadline, durationMs, resultBytes,
                     rxVars>>
      /\ pc = "flush" /\ current.left = 0 /\ pc' \in {"flush", "done"}
      /\ cancelDue' \in BOOLEAN /\ resultDue' \in BOOLEAN
  BY DEF FlushNext, TypeOK
<1>2. ClockInv' /\ ResultIsFinal'
  BY <1>1 DEF ClockInv, ResultIsFinal
<1>3. CASE UNCHANGED frameVars
  <2>1. TypeOK'
    BY <1>1, <1>3 DEF TypeOK, Labels
  <2>2. FrameInv'
    BY <1>1, <1>3, FrameFrame
  <2> QED
    BY <1>2, <2>1, <2>2 DEF FrameInv
<1>4. CASE \E kind \in Kinds, smp \in Samples :
             /\ Encode(kind, smp) /\ pending' \in Samples
             /\ pending'.bytes + smp.bytes = pending.bytes
             /\ pending'.span + smp.span = pending.span
  <2>1. PICK kind \in Kinds, smp \in Samples :
             /\ Encode(kind, smp) /\ pending' \in Samples
             /\ pending'.bytes + smp.bytes = pending.bytes
             /\ pending'.span + smp.span = pending.span
    BY <1>4
  <2>2. /\ current' \in Frames /\ codecSeq' \in Nat
        /\ current'.bytes = smp.bytes /\ current'.span = smp.span
        /\ current'.left = FrameLen /\ current'.seq = codecSeq
        /\ FrameLen > 0 /\ FrameLen \in Nat
    BY <2>1, EncodeType
  <2>3. codecSeq' = codecSeq + 1
    BY <2>1 DEF Encode
  <2>4. TypeOK'
    BY <1>1, <2>1, <2>2 DEF TypeOK, Labels
  <2>5. SlotInv' /\ SequenceUnbroken'
    BY <1>1, <2>2, <2>3 DEF SlotInv, SequenceUnbroken, TypeOK
  <2>6. NothingSampledIsLost'
    <3>1. current.bytes = 0 /\ current.span = 0
      BY <1>1 DEF SlotInv
    <3>2. /\ rxBytes \in Nat /\ rxSpan \in Nat
          /\ smp.bytes \in Nat /\ smp.span \in Nat
          /\ pending.bytes \in Nat /\ pending.span \in Nat
          /\ pending'.bytes \in Nat /\ pending'.span \in Nat
      BY <2>1 DEF TypeOK, Samples
    <3> QED
      BY <1>1, <2>1, <2>2, <3>1, <3>2 DEF NothingSampledIsLost
  <2> QED
    BY <1>2, <2>4, <2>5, <2>6
<1>5. \/ UNCHANGED frameVars
      \/ \E kind \in Kinds, smp \in Samples :
             /\ Encode(kind, smp) /\ pending' \in Samples
             /\ pending'.bytes + smp.bytes = pending.bytes
             /\ pending'.span + smp.span = pending.span
  <2>1. /\ NoSample \in Samples /\ NoSample.bytes = 0 /\ NoSample.span = 0
        /\ {"interval", "cancelled", "result"} \subseteq Kinds
    BY DEF NoSample, Samples, Kinds
  <2>2. /\ pending \in Samples /\ pending.bytes \in Nat /\ pending.span \in Nat
    BY DEF TypeOK, Samples
  <2>3. CASE Encode("interval", pending) /\ pending' = NoSample
    BY <2>1, <2>2, <2>3
  <2>4. CASE Encode("cancelled", NoSample) /\ UNCHANGED pending
    BY <2>1, <2>2, <2>4
  <2>5. CASE Encode("result", NoSample) /\ UNCHANGED pending
    BY <2>1, <2>2, <2>5
  <2> QED
    BY <2>3, <2>4, <2>5 DEF FlushNext
<1> QED
  BY <1>3, <1>4, <1>5

\* The data tasks, the client and the clock.
LEMMA WorldStep ==
    ASSUME IInv,
           \/ \E t \in Tasks : MoveBytes(t) \/ TaskEnds(t)
           \/ \E c \in Commands : ReadCommand(c)
           \/ ReaderExits \/ ClockTick
    PROVE  IInv'
<1> USE DEF IInv
<1>1. /\ UNCHANGED <<test, pc, dataCancel, dataPaused, active, clockVars,
                     frameVars, budgetVars, sampleVars, endVars, rxVars>>
      /\ running' \subseteq running
      /\ now' = now \/ now' = now + 1
  BY DEF MoveBytes, TaskEnds, ReadCommand, ReaderExits, ClockTick
<1>2. now' \in Nat /\ now <= now'
  BY <1>1 DEF TypeOK
<1>3. total' \in Nat /\ (running = {} => total' = total)
  <2>0. total \in Nat
    BY DEF TypeOK
  <2>1. CASE \E t \in Tasks : MoveBytes(t)
    BY <2>0, <2>1 DEF MoveBytes
  <2>2. CASE \E t \in Tasks : TaskEnds(t)
    BY <2>0, <2>2 DEF TaskEnds
  <2>3. CASE total' = total
    BY <2>0, <2>3
  <2> QED
    BY <2>1, <2>2, <2>3 DEF ReadCommand, ReaderExits, ClockTick
<1>4. cmds' \in Seq(Commands) /\ cmdsLeft' \in Nat /\ readerUp' \in BOOLEAN
  <2>0. cmds \in Seq(Commands) /\ cmdsLeft \in Nat /\ readerUp \in BOOLEAN
    BY DEF TypeOK
  <2>1. CASE \E c \in Commands : ReadCommand(c)
    BY <2>0, <2>1 DEF ReadCommand
  <2>2. CASE ReaderExits
    BY <2>0, <2>2 DEF ReaderExits
  <2>3. CASE UNCHANGED cmdVars
    BY <2>0, <2>3
  <2> QED
    BY <2>1, <2>2, <2>3 DEF MoveBytes, TaskEnds, ClockTick
<1>5. TypeOK'
  BY <1>1, <1>2, <1>3, <1>4 DEF TypeOK
<1>6. FrameInv'
  BY <1>1, FrameFrame
<1>7. ClockInv'
  BY <1>1, <1>2 DEF ClockInv, TypeOK, OptTime
<1>8. ResultIsFinal'
  BY <1>1, <1>3 DEF ResultIsFinal
<1> QED
  BY <1>5, <1>6, <1>7, <1>8 DEF FrameInv

LEMMA NextIInv == IInv /\ [Next]_vars => IInv'
<1> SUFFICES ASSUME IInv, [Next]_vars PROVE IInv'
  OBVIOUS
<1>1. CASE UNCHANGED vars
  BY <1>1 DEF vars, IInv, TypeOK, ClockInv, SlotInv, NothingSampledIsLost,
     SequenceUnbroken, ResultIsFinal
<1>2. CASE ServerStep
  BY <1>2, PlainBranches, TopStep, TickStep, CommandStep, FailStep, EndRunStep,
     JoinStep, FlushStep DEF ServerStep
<1>3. CASE WriteBranch \/ FlushWrite
  BY <1>3, DeliverStep
<1>4. CASE WriteFailsBranch \/ FlushFails
  BY <1>4, FailStep
<1>5. CASE \/ \E t \in Tasks : MoveBytes(t) \/ TaskEnds(t)
           \/ \E c \in Commands : ReadCommand(c)
           \/ ReaderExits \/ ClockTick
  BY <1>5, WorldStep
<1> QED
  BY <1>1, <1>2, <1>3, <1>4, <1>5 DEF Next, Finished

-----------------------------------------------------------------------------

\* The inductive invariant holds in every state of the report loop.
THEOREM Invariance == Spec => []IInv
<1>1. Init => IInv
  BY InitIInv
<1>2. IInv /\ [Next]_vars => IInv'
  BY NextIInv
<1> QED
  BY <1>1, <1>2, PTL DEF Spec

\* The variables of the report loop keep their types.
THEOREM TypeCorrect == Spec => []TypeOK
<1>1. IInv => TypeOK
  BY DEF IInv
<1> QED
  BY <1>1, Invariance, PTL

\* However slowly the client reads and wherever a frame is split, the rows it
\* has, the frame in flight and the pending sample add up to what
\* record_intervals has reported, in bytes and in time.
THEOREM NoLoss == Spec => []NothingSampledIsLost
<1>1. IInv => NothingSampledIsLost
  BY DEF IInv
<1> QED
  BY <1>1, Invariance, PTL

\* The sequence numbers the codec spends reach the client without a gap.
THEOREM Unbroken == Spec => []SequenceUnbroken
<1>1. IInv => SequenceUnbroken
  BY DEF IInv
<1> QED
  BY <1>1, Invariance, PTL

\* The data tasks are cancelled before any terminal output and the totals in
\* the Result never change after it was put together.
THEOREM FinalTotals == Spec => []ResultIsFinal
<1>1. IInv => ResultIsFinal
  BY DEF IInv
<1> QED
  BY <1>1, Invariance, PTL

-----------------------------------------------------------------------------
(* The order of the terminal messages                                      *)

\* Before the terminal messages the client has rows only, and so has the slot.
RowsOnly ==
    /\ rxKind \in {"none", "interval"}
    /\ current.left > 0 => current.kind = "interval"

\* A terminal message is in the slot, after what the client must have first,
\* or it was the last one the client got.
Sending(kind, before) ==
    IF current.left > 0 THEN current.kind = kind /\ rxKind \in before ELSE rxKind = kind

\* Reporting::finish owes Cancelled, then the Result, with no row after them.
OwedInv ==
    /\ cancelDue => cancelled /\ resultDue
    /\ cancelled \/ ~resultDue => pending.count = 0
    /\ cancelDue \/ (resultDue /\ ~cancelled) => RowsOnly
    /\ resultDue /\ cancelled /\ ~cancelDue => Sending("cancelled", {"none", "interval"})
    /\ ~resultDue => Sending("result", IF cancelled THEN {"cancelled"} ELSE {"none", "interval"})

OrderInv ==
    /\ pc \in {"top", "select", "ended"} => RowsOnly
    /\ pc = "join" => RowsOnly /\ resultDue /\ cancelDue = cancelled /\ OwedInv
    /\ pc = "flush" => OwedInv

\* The queue holds nothing but the four commands.
LEMMA ACommand ==
    ASSUME IInv, CommandBranch
    PROVE  FinishCmd \/ CancelCmd \/ PauseCmd \/ ResumeCmd
<1>1. cmds \in Seq(Commands) /\ cmds # <<>>
  BY DEF CommandBranch, IInv, TypeOK
<1>2. Head(cmds) \in Commands
  BY <1>1
<1> QED
  BY <1>2 DEF CommandBranch, Commands

LEMMA InitOrder == Init => OrderInv
BY DEF Init, OrderInv, RowsOnly, NoFrame

\* Steps that touch neither the slot, the client nor what is owed.
LEMMA OrderFrame ==
    ASSUME OrderInv, UNCHANGED <<current, pending, cancelled, cancelDue, resultDue, rxVars>>,
           \/ pc' = pc
           \/ pc \in {"top", "select", "ended"} /\ pc' \in {"top", "select", "ended"}
           \/ pc = "join" /\ pc' = "flush"
           \/ pc' \in {"done", "failed", "removed"}
    PROVE  OrderInv'
BY DEF OrderInv, OwedInv, RowsOnly, Sending

\* A row in the slot is a row, whatever its contents.
LEMMA OrderTop == ASSUME OrderInv, Top PROVE OrderInv'
<1>1. CASE UNCHANGED frameVars
  BY <1>1, OrderFrame DEF Top
<1>2. CASE Encode("interval", pending)
  BY <1>2 DEF Top, Encode, OrderInv, RowsOnly
<1> QED
  BY <1>1, <1>2 DEF Top

LEMMA OrderCommand == ASSUME IInv, OrderInv, CommandBranch PROVE OrderInv'
<1>2. FinishCmd \/ CancelCmd \/ PauseCmd \/ ResumeCmd
  BY ACommand
<1>3. /\ pc = "select" /\ pc' \in {"top", "ended"} /\ UNCHANGED <<current, rxVars>>
  BY <1>2 DEF CommandBranch, FinishCmd, CancelCmd, PauseCmd, ResumeCmd, Again
<1> QED
  BY <1>3 DEF OrderInv, RowsOnly

LEMMA OrderEnd == ASSUME IInv, OrderInv, EndRun PROVE OrderInv'
<1>1. /\ pc' = "join" /\ cancelDue' = cancelled /\ resultDue' = TRUE /\ cancelled' = cancelled
      /\ UNCHANGED <<current, rxVars>> /\ pc = "ended"
      /\ cancelled => pending'.count = 0
  BY DEF EndRun, NoSample
<1>2. cancelled \in BOOLEAN
  BY DEF IInv, TypeOK
<1>3. RowsOnly'
  BY <1>1 DEF OrderInv, RowsOnly
<1> QED
  BY <1>1, <1>2, <1>3 DEF OrderInv, OwedInv

LEMMA OrderFlush == ASSUME IInv, OrderInv, FlushNext PROVE OrderInv'
<1>1. /\ pc = "flush" /\ current.left = 0 /\ UNCHANGED <<cancelled, rxVars>>
      /\ FrameLen \in Nat /\ FrameLen > 0
      /\ cancelled \in BOOLEAN /\ cancelDue \in BOOLEAN /\ resultDue \in BOOLEAN
      /\ pending.count \in Nat
  BY ReportingAssumption DEF FlushNext, IInv, TypeOK, Samples, ReportingAssumption
<1>2. OwedInv
  BY <1>1 DEF OrderInv
<1>3. CASE /\ pending.count > 0 /\ Encode("interval", pending)
           /\ UNCHANGED <<pc, cancelDue, resultDue>>
  <2>1. ~cancelled /\ resultDue /\ ~cancelDue /\ RowsOnly
    BY <1>1, <1>2, <1>3 DEF OwedInv
  <2>2. RowsOnly'
    BY <1>1, <1>3, <2>1 DEF RowsOnly, Encode
  <2> QED
    BY <1>1, <1>3, <2>1, <2>2 DEF OrderInv, OwedInv
<1>4. CASE /\ pending.count = 0 /\ cancelDue /\ Encode("cancelled", NoSample)
           /\ cancelDue' = FALSE /\ UNCHANGED <<pc, pending, resultDue>>
  <2>1. cancelled /\ resultDue /\ RowsOnly
    BY <1>2, <1>4 DEF OwedInv
  <2>2. Sending("cancelled", {"none", "interval"})'
    BY <1>1, <1>4, <2>1 DEF Sending, Encode, RowsOnly
  <2> QED
    BY <1>1, <1>4, <2>1, <2>2 DEF OrderInv, OwedInv
<1>5. CASE /\ pending.count = 0 /\ ~cancelDue /\ resultDue /\ Encode("result", NoSample)
           /\ resultDue' = FALSE /\ UNCHANGED <<pc, pending, cancelDue>>
  <2>1. rxKind \in IF cancelled THEN {"cancelled"} ELSE {"none", "interval"}
    BY <1>1, <1>2, <1>5 DEF OwedInv, RowsOnly, Sending
  <2>2. Sending("result", IF cancelled THEN {"cancelled"} ELSE {"none", "interval"})'
    BY <1>1, <1>5, <2>1 DEF Sending, Encode
  <2> QED
    BY <1>1, <1>5, <2>2 DEF OrderInv, OwedInv
<1>6. CASE pc' = "done"
  BY <1>6 DEF OrderInv
<1> QED
  BY <1>3, <1>4, <1>5, <1>6 DEF FlushNext

\* What a step of the writer does, and the order it keeps.
LEMMA OrderWrite ==
    ASSUME IInv, OrderInv, WriteBranch \/ FlushWrite
    PROVE  /\ OrderInv'
           /\ rxSeq' # rxSeq =>
                /\ rxKind # "result"
                /\ rxKind = "cancelled" => rxKind' = "result"
                /\ rxKind' = "cancelled" => cancelled
                /\ rxKind' = "result" /\ cancelled => rxKind = "cancelled"
<1>1. PICK n \in 1..FrameLen : Deliver(n)
  BY DEF WriteBranch, FlushWrite
<1>2. /\ UNCHANGED <<pending, cancelled, cancelDue, resultDue>>
      /\ \/ pc = "select" /\ pc' = "top"
         \/ pc = "flush" /\ pc' = "flush"
  BY DEF WriteBranch, FlushWrite, Again
<1>3. /\ current \in Frames /\ current.left \in Nat /\ n \in Nat /\ n > 0 /\ n <= current.left
  <2>1. FrameLen \in Nat
    BY ReportingAssumption DEF ReportingAssumption
  <2>2. current \in Frames /\ n \in 1..current.left
    BY <1>1 DEF IInv, TypeOK, Deliver
  <2> QED
    BY <2>1, <2>2 DEF Frames
<1>4. current.left > 0
  BY <1>3
<1>5. CASE n = current.left
  <2>1. current'.left = 0 /\ rxKind' = current.kind
    BY <1>1, <1>5 DEF Deliver, NoFrame
  <2>2. ~(current'.left > 0)
    BY <2>1
  <2>3. CASE pc = "select"
    <3>1. RowsOnly
      BY <2>3 DEF OrderInv
    <3> QED
      BY <1>2, <1>4, <2>1, <2>2, <2>3, <3>1 DEF OrderInv, RowsOnly
  <2>4. CASE pc = "flush"
    <3>1. OwedInv
      BY <2>4 DEF OrderInv
    <3>2. OwedInv'
      BY <1>2, <1>4, <2>1, <2>2, <3>1 DEF OwedInv, RowsOnly, Sending
    <3>3. /\ rxKind # "result"
          /\ rxKind = "cancelled" => rxKind' = "result"
          /\ rxKind' = "cancelled" => cancelled
          /\ rxKind' = "result" /\ cancelled => rxKind = "cancelled"
      BY <1>4, <2>1, <3>1 DEF OwedInv, RowsOnly, Sending
    <3> QED
      BY <1>2, <2>4, <3>2, <3>3 DEF OrderInv
  <2> QED
    BY <1>2, <2>3, <2>4
<1>6. CASE n # current.left
  <2>1. /\ current' = [current EXCEPT !.left = @ - n] /\ UNCHANGED rxVars
    BY <1>1, <1>6 DEF Deliver
  <2>2. current'.left = current.left - n /\ current'.kind = current.kind
    BY <1>3, <2>1 DEF Frames
  <2>3. current'.left > 0
    BY <1>3, <1>6, <2>2
  <2>4. UNCHANGED <<rxSeq, rxKind>>
    BY <2>1
  <2>5. CASE pc = "select"
    BY <1>2, <1>4, <2>2, <2>3, <2>4, <2>5 DEF OrderInv, RowsOnly
  <2>6. CASE pc = "flush"
    <3>1. OwedInv
      BY <2>6 DEF OrderInv
    <3>2. OwedInv'
      BY <1>2, <1>4, <2>2, <2>3, <2>4, <3>1 DEF OwedInv, RowsOnly, Sending
    <3> QED
      BY <1>2, <2>4, <2>6, <3>2 DEF OrderInv
  <2> QED
    BY <1>2, <2>5, <2>6
<1> QED
  BY <1>5, <1>6

\* The steps outside the writer leave the client's decoder alone.
LEMMA Unheard ==
    ASSUME Next, ~(WriteBranch \/ FlushWrite)
    PROVE  UNCHANGED rxVars
BY DEF Next, ServerStep, Top, DeadlineBranch, DrainBranch, RecvDoneBranch, SendDoneBranch,
   TickBranch, CommandBranch, ReaderGoneBranch, EndRun, Join, FlushNext, FlushTimeout, Remove,
   WriteFailsBranch, FlushFails, MoveBytes, TaskEnds, ReadCommand, ReaderExits, ClockTick,
   Finished, vars

LEMMA NextOrder == IInv /\ OrderInv /\ [Next]_vars => OrderInv'
<1> SUFFICES ASSUME IInv, OrderInv, [Next]_vars PROVE OrderInv'
  OBVIOUS
<1>1. CASE \/ DeadlineBranch \/ DrainBranch \/ RecvDoneBranch \/ SendDoneBranch \/ ReaderGoneBranch
  BY <1>1, OrderFrame DEF DeadlineBranch, DrainBranch, RecvDoneBranch, SendDoneBranch,
     ReaderGoneBranch, Again
<1>2. CASE TickBranch
  <2>1. /\ UNCHANGED <<current, rxVars>> /\ pc = "select" /\ pc' \in {"top", "ended"}
    BY <1>2 DEF TickBranch, Again
  <2> QED
    BY <2>1 DEF OrderInv, RowsOnly
<1>3. CASE Join \/ FlushTimeout \/ Remove \/ WriteFailsBranch \/ FlushFails
  BY <1>3, OrderFrame DEF Join, FlushTimeout, Remove, WriteFailsBranch, FlushFails
<1>4. CASE \/ \E t \in Tasks : MoveBytes(t) \/ TaskEnds(t)
           \/ \E c \in Commands : ReadCommand(c)
           \/ ReaderExits \/ ClockTick
  BY <1>4, OrderFrame DEF MoveBytes, TaskEnds, ReadCommand, ReaderExits, ClockTick
<1>5. CASE UNCHANGED vars
  BY <1>5, OrderFrame DEF vars
<1> QED
  BY <1>1, <1>2, <1>3, <1>4, <1>5, OrderTop, OrderCommand, OrderEnd, OrderFlush, OrderWrite
  DEF Next, ServerStep, Finished

\* For any split of the frames and any order of commands, timers and writes,
\* the Result is the last message the client gets, it follows Cancelled in a
\* cancelled test, and Cancelled goes only to a client that asked for it.
THEOREM LastWords == Spec => TerminalOrder
<1> DEFINE Ordered ==
      rxSeq' # rxSeq =>
        /\ rxKind # "result"
        /\ rxKind = "cancelled" => rxKind' = "result"
        /\ rxKind' = "cancelled" => cancelled
        /\ rxKind' = "result" /\ cancelled => rxKind = "cancelled"
<1>1. IInv /\ OrderInv /\ [Next]_vars => [Ordered]_vars
  <2> SUFFICES ASSUME IInv, OrderInv, Next PROVE Ordered
    OBVIOUS
  <2>1. CASE WriteBranch \/ FlushWrite
    BY <2>1, OrderWrite
  <2>2. CASE ~(WriteBranch \/ FlushWrite)
    BY <2>2, Unheard
  <2> QED
    BY <2>1, <2>2
<1>2. Spec => [](IInv /\ OrderInv)
  BY InitIInv, InitOrder, NextIInv, NextOrder, PTL DEF Spec
<1> QED
  BY <1>1, <1>2, PTL DEF Spec, TerminalOrder

-----------------------------------------------------------------------------
(* Test time                                                               *)

\* A pause begins after the pauses before it were counted, so test time never
\* runs backwards nor ahead of the clock.
PauseInv == IF pauseStart = None THEN pausedTotal <= now ELSE pausedTotal <= pauseStart

\* The rows the client has, the one in the slot and the pending one are in the
\* order of their times, and no time is later than test time.
RowTimes ==
    /\ rxAt <= active_elapsed
    /\ current.left > 0 /\ current.kind = "interval" =>
         rxAt <= current.at /\ current.at <= active_elapsed
    /\ pending.count > 0 =>
         /\ rxAt <= pending.at /\ pending.at <= active_elapsed
         /\ current.left > 0 /\ current.kind = "interval" => current.at <= pending.at

\* No row at or after the end of a timed test, in none of the three places.
RowsBeforeEnd ==
    Timed =>
      /\ rxAt < test.duration
      /\ current.left > 0 /\ current.kind = "interval" => current.at < test.duration
      /\ pending.count > 0 => pending.at < test.duration

\* The runtime serves the deadline before the clock passes it, so the loop
\* ends, and the Result states, no later time.
DeadlineKept ==
    Timed =>
      /\ pc \in {"top", "select", "ended"} => active_elapsed <= test.duration
      /\ test.protocol # "quic" /\ pc \in {"join", "flush", "done"} => durationMs <= test.duration

\* The two ends of a -n transfer lie in the past.
EndsPast == receivedAt <= active_elapsed /\ sentAt <= active_elapsed

\* What a complete -n transfer has heard, and when it ended.
CompleteInv ==
    pc \in {"join", "flush", "done"} /\ transferEnd # None =>
      /\ test.direction # "download" => clientFinished /\ transferEnd >= receivedAt
      /\ test.direction # "upload" => serverSendDone /\ transferEnd >= sentAt
      /\ transferEnd <= active_elapsed

TimeInv == PauseInv /\ RowTimes /\ RowsBeforeEnd /\ DeadlineKept /\ EndsPast /\ CompleteInv

\* Test time stands still in a pause.
LEMMA Elapsed ==
    ASSUME TypeOK, ClockInv, PauseInv
    PROVE  /\ active_elapsed \in Nat
           /\ active_elapsed = (IF pauseStart = None THEN now ELSE pauseStart) - pausedTotal
BY DEF TypeOK, ClockInv, PauseInv, active_elapsed, OptTime

LEMMA InitTime == Init => TimeInv
<1> SUFFICES ASSUME Init PROVE TimeInv
  OBVIOUS
<1>1. active_elapsed = 0 /\ PauseInv
  BY DEF Init, active_elapsed, PauseInv
<1>2. test.duration \in Nat
  BY ReportingAssumption DEF Init, ReportingAssumption, TestStart
<1> QED
  BY <1>1, <1>2 DEF Init, TimeInv, RowTimes, RowsBeforeEnd, DeadlineKept, EndsPast, CompleteInv,
     NoFrame, NoSample, Timed

\* The types of what the invariant compares.
LEMMA TimeTypes ==
    ASSUME IInv, TimeInv
    PROVE  /\ active_elapsed \in Nat /\ test.duration \in Nat
           /\ test.direction \in {"upload", "download", "bidir"}
           /\ rxAt \in Nat /\ current \in Frames /\ pending \in Samples
           /\ current.at \in Nat /\ pending.at \in Nat /\ pending.count \in Nat
           /\ current.left \in Nat
<1>1. active_elapsed \in Nat
  BY Elapsed DEF IInv, TimeInv
<1>2. test \in TestStart
  BY ReportingAssumption DEF IInv, TypeOK, ReportingAssumption
<1>3. rxAt \in Nat /\ current \in Frames /\ pending \in Samples
  BY DEF IInv, TypeOK
<1>4. FrameLen \in Nat
  BY ReportingAssumption DEF ReportingAssumption
<1> QED
  BY <1>1, <1>2, <1>3, <1>4 DEF TestStart, Frames, Samples

\* Steps in which no time passes, no row moves and no end is noted.
LEMMA TimeFrame ==
    ASSUME IInv, TimeInv,
           UNCHANGED <<test, now, clockVars, current, pending, rxAt, receivedAt, sentAt, transferEnd,
                       durationMs>>,
           \/ pc' = pc /\ UNCHANGED <<clientFinished, serverSendDone>>
           \/ pc \in {"top", "select"} /\ pc' \in {"top", "select", "ended"}
           \/ pc = "flush" /\ pc' = "done" /\ UNCHANGED <<clientFinished, serverSendDone>>
           \/ pc' \in {"failed", "removed"}
    PROVE  TimeInv'
<1>1. active_elapsed' = active_elapsed /\ Timed' = Timed
  BY DEF active_elapsed, Timed
<1> QED
  BY <1>1 DEF TimeInv, PauseInv, RowTimes, RowsBeforeEnd, DeadlineKept, EndsPast, CompleteInv

\* A row moves from the pending sample into the slot.
LEMMA TimeEncode ==
    ASSUME IInv, TimeInv, NEW smp \in Samples, NEW kind \in Kinds,
           current.left = 0, Encode(kind, smp),
           \/ kind = "interval" /\ smp = pending /\ pending.count > 0 /\ pending' = NoSample
           \/ kind # "interval" /\ pending' = pending,
           UNCHANGED <<test, now, clockVars, rxAt, receivedAt, sentAt, transferEnd, durationMs,
                       clientFinished, serverSendDone>>,
           pc' = pc \/ (pc = "top" /\ pc' = "select")
    PROVE  TimeInv'
<1>1. active_elapsed' = active_elapsed /\ Timed' = Timed
  BY DEF active_elapsed, Timed
<1>2. PauseInv' /\ DeadlineKept' /\ EndsPast' /\ CompleteInv'
  BY <1>1 DEF TimeInv, PauseInv, DeadlineKept, EndsPast, CompleteInv
<1>3. current'.kind = kind /\ current'.at = smp.at
  BY DEF Encode
<1>4. CASE kind = "interval" /\ smp = pending /\ pending.count > 0 /\ pending' = NoSample
  <2>1. ~(pending'.count > 0)
    BY <1>4 DEF NoSample
  <2> QED
    BY <1>1, <1>2, <1>3, <1>4, <2>1 DEF TimeInv, RowTimes, RowsBeforeEnd
<1>5. CASE kind # "interval" /\ pending' = pending
  BY <1>1, <1>2, <1>3, <1>5 DEF TimeInv, RowTimes, RowsBeforeEnd
<1> QED
  BY <1>4, <1>5

LEMMA TimeTop == ASSUME IInv, TimeInv, Top PROVE TimeInv'
<1>1. CASE UNCHANGED frameVars
  BY <1>1, TimeFrame DEF Top
<1>2. CASE /\ current.left = 0 /\ pending.count > 0
           /\ Encode("interval", pending) /\ pending' = NoSample /\ pc' = "select"
  BY <1>2, TimeTypes, TimeEncode DEF Top, Kinds
<1> QED
  BY <1>1, <1>2 DEF Top

\* A tick before the end of the test samples at the current test time.
LEMMA TimeTick == ASSUME IInv, TimeInv, TickBranch PROVE TimeInv'
<1>1. CASE UNCHANGED pending
  BY <1>1, TimeFrame DEF TickBranch, Again
<1>2. CASE /\ ~(Timed /\ active_elapsed >= test.duration)
           /\ pending' = Merge(pending, Capture)
  <2>1. /\ UNCHANGED <<test, now, clockVars, current, rxAt, receivedAt, sentAt, transferEnd, durationMs>>
        /\ pc = "select" /\ pc' \in {"top", "ended"}
    BY DEF TickBranch, Again
  <2>2. active_elapsed' = active_elapsed /\ Timed' = Timed
    BY <2>1 DEF active_elapsed, Timed
  <2>3. pending'.at = active_elapsed
    BY <1>2 DEF Merge, Capture
  <2>4. PauseInv' /\ DeadlineKept' /\ EndsPast' /\ CompleteInv'
    BY <2>1, <2>2 DEF TimeInv, PauseInv, DeadlineKept, EndsPast, CompleteInv
  <2>5. RowTimes' /\ RowsBeforeEnd'
    BY <1>2, <2>1, <2>2, <2>3, TimeTypes DEF TimeInv, RowTimes, RowsBeforeEnd
  <2> QED
    BY <2>4, <2>5 DEF TimeInv
<1> QED
  BY <1>1, <1>2 DEF TickBranch

\* The ends of a -n transfer are noted at the current test time.
LEMMA TimeDone ==
    ASSUME IInv, TimeInv, DrainBranch \/ RecvDoneBranch \/ SendDoneBranch
    PROVE  TimeInv'
<1>1. /\ UNCHANGED <<test, now, clockVars, current, pending, rxAt, transferEnd, durationMs>>
      /\ pc = "select" /\ pc' \in {"top", "ended"}
      /\ receivedAt' \in {receivedAt, active_elapsed}
      /\ sentAt' \in {sentAt, active_elapsed}
  BY DEF DrainBranch, RecvDoneBranch, SendDoneBranch, Again, GetOrInsert
<1>2. active_elapsed' = active_elapsed /\ Timed' = Timed
  BY <1>1 DEF active_elapsed, Timed
<1>3. EndsPast'
  BY <1>1, <1>2, TimeTypes DEF TimeInv, EndsPast
<1> QED
  BY <1>1, <1>2, <1>3 DEF TimeInv, PauseInv, RowTimes, RowsBeforeEnd, DeadlineKept, CompleteInv

\* Neither a pause nor its end moves test time.
LEMMA TimeCommand == ASSUME IInv, TimeInv, CommandBranch PROVE TimeInv'
<1>2. FinishCmd \/ CancelCmd \/ PauseCmd \/ ResumeCmd
  BY ACommand
<1>3. /\ UNCHANGED <<test, now, current, pending, rxAt, receivedAt, sentAt, transferEnd, durationMs>>
      /\ pc = "select" /\ pc' \in {"top", "ended"}
  BY <1>2 DEF CommandBranch, FinishCmd, CancelCmd, PauseCmd, ResumeCmd, Again
<1>4. PauseInv' /\ active_elapsed' = active_elapsed
  <2>1. /\ now \in Nat /\ pausedTotal \in Nat /\ pauseStart \in OptTime /\ pauseStart <= now
        /\ PauseInv /\ now' = now
    BY <1>3 DEF IInv, TypeOK, ClockInv, TimeInv
  <2>2. CASE FinishCmd \/ CancelCmd
    BY <2>1, <2>2 DEF FinishCmd, CancelCmd, PauseInv, active_elapsed
  <2>3. CASE PauseCmd
    BY <2>1, <2>3 DEF PauseCmd, GetOrInsert, PauseInv, active_elapsed, OptTime
  <2>4. CASE ResumeCmd
    BY <2>1, <2>4 DEF ResumeCmd, PauseInv, active_elapsed, OptTime
  <2> QED
    BY <1>2, <2>2, <2>3, <2>4
<1>5. Timed' = Timed
  BY <1>3 DEF Timed
<1> QED
  BY <1>3, <1>4, <1>5 DEF TimeInv, RowTimes, RowsBeforeEnd, DeadlineKept, EndsPast, CompleteInv

\* The frame the client completes was the oldest row it did not have.
LEMMA TimeWrite ==
    ASSUME IInv, TimeInv, WriteBranch \/ FlushWrite
    PROVE  TimeInv' /\ rxAt' >= rxAt
<1>1. PICK n \in 1..FrameLen : Deliver(n)
  BY DEF WriteBranch, FlushWrite
<1>2. /\ UNCHANGED <<test, now, clockVars, pending, receivedAt, sentAt, transferEnd, durationMs,
                     clientFinished, serverSendDone>>
      /\ \/ pc = "select" /\ pc' = "top"
         \/ pc = "flush" /\ pc' = "flush"
  BY DEF WriteBranch, FlushWrite, Again
<1>3. active_elapsed' = active_elapsed /\ Timed' = Timed
  BY <1>2 DEF active_elapsed, Timed
<1>4. PauseInv' /\ DeadlineKept' /\ EndsPast' /\ CompleteInv'
  BY <1>2, <1>3 DEF TimeInv, PauseInv, DeadlineKept, EndsPast, CompleteInv
<1>5. current.left > 0
  BY <1>1, TimeTypes DEF Deliver
<1>6. CASE n = current.left
  <2>1. /\ current'.left = 0
        /\ rxAt' = IF current.kind = "interval" THEN current.at ELSE rxAt
    BY <1>1, <1>6 DEF Deliver, NoFrame
  <2>2. ~(current'.left > 0)
    BY <2>1
  <2>3. RowTimes' /\ RowsBeforeEnd' /\ rxAt' >= rxAt
    BY <1>2, <1>3, <1>5, <2>1, <2>2, TimeTypes DEF TimeInv, RowTimes, RowsBeforeEnd
  <2> QED
    BY <1>4, <2>3 DEF TimeInv
<1>7. CASE n # current.left
  <2>1. /\ current' = [current EXCEPT !.left = @ - n] /\ rxAt' = rxAt
    BY <1>1, <1>7 DEF Deliver
  <2>2. current'.kind = current.kind /\ current'.at = current.at
    BY <2>1, TimeTypes DEF Frames
  <2>3. RowTimes' /\ RowsBeforeEnd' /\ rxAt' >= rxAt
    BY <1>2, <1>3, <1>5, <2>1, <2>2, TimeTypes DEF TimeInv, RowTimes, RowsBeforeEnd
  <2> QED
    BY <1>4, <2>3 DEF TimeInv
<1> QED
  BY <1>6, <1>7

\* The loop ends by the deadline, and the end of a complete transfer is the later
\* of the ends it waited for.
LEMMA TimeEnd == ASSUME IInv, TimeInv, EndRun PROVE TimeInv'
<1>1. /\ UNCHANGED <<test, now, clockVars, current, rxAt, receivedAt, sentAt, clientFinished,
                     serverSendDone>>
      /\ pc = "ended" /\ pc' = "join" /\ transferEnd' = transfer_end
      /\ durationMs' = duration_ms(transferEnd')
      /\ pending' = pending \/ pending' = NoSample
  BY DEF EndRun
<1>2. active_elapsed' = active_elapsed /\ Timed' = Timed
  BY <1>1 DEF active_elapsed, Timed
<1>3. PauseInv' /\ EndsPast'
  BY <1>1, <1>2 DEF TimeInv, PauseInv, EndsPast
<1>4. RowTimes' /\ RowsBeforeEnd'
  BY <1>1, <1>2 DEF TimeInv, RowTimes, RowsBeforeEnd, NoSample
<1>5. receivedAt \in OptTime /\ sentAt \in OptTime
  BY DEF IInv, TypeOK
<1>6. /\ transferEnd' \in OptTime
      /\ transferEnd' # None =>
           /\ test.direction # "download" => clientFinished /\ transferEnd' >= receivedAt
           /\ test.direction # "upload" => serverSendDone /\ transferEnd' >= sentAt
           /\ transferEnd' <= active_elapsed
  <2>1. CASE \/ cancelled \/ ~test.budget
             \/ ~budget_transfer_complete(clientFinished, serverSendDone)
    BY <1>1, <2>1 DEF transfer_end, OptTime
  <2>2. CASE /\ ~(cancelled \/ ~test.budget)
             /\ budget_transfer_complete(clientFinished, serverSendDone)
    <3>1. CASE test.direction = "upload"
      BY <1>1, <1>5, <2>2, <3>1, TimeTypes
      DEF transfer_end, budget_transfer_complete, TimeInv, EndsPast, OptTime
    <3>2. CASE test.direction = "download"
      BY <1>1, <1>5, <2>2, <3>2, TimeTypes
      DEF transfer_end, budget_transfer_complete, TimeInv, EndsPast, OptTime
    <3>3. CASE test.direction = "bidir"
      BY <1>1, <1>5, <2>2, <3>3, TimeTypes
      DEF transfer_end, budget_transfer_complete, TimeInv, EndsPast, OptTime, OptMax
    <3> QED
      BY <3>1, <3>2, <3>3, TimeTypes
  <2> QED
    BY <2>1, <2>2
<1>7. CompleteInv'
  BY <1>1, <1>2, <1>6 DEF CompleteInv
<1>8. Timed => durationMs' <= test.duration
  <2>1. Timed => test.duration > 0 /\ active_elapsed <= test.duration
    BY <1>1 DEF Timed, TimeInv, DeadlineKept
  <2> QED
    BY <1>1, <1>6, <2>1, TimeTypes DEF duration_ms, OptMax, OptTime
<1> QED
  BY <1>1, <1>2, <1>3, <1>4, <1>7, <1>8 DEF TimeInv, DeadlineKept

LEMMA TimeJoin == ASSUME IInv, TimeInv, Join PROVE TimeInv'
<1>1. /\ UNCHANGED <<test, now, clockVars, current, pending, rxAt, receivedAt, sentAt, transferEnd,
                     clientFinished, serverSendDone>>
      /\ pc = "join" /\ pc' = "flush"
      /\ test.protocol # "quic" => durationMs' = durationMs
  BY DEF Join
<1>2. active_elapsed' = active_elapsed /\ Timed' = Timed
  BY <1>1 DEF active_elapsed, Timed
<1> QED
  BY <1>1, <1>2 DEF TimeInv, PauseInv, RowTimes, RowsBeforeEnd, DeadlineKept, EndsPast, CompleteInv

LEMMA TimeFlush == ASSUME IInv, TimeInv, FlushNext PROVE TimeInv'
<1>1. /\ UNCHANGED <<test, now, clockVars, rxAt, receivedAt, sentAt, transferEnd, durationMs,
                     clientFinished, serverSendDone>>
      /\ pc = "flush" /\ current.left = 0
  BY DEF FlushNext
<1>2. /\ NoSample \in Samples /\ pending \in Samples
      /\ {"interval", "cancelled", "result"} \subseteq Kinds
  BY DEF NoSample, Samples, Kinds, IInv, TypeOK
<1>3. CASE pending.count > 0 /\ Encode("interval", pending) /\ pending' = NoSample /\ pc' = pc
  BY <1>1, <1>2, <1>3, TimeEncode
<1>4. CASE Encode("cancelled", NoSample) /\ pending' = pending /\ pc' = pc
  BY <1>1, <1>2, <1>4, TimeEncode
<1>5. CASE Encode("result", NoSample) /\ pending' = pending /\ pc' = pc
  BY <1>1, <1>2, <1>5, TimeEncode
<1>6. CASE pc' = "done" /\ UNCHANGED frameVars
  BY <1>1, <1>6, TimeFrame
<1> QED
  BY <1>3, <1>4, <1>5, <1>6 DEF FlushNext

\* The clock moves test time by at most one unit, and not past a deadline.
LEMMA TimeClock == ASSUME IInv, TimeInv, ClockTick PROVE TimeInv'
<1>1. /\ UNCHANGED <<test, pc, clockVars, current, pending, rxAt, receivedAt, sentAt, transferEnd,
                     durationMs, clientFinished, serverSendDone>>
      /\ now' = now + 1 /\ ~TimerDue
  BY DEF ClockTick
<1>2. /\ now \in Nat /\ pausedTotal \in Nat /\ pauseStart \in OptTime /\ pauseStart <= now
      /\ receivedAt \in OptTime /\ sentAt \in OptTime /\ transferEnd \in OptTime /\ PauseInv
  BY DEF IInv, TypeOK, ClockInv, TimeInv
<1>3. PauseInv'
  BY <1>1, <1>2 DEF PauseInv, OptTime
<1>4. /\ active_elapsed' \in Nat /\ active_elapsed <= active_elapsed'
      /\ active_elapsed' <= active_elapsed + 1
      /\ pauseStart # None => active_elapsed' = active_elapsed
      /\ pauseStart = None => active_elapsed' = now + 1 - pausedTotal
  BY <1>1, <1>2 DEF active_elapsed, PauseInv, OptTime
<1>5. Timed' = Timed
  BY <1>1 DEF Timed
<1>6. RowTimes' /\ RowsBeforeEnd' /\ EndsPast' /\ CompleteInv'
  BY <1>1, <1>2, <1>4, <1>5, TimeTypes DEF TimeInv, RowTimes, RowsBeforeEnd, EndsPast, CompleteInv, OptTime
<1>7. DeadlineKept'
  <2>1. CASE Timed /\ pc = "select" /\ pauseStart = None
    <3>1. ~(now >= pausedTotal + test.duration)
      BY <1>1, <2>1 DEF TimerDue, DeadlineDue
    <3>2. active_elapsed' <= test.duration
      BY <1>2, <1>4, <2>1, <3>1, TimeTypes
    <3> QED
      BY <1>1, <2>1, <3>2 DEF DeadlineKept
  <2>2. CASE ~(Timed /\ pc = "select" /\ pauseStart = None)
    <3>1. pc \notin {"top", "ended"}
      BY <1>1 DEF TimerDue
    <3> QED
      BY <1>1, <1>4, <1>5, <2>2, <3>1 DEF TimeInv, DeadlineKept
  <2> QED
    BY <2>1, <2>2
<1> QED
  BY <1>3, <1>6, <1>7 DEF TimeInv

LEMMA NextTime == IInv /\ TimeInv /\ [Next]_vars => TimeInv'
<1> SUFFICES ASSUME IInv, TimeInv, [Next]_vars PROVE TimeInv'
  OBVIOUS
<1>1. CASE \/ DeadlineBranch \/ ReaderGoneBranch \/ FlushTimeout \/ Remove \/ WriteFailsBranch
           \/ FlushFails
  BY <1>1, TimeFrame DEF DeadlineBranch, ReaderGoneBranch, FlushTimeout, Remove, WriteFailsBranch,
     FlushFails
<1>2. CASE \/ \E t \in Tasks : MoveBytes(t) \/ TaskEnds(t)
           \/ \E c \in Commands : ReadCommand(c)
           \/ ReaderExits
  BY <1>2, TimeFrame DEF MoveBytes, TaskEnds, ReadCommand, ReaderExits
<1>3. CASE UNCHANGED vars
  BY <1>3, TimeFrame DEF vars
<1> QED
  BY <1>1, <1>2, <1>3, TimeTop, TimeDone, TimeTick, TimeCommand, TimeEnd, TimeJoin, TimeFlush,
     TimeWrite, TimeClock DEF Next, ServerStep, Finished

\* For any duration, interval, number and length of pauses, and a client that
\* reads as slowly as it likes: rows come in the order of test time, none of a
\* timed test is at or after its end, its TCP or UDP Result states no longer a
\* time, and a -n test reported as complete heard from both sides that send.
THEOREM InTestTime == Spec => RowsInTestTime
<1>1. IInv /\ TimeInv /\ [Next]_vars => [rxAt' >= rxAt]_vars
  <2> SUFFICES ASSUME IInv, TimeInv, Next PROVE rxAt' >= rxAt
    OBVIOUS
  <2>1. CASE WriteBranch \/ FlushWrite
    BY <2>1, TimeWrite
  <2>2. CASE ~(WriteBranch \/ FlushWrite)
    BY <2>2, Unheard, TimeTypes
  <2> QED
    BY <2>1, <2>2
<1>2. TimeInv => /\ pc \in {"join", "flush", "done"} /\ transferEnd # None =>
                      /\ test.direction # "download" => clientFinished /\ transferEnd >= receivedAt
                      /\ test.direction # "upload" => serverSendDone /\ transferEnd >= sentAt
                      /\ transferEnd <= active_elapsed
                 /\ Timed => rxAt < test.duration
                 /\ Timed /\ test.protocol # "quic" /\ pc \in {"flush", "done"}
                      => durationMs <= test.duration
  BY DEF TimeInv, CompleteInv, RowsBeforeEnd, DeadlineKept
<1>3. Spec => [](IInv /\ TimeInv)
  BY InitIInv, InitTime, NextIInv, NextTime, PTL DEF Spec
<1> QED
  BY <1>1, <1>2, <1>3, PTL DEF Spec, RowsInTestTime

-----------------------------------------------------------------------------
(* The drain window                                                        *)

\* Only a -n test has a drain window.
DrainInv == drainUntil # None => test.budget

LEMMA NextDrain == IInv /\ DrainInv /\ [Next]_vars => DrainInv'
<1> SUFFICES ASSUME IInv, DrainInv, [Next]_vars PROVE DrainInv'
  OBVIOUS
<1>1. CASE CommandBranch
  <2>2. FinishCmd \/ CancelCmd \/ PauseCmd \/ ResumeCmd
    BY <1>1, ACommand
  <2> QED
    BY <1>1, <2>2 DEF CommandBranch, FinishCmd, CancelCmd, PauseCmd, ResumeCmd, DrainInv
<1>2. CASE drainUntil' \in {drainUntil, None} /\ test' = test
  BY <1>2 DEF DrainInv
<1> QED
  BY <1>1, <1>2
  DEF Next, ServerStep, Top, DeadlineBranch, DrainBranch, RecvDoneBranch, SendDoneBranch,
      TickBranch, ReaderGoneBranch, EndRun, Join, FlushNext, FlushTimeout, Remove, WriteBranch,
      FlushWrite, WriteFailsBranch, FlushFails, MoveBytes, TaskEnds, ReadCommand, ReaderExits,
      ClockTick, Finished, vars

\* For any grace window, number of tasks and order of Finish, EOFs and timers:
\* unless the test is a UDP one with a byte budget, whose receive loops hold no
\* handle, the drain after the client's Finish ends no earlier than the window
\* or the EOF of every receive loop.
THEOREM DrainEnds ==
    ASSUME \A t \in Tests : ~(t.protocol = "udp" /\ t.budget)
    PROVE  Spec => DrainHonoured
<1> DEFINE Honoured == (drainUntil # None /\ drainUntil' = None)
                         => now >= drainUntil \/ running \cap RecvTasks = {}
<1>1. IInv /\ DrainInv /\ [Next]_vars => [Honoured]_vars
  <2> SUFFICES ASSUME IInv, DrainInv, Next, drainUntil # None, drainUntil' = None
               PROVE  now >= drainUntil \/ running \cap RecvTasks = {}
    OBVIOUS
  <2>1. CASE DrainBranch
    BY <2>1 DEF DrainBranch, DrainDue
  <2>2. CASE RecvDoneBranch
    <3>1. test \in Tests /\ test.budget
      BY DEF IInv, TypeOK, DrainInv
    <3> QED
      BY <2>2, <3>1 DEF RecvDoneBranch, RecvClosed
  <2>3. CASE CommandBranch
    <3>2. FinishCmd \/ CancelCmd \/ PauseCmd \/ ResumeCmd
      BY <2>3, ACommand
    <3>3. drainUntil' = drainUntil
      BY <3>2 DEF FinishCmd, CancelCmd, PauseCmd, ResumeCmd
    <3> QED
      BY <3>3
  <2> QED
    BY <2>1, <2>2, <2>3
    DEF Next, ServerStep, Top, DeadlineBranch, SendDoneBranch,
        TickBranch, ReaderGoneBranch, EndRun, Join, FlushNext, FlushTimeout, Remove, WriteBranch,
        FlushWrite, WriteFailsBranch, FlushFails, MoveBytes, TaskEnds, ReadCommand, ReaderExits,
        ClockTick, Finished, vars
<1>2. Init => DrainInv
  BY DEF Init, DrainInv
<1>3. Spec => [](IInv /\ DrainInv)
  BY <1>2, InitIInv, NextIInv, NextDrain, PTL DEF Spec
<1> QED
  BY <1>1, <1>3, PTL DEF Spec, DrainHonoured
=============================================================================
