----------------------------- MODULE SendLoops -----------------------------
(***************************************************************************)
(* The send loops of one `-n` test and the byte budget they share          *)
(* (budget.rs, pause.rs, and the loops of tcp.rs, quic.rs and udp.rs).     *)
(*                                                                         *)
(* Every stream runs its loop on a thread of its own: look at cancel, wait *)
(* while paused, look at the deadline, claim bytes from the shared atomic  *)
(* counter, write, refund what was not written, count what was.  Steps are *)
(* as fine as the code's accesses to shared state: the claim is a load and *)
(* a compare-exchange, and refund and byte count are steps of their own.   *)
(* The cancel and pause signals are tokio watch channels: `pauseVer` is    *)
(* the channel's version and `seen` the version each receiver last marked, *)
(* so that changed() is ready exactly when the two differ.                 *)
(***************************************************************************)
EXTENDS Integers, FiniteSets

CONSTANTS
    Streams,     \* the streams of the test
    Budget,      \* the N of -n
    Chunk,       \* bytes of one full write (buffer length, UDP payload)
    Header,      \* bytes of the UDP packet header (UDP_HEADER_SIZE)
    Tests,       \* the kinds of test the client may ask for
    MaxToggles   \* bound: how often the client pauses or resumes

ASSUME ConstAssumption ==
    /\ Streams # {}
    /\ Budget \in Nat
    /\ Chunk \in Nat \ {0}
    /\ Header \in 1..Chunk
    /\ Tests \subseteq [proto : {"tcp", "quic", "udp"}, timed : BOOLEAN, paced : BOOLEAN]
    /\ MaxToggles \in Nat

VARIABLES
    test,        \* the test: its protocol, whether it has a duration, a bitrate
    remaining,   \* ByteBudget.remaining
    dropped,     \* UDP leftover claimed and abandoned (claim_datagram)
    cancel, paused, pauseVer, open,   \* the watch channels of the test
    expired,     \* the pause-adjusted deadline has passed
    pc,          \* where each send loop is
    seen,        \* the pause version each receiver has marked as seen
    cur,         \* the counter value loaded by claim(), while it runs
    claim,       \* bytes reserved and neither written nor refunded
    off,         \* chunk_offset
    wrote,       \* bytes the last write accepted, not yet counted
    out,         \* bytes handed to the network
    sent,        \* StreamStats.bytes_sent
    exit         \* why each loop ended, or is about to

\* What the loops read and never write.
readVars == <<test, cancel, paused, pauseVer, open, expired>>
loopVars == <<pc, seen, cur, claim, off, wrote, out, sent, exit>>
vars == <<remaining, dropped, readVars, loopVars>>

Labels == {"head", "wait", "load", "cas", "write", "refund", "count", "pace",
           "close", "done"}
Exits == {"none", "spent", "cancelled", "deadline", "error"}

TypeOK ==
    /\ test \in Tests
    /\ remaining \in Nat /\ dropped \in Nat
    /\ cancel \in BOOLEAN /\ paused \in BOOLEAN /\ open \in BOOLEAN
    /\ expired \in BOOLEAN
    /\ pauseVer \in Nat
    /\ pc \in [Streams -> Labels]
    /\ seen \in [Streams -> Nat]
    /\ cur \in [Streams -> Nat]
    /\ claim \in [Streams -> Nat]
    /\ off \in [Streams -> 0..(Chunk - 1)]
    /\ wrote \in [Streams -> Nat]
    /\ out \in [Streams -> Nat]
    /\ sent \in [Streams -> Nat]
    /\ exit \in [Streams -> Exits]

Init ==
    /\ test \in Tests
    /\ remaining = Budget /\ dropped = 0
    /\ cancel = FALSE /\ open = TRUE /\ expired = FALSE
    /\ paused \in BOOLEAN   \* a loop may start while the client has paused
    /\ pauseVer = 0
    /\ pc = [s \in Streams |-> "head"]
    /\ seen = [s \in Streams |-> 0]
    /\ cur = [s \in Streams |-> 0]
    /\ claim = [s \in Streams |-> 0]
    /\ off = [s \in Streams |-> 0]
    /\ wrote = [s \in Streams |-> 0]
    /\ out = [s \in Streams |-> 0]
    /\ sent = [s \in Streams |-> 0]
    /\ exit = [s \in Streams |-> "none"]

-----------------------------------------------------------------------------
(* The signals, as the test's owner drives them. *)

\* pause_tx.send(true) or send(false).
TogglePause ==
    /\ open /\ pauseVer < MaxToggles
    /\ paused' = ~paused
    /\ pauseVer' = pauseVer + 1
    /\ UNCHANGED <<test, remaining, dropped, cancel, open, expired, loopVars>>

\* cancel_tx.send(true).
RequestCancel ==
    /\ open /\ ~cancel
    /\ cancel' = TRUE
    /\ UNCHANGED <<test, remaining, dropped, paused, pauseVer, open, expired, loopVars>>

\* The owner of both senders goes away.
DropSenders ==
    /\ open
    /\ open' = FALSE
    /\ UNCHANGED <<test, remaining, dropped, cancel, paused, pauseVer, expired, loopVars>>

\* Each loop moves its deadline by the time it was paused, so it passes
\* only while the test runs.
DeadlinePasses ==
    /\ test.timed /\ ~expired /\ ~paused
    /\ expired' = TRUE
    /\ UNCHANGED <<test, remaining, dropped, cancel, paused, pauseVer, open, loopVars>>

-----------------------------------------------------------------------------
(* pause.rs *)

is_paused == paused /\ open

\* changed() is ready with an unseen version; the loops ask only while the
\* channel is open.
PauseChanged(s) == open /\ seen[s] # pauseVer

\* changed() on the cancel channel is ready when the value was set or the
\* sender is gone; either ends the loop.
CancelChanged == cancel \/ ~open

-----------------------------------------------------------------------------
(* One send loop *)

Leave(s, why) ==
    /\ exit' = [exit EXCEPT ![s] = why]
    /\ pc' = [pc EXCEPT ![s] = "close"]

\* Top of the loop: cancel first, then pause, then the deadline.
Head(s) ==
    /\ pc[s] = "head"
    /\ \/ /\ cancel
          /\ Leave(s, "cancelled")
       \/ /\ ~cancel /\ is_paused
          /\ pc' = [pc EXCEPT ![s] = "wait"]
          /\ UNCHANGED exit
       \/ /\ ~cancel /\ ~is_paused /\ expired
          /\ Leave(s, "deadline")
       \/ /\ ~cancel /\ ~is_paused /\ ~expired
          /\ pc' = [pc EXCEPT ![s] = "load"]
          /\ UNCHANGED exit
    /\ UNCHANGED <<remaining, dropped, readVars, seen, cur, claim, off, wrote, out, sent>>

\* Mutant: a paused loop does not look at cancel.
WaitIgnoresCancel(s) ==
    /\ pc[s] = "wait" /\ ~is_paused
    /\ pc' = [pc EXCEPT ![s] = "head"]
    /\ UNCHANGED <<remaining, dropped, readVars, seen, cur, claim, off, wrote, out,
                   sent, exit>>

\* wait_while_paused: it returns when the pause is over, marking the new
\* version if it was woken by changed(), or tells the loop to stop.
Wait(s) ==
    /\ pc[s] = "wait"
    /\ \/ /\ ~is_paused
          /\ pc' = [pc EXCEPT ![s] = "head"]
          /\ seen' \in {seen, [seen EXCEPT ![s] = pauseVer]}
          /\ UNCHANGED exit
       \/ /\ CancelChanged
          /\ Leave(s, "cancelled")
          /\ UNCHANGED seen
    /\ UNCHANGED <<remaining, dropped, readVars, cur, claim, off, wrote, out, sent>>

\* claim(want): what the loop asks for.  TCP resumes a partly written chunk.
Want(s) == IF test.proto = "tcp" THEN Chunk - off[s] ELSE Chunk

Granted(s) == IF cur[s] < Want(s) THEN cur[s] ELSE Want(s)

ClaimLoad(s) ==
    /\ pc[s] = "load"
    /\ cur' = [cur EXCEPT ![s] = remaining]
    /\ pc' = [pc EXCEPT ![s] = "cas"]
    /\ UNCHANGED <<remaining, dropped, readVars, seen, claim, off, wrote, out, sent,
                   exit>>

\* Mutant: a grant shorter than asked for counts as spent.
ShortGrantIsNothing(s) ==
    /\ pc[s] = "cas" /\ Granted(s) < Want(s)
    /\ Leave(s, "spent")
    /\ cur' = [cur EXCEPT ![s] = 0]
    /\ UNCHANGED <<remaining, dropped, readVars, seen, claim, off, wrote, out, sent>>

\* Mutant: a loop that gets nothing asks again.
NothingRetries(s) ==
    /\ pc[s] = "cas" /\ Granted(s) = 0
    /\ pc' = [pc EXCEPT ![s] = "head"]
    /\ cur' = [cur EXCEPT ![s] = 0]
    /\ UNCHANGED <<remaining, dropped, readVars, seen, claim, off, wrote, out, sent,
                   exit>>

\* Nothing left: claim returns 0 without touching the counter.
ClaimNothing(s) ==
    /\ pc[s] = "cas" /\ Granted(s) = 0
    /\ Leave(s, "spent")
    /\ cur' = [cur EXCEPT ![s] = 0]
    /\ UNCHANGED <<remaining, dropped, readVars, seen, claim, off, wrote, out, sent>>

\* Mutant: the claim stores without comparing.
SwapUnchecked(s) ==
    /\ pc[s] = "cas" /\ Granted(s) > 0
    /\ remaining' = cur[s] - Granted(s)
    /\ cur' = [cur EXCEPT ![s] = 0]
    /\ claim' = [claim EXCEPT ![s] = Granted(s)]
    /\ pc' = [pc EXCEPT ![s] = "write"]
    /\ UNCHANGED <<dropped, readVars, seen, off, wrote, out, sent, exit>>

\* compare_exchange_weak succeeds.  A UDP grant too small for a header is
\* given up, and the loop with it (claim_datagram).
ClaimSwap(s) ==
    /\ pc[s] = "cas" /\ Granted(s) > 0 /\ remaining = cur[s]
    /\ remaining' = remaining - Granted(s)
    /\ cur' = [cur EXCEPT ![s] = 0]
    /\ IF test.proto = "udp" /\ Granted(s) < Header
       THEN /\ Leave(s, "spent")
            /\ dropped' = dropped + Granted(s)
            /\ UNCHANGED claim
       ELSE /\ claim' = [claim EXCEPT ![s] = Granted(s)]
            /\ pc' = [pc EXCEPT ![s] = "write"]
            /\ UNCHANGED <<dropped, exit>>
    /\ UNCHANGED <<readVars, seen, off, wrote, out, sent>>

\* compare_exchange_weak fails, because the counter moved or spuriously.
ClaimRetry(s) ==
    /\ pc[s] = "cas" /\ Granted(s) > 0
    /\ cur' = [cur EXCEPT ![s] = remaining]
    /\ UNCHANGED <<remaining, dropped, readVars, pc, seen, claim, off, wrote, out, sent,
                   exit>>

\* The network takes n of the claimed bytes.  TCP may take none (would
\* block), QUIC takes at least one, a datagram goes out whole.
Accepts(s, n) ==
    CASE test.proto = "tcp"  -> n \in 0..claim[s]
      [] test.proto = "quic" -> n \in 1..claim[s]
      [] test.proto = "udp"  -> n = claim[s]

WriteOk(s, n) ==
    /\ pc[s] = "write" /\ Accepts(s, n)
    /\ out' = [out EXCEPT ![s] = @ + n]
    /\ claim' = [claim EXCEPT ![s] = @ - n]
    /\ wrote' = [wrote EXCEPT ![s] = n]
    /\ pc' = [pc EXCEPT ![s] = "refund"]
    /\ UNCHANGED <<remaining, dropped, readVars, seen, cur, off, sent, exit>>

\* The select! around a blocked TCP or QUIC write: cancel, pause, deadline.
\* A datagram send is not interruptible.
WriteInterrupted(s) ==
    /\ pc[s] = "write" /\ test.proto # "udp"
    /\ \/ /\ CancelChanged
          /\ exit' = [exit EXCEPT ![s] = "cancelled"]
          /\ UNCHANGED seen
       \/ /\ PauseChanged(s)
          /\ seen' = [seen EXCEPT ![s] = pauseVer]
          /\ UNCHANGED exit
       \/ /\ expired
          /\ exit' = [exit EXCEPT ![s] = "deadline"]
          /\ UNCHANGED seen
    /\ wrote' = [wrote EXCEPT ![s] = 0]
    /\ pc' = [pc EXCEPT ![s] = "refund"]
    /\ UNCHANGED <<remaining, dropped, readVars, cur, claim, off, out, sent>>

\* A write error.  UDP carries on; TCP falls back from sendfile and carries
\* on, or ends the loop: quietly during teardown, as an error otherwise.
WriteError(s) ==
    /\ pc[s] = "write"
    /\ \/ test.proto \in {"tcp", "udp"} /\ UNCHANGED exit
       \/ /\ test.proto # "udp" /\ cancel
          /\ exit' = [exit EXCEPT ![s] = "cancelled"]
       \/ /\ test.proto # "udp" /\ ~cancel /\ test.timed
          /\ exit' = [exit EXCEPT ![s] = "deadline"]
       \/ /\ test.proto # "udp" /\ ~cancel /\ ~expired
          /\ exit' = [exit EXCEPT ![s] = "error"]
    /\ wrote' = [wrote EXCEPT ![s] = 0]
    /\ pc' = [pc EXCEPT ![s] = "refund"]
    /\ UNCHANGED <<remaining, dropped, readVars, seen, cur, claim, off, out, sent>>

\* Mutant: what was not written is not returned.
RefundForgotten(s) ==
    /\ pc[s] = "refund"
    /\ claim' = [claim EXCEPT ![s] = 0]
    /\ pc' = [pc EXCEPT ![s] = IF exit[s] # "none" THEN "close"
                               ELSE IF wrote[s] = 0 THEN "head" ELSE "count"]
    /\ UNCHANGED <<remaining, dropped, readVars, seen, cur, off, wrote, out, sent, exit>>

\* refund_unwritten(claimed, written): one fetch_add.  A loop that wrote
\* nothing starts over; one that was told to stop does.
Refund(s) ==
    /\ pc[s] = "refund"
    /\ remaining' = remaining + claim[s]
    /\ claim' = [claim EXCEPT ![s] = 0]
    /\ pc' = [pc EXCEPT ![s] = IF exit[s] # "none" THEN "close"
                               ELSE IF wrote[s] = 0 THEN "head" ELSE "count"]
    /\ UNCHANGED <<dropped, readVars, seen, cur, off, wrote, out, sent, exit>>

\* stats.add_bytes_sent(n) and the move within the chunk.
Count(s) ==
    /\ pc[s] = "count"
    /\ sent' = [sent EXCEPT ![s] = @ + wrote[s]]
    /\ off' = [off EXCEPT ![s] =
                  IF test.proto = "tcp" /\ @ + wrote[s] < Chunk THEN @ + wrote[s] ELSE 0]
    /\ wrote' = [wrote EXCEPT ![s] = 0]
    /\ pc' = [pc EXCEPT ![s] = "pace"]
    /\ UNCHANGED <<remaining, dropped, readVars, seen, cur, claim, out, exit>>

\* The pacing sleep (the ticker of the paced UDP loop), woken early by
\* cancel or pause.
Pace(s) ==
    /\ pc[s] = "pace"
    /\ \/ /\ test.paced /\ CancelChanged
          /\ Leave(s, "cancelled")
          /\ UNCHANGED seen
       \/ /\ test.paced /\ PauseChanged(s)
          /\ seen' = [seen EXCEPT ![s] = pauseVer]
          /\ pc' = [pc EXCEPT ![s] = "head"]
          /\ UNCHANGED exit
       \/ /\ pc' = [pc EXCEPT ![s] = "head"]
          /\ UNCHANGED <<seen, exit>>
    /\ UNCHANGED <<remaining, dropped, readVars, cur, claim, off, wrote, out, sent>>

\* After the loop.  A TCP write error clamps the byte count to what the peer
\* acknowledged; every other end shuts the stream down and waits, for a
\* bounded time, for the acknowledgement.  Returning drops the
\* `sending_done` handle.
Close(s) ==
    /\ pc[s] = "close"
    /\ IF test.proto = "tcp" /\ exit[s] = "error"
       THEN \E acked \in 0..sent[s] : sent' = [sent EXCEPT ![s] = acked]
       ELSE UNCHANGED sent
    /\ pc' = [pc EXCEPT ![s] = "done"]
    /\ UNCHANGED <<remaining, dropped, readVars, seen, cur, claim, off, wrote, out, exit>>

Write(s) == \E n \in 0..claim[s] : WriteOk(s, n)

\* The steps the runtime owes stream s.
LoopStep(s) ==
    \/ Head(s) \/ Wait(s)
    \/ ClaimLoad(s) \/ ClaimNothing(s) \/ ClaimSwap(s) \/ ClaimRetry(s)
    \/ Write(s) \/ WriteInterrupted(s) \/ WriteError(s)
    \/ Refund(s) \/ Count(s) \/ Pace(s) \/ Close(s)

AllDone == \A s \in Streams : pc[s] = "done"

\* Every loop has returned: nothing is left to do.
Finished == AllDone /\ UNCHANGED vars

Next ==
    \/ TogglePause \/ RequestCancel \/ DropSenders \/ DeadlinePasses
    \/ \E s \in Streams : LoopStep(s)
    \/ Finished

Spec == Init /\ [][Next]_vars

\* Tokio runs every runnable task; a weak compare-exchange does not fail for
\* ever, and a peer that reads lets a retried write make progress.
Fairness ==
    \A s \in Streams :
        /\ WF_vars(LoopStep(s))
        /\ SF_vars(ClaimSwap(s))
        /\ SF_vars(\E n \in 1..claim[s] : WriteOk(s, n))

FairSpec == Spec /\ Fairness

-----------------------------------------------------------------------------
(* Properties *)

\* The bytes of f, each named by its stream and a number, and their total.
Units(f) == UNION {{s} \X (1..f[s]) : s \in DOMAIN f}
Total(f) == Cardinality(Units(f))

\* The shared budget is conserved whatever the interleaving: every byte is
\* unclaimed, reserved by a stream, on the network, or part of a UDP leftover
\* (budget.rs:5, "the total transferred is exactly N regardless of how many
\* streams are running and how the bytes happen to divide between them").
BudgetConserved ==
    remaining + Total(claim) + Total(out) + dropped = Budget

\* When every loop ends because the budget is spent, the whole budget went
\* out and was counted: no stream may leave on a counter that reads zero
\* while bytes another stream will refund are lost with it.
SpentMeansDelivered ==
    (AllDone /\ \A s \in Streams : exit[s] = "spent")
        => Total(out) = Budget - dropped /\ sent = out

\* A stream that has left because the budget is spent, or is about to on a
\* counter it read as zero.
GaveUp(s) == exit[s] = "spent" \/ (pc[s] = "cas" /\ Granted(s) = 0)

\* Unclaimed bytes always have a taker: a stream that leaves on a zero
\* counter leaves whoever holds the last claim behind to take a refund.
UnclaimedHasTaker == remaining > 0 => \E s \in Streams : ~GaveUp(s)

\* What a UDP test gives up: the tail that cannot carry a header.  The budget
\* is rounded down to a datagram boundary (udp.rs:912).
UdpTail == IF Budget % Chunk < Header THEN Budget % Chunk ELSE 0

\* The byte count never runs ahead of the bytes on the network.
CountNeverAhead == \A s \in Streams : sent[s] + wrote[s] <= out[s]

\* What the loops promise together, as the abstract transfer: bytes only
\* ever go out, never beyond the goal, and the test counts as complete with
\* nothing missing.
Promise == INSTANCE Transfer WITH
    goal <- IF test.proto = "udp" THEN Budget - UdpTail ELSE Budget,
    delivered <- Total(out),
    status <- IF ~AllDone THEN "running"
              ELSE IF \A s \in Streams : exit[s] = "spent" THEN "complete"
              ELSE "aborted"

\* The send loops implement it.
ImplementsTransfer == Promise!Spec

\* The loops end: a cancel, or the loss of its sender, ends every one, paused ones too, and so does a
\* test that does not stay paused.
LoopsEnd ==
    /\ CancelChanged ~> AllDone
    /\ (<>[]~is_paused) => <>AllDone
=============================================================================
