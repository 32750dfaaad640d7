----------------------------- MODULE UdpReceive -----------------------------
(***************************************************************************)
(* The UDP receive loop of one stream (udp.rs, receive_udp): a select over *)
(* the socket, the cancel and pause channels and two timers, with the      *)
(* sequence accounting of PacketTracker, and the drain after the loop.     *)
(*                                                                         *)
(* The network loses, repeats and reorders the datagrams of the sender,    *)
(* numbered 0 .. MaxSent - 1, and also brings stray ones that are not of   *)
(* this test, each at most once, and control datagrams (hello, feedback).  *)
(* Byte counts, datagram sizes and jitter are left out: the loop writes    *)
(* them and decides nothing by them.                                       *)
(***************************************************************************)
EXTENDS PacketTracker

CONSTANTS
    MaxSent,      \* bound: datagrams of the sender
    Strays,       \* sequence numbers of the stray datagrams
    IdleTimeout,  \* UDP_INACTIVITY_TIMEOUT, in clock ticks
    MaxToggles    \* bound: how often the client pauses or resumes

Sent == 0 .. MaxSent - 1

\* There are more sequence numbers than datagrams.
ASSUME UdpReceiveAssumption ==
    /\ MaxSent \in Nat
    /\ Strays \subseteq 0 .. MaxSeq
    /\ MaxSent + Cardinality(Strays) <= MaxSeq
    /\ IdleTimeout \in Nat \ {0}
    /\ MaxToggles \in Nat

\* A stray number is one of the sender's or a far-future one.
ASSUME FarStrays == \A s \in Strays : s < MaxSent \/ s >= MaxSent + Window

VARIABLES
    cancel, paused, pauseVer, open,   \* the watch channels of the test
    seen_pause,           \* the pause version the receiver has marked as seen
    pause_channel_open,   \* the loop still listens to the pause channel
    pc,                   \* where the loop is
    idle,                 \* last_recv.elapsed()
    timer,                \* time until inactivity_timer fires
    packet_tracker,
    udp_progress,         \* what StreamStats publishes: received and lost
    strays,               \* stray datagrams still on their way
    ref                   \* ghost: what the reference definition counts and holds

chanVars == <<cancel, paused, pauseVer, open>>
timeVars == <<idle, timer>>
dataVars == <<packet_tracker, udp_progress, strays, ref>>
vars == <<chanVars, seen_pause, pause_channel_open, pc, timeVars, dataVars>>

NoProgress == [received |-> 0, lost |-> 0]

Init ==
    /\ cancel = FALSE /\ open = TRUE
    /\ paused \in BOOLEAN
    /\ pauseVer = 0 /\ seen_pause = 0
    /\ pause_channel_open = TRUE
    /\ pc = "top"
    /\ idle = 0 /\ timer = IdleTimeout
    /\ packet_tracker = new
    /\ udp_progress = NoProgress
    /\ strays = Strays
    /\ ref = [counted |-> {}, held |-> None]

-----------------------------------------------------------------------------
(* The reference definition: the set of sequences that count as received. *)

Highest(counted) ==
    IF counted = {} THEN None
    ELSE CHOOSE h \in counted : \A s \in counted : s <= h

\* A datagram counts once, and unless it is a window or more behind.
WithDatagram(counted, sequence) ==
    IF Highest(counted) - sequence >= Window THEN counted
    ELSE counted \cup {sequence}

\* One more than a window ahead counts only with a second one near it.
RefArrives(sequence) ==
    LET far == sequence - Highest(ref.counted) > Window
        near == ref.held # None /\ AbsDiff(ref.held, sequence) < Window
    IN  ref' = CASE ~far -> [ref EXCEPT !.counted = WithDatagram(@, sequence)]
                 [] far /\ near ->
                      [counted |-> WithDatagram(WithDatagram(ref.counted, ref.held),
                                                sequence),
                       held |-> None]
                 [] OTHER -> [ref EXCEPT !.held = sequence]

\* After the test, only gaps are filled.
RefStraggles(sequence) ==
    ref' = IF sequence < Highest(ref.counted)
             THEN [ref EXCEPT !.counted = WithDatagram(@, sequence)] ELSE ref

-----------------------------------------------------------------------------
(* The signals, as the test's owner drives them, and time. *)

TogglePause ==
    /\ open /\ pauseVer < MaxToggles
    /\ paused' = ~paused
    /\ pauseVer' = pauseVer + 1
    /\ UNCHANGED <<cancel, open, seen_pause, pause_channel_open, pc, timeVars, dataVars>>

RequestCancel ==
    /\ open /\ ~cancel
    /\ cancel' = TRUE
    /\ UNCHANGED <<paused, pauseVer, open, seen_pause, pause_channel_open, pc, timeVars,
                   dataVars>>

\* The owner of both senders goes away.
DropSenders ==
    /\ open
    /\ open' = FALSE
    /\ UNCHANGED <<cancel, paused, pauseVer, seen_pause, pause_channel_open, pc, timeVars,
                   dataVars>>

\* Time passes while the loop waits and its timer is not due.
ClockTick ==
    /\ pc = "select" /\ timer > 0
    /\ idle' = idle + 1
    /\ timer' = timer - 1
    /\ UNCHANGED <<chanVars, seen_pause, pause_channel_open, pc, dataVars>>

is_paused == paused /\ open

CancelChanged == cancel \/ ~open

-----------------------------------------------------------------------------
(* The loop *)

\* Top of the loop: cancel, then pause, then the select.
Top ==
    /\ pc = "top"
    /\ pc' = CASE cancel               -> "drain"
               [] ~cancel /\ is_paused -> "paused"
               [] OTHER                -> "select"
    /\ UNCHANGED <<chanVars, seen_pause, pause_channel_open, timeVars, dataVars>>

\* wait_while_paused: it returns when the pause is over, marking the version
\* if changed() woke it, and the inactivity clock starts anew; or it tells
\* the loop to stop.
Paused ==
    /\ pc = "paused"
    /\ \/ /\ ~is_paused
          /\ pc' = "top"
          /\ seen_pause' \in {seen_pause, pauseVer}
          /\ pause_channel_open' = open
          /\ idle' = 0 /\ timer' = IdleTimeout
       \/ /\ CancelChanged
          /\ pc' = "drain"
          /\ UNCHANGED <<seen_pause, pause_channel_open, timeVars>>
    /\ UNCHANGED <<chanVars, dataVars>>

\* record_accepted_packet
Publish(t) == [received |-> t.received, lost |-> t.lost]

\* A datagram of the sender or a stray one, still on its way.
Arriving == Sent \cup strays

\* A data datagram: only one the tracker accepts is published.
ReceiveData(sequence) ==
    /\ pc = "select"
    /\ sequence \in Arriving
    /\ LET r == record_unique(packet_tracker, sequence) IN
       /\ packet_tracker' = r.tracker
       /\ udp_progress' = IF r.accepted THEN Publish(r.tracker) ELSE udp_progress
    /\ RefArrives(sequence)
    /\ strays' = strays \ {sequence}
    /\ idle' = 0
    /\ pc' = "top"
    /\ UNCHANGED <<chanVars, seen_pause, pause_channel_open, timer>>

\* A feedback or hello datagram, or one too short for a header: it only shows
\* that the peer is there (a hello is acknowledged again).
ReceiveControl ==
    /\ pc = "select"
    /\ idle' = 0
    /\ pc' = "top"
    /\ UNCHANGED <<chanVars, seen_pause, pause_channel_open, timer, dataVars>>

\* A receive error is logged; a feedback tick sends udp_progress to the peer.
\* Neither changes the loop's state.
ReceiveErrorOrFeedback ==
    /\ pc = "select"
    /\ pc' = "top"
    /\ UNCHANGED <<chanVars, seen_pause, pause_channel_open, timeVars, dataVars>>

CancelBranch ==
    /\ pc = "select"
    /\ CancelChanged
    /\ pc' = "drain"
    /\ UNCHANGED <<chanVars, seen_pause, pause_channel_open, timeVars, dataVars>>

\* changed() reports an unseen version first and the closed channel after it.
PauseBranch ==
    /\ pc = "select"
    /\ pause_channel_open
    /\ IF seen_pause # pauseVer
         THEN seen_pause' = pauseVer /\ UNCHANGED pause_channel_open
         ELSE ~open /\ pause_channel_open' = FALSE /\ UNCHANGED seen_pause
    /\ pc' = "top"
    /\ UNCHANGED <<chanVars, timeVars, dataVars>>

\* Mutant: off by one, an idle stream is armed again.
InactivityOffByOne ==
    /\ pc = "select" /\ timer = 0
    /\ IF idle > IdleTimeout
         THEN pc' = "drain" /\ UNCHANGED timer
         ELSE pc' = "top" /\ timer' = IdleTimeout - idle
    /\ UNCHANGED <<chanVars, seen_pause, pause_channel_open, idle, dataVars>>

\* The inactivity timer: the stream is idle, or the timer is armed again for
\* what is left since the last datagram.
InactivityBranch ==
    /\ pc = "select" /\ timer = 0
    /\ IF idle >= IdleTimeout
         THEN pc' = "drain" /\ UNCHANGED timer
         ELSE pc' = "top" /\ timer' = IdleTimeout - idle
    /\ UNCHANGED <<chanVars, seen_pause, pause_channel_open, idle, dataVars>>

-----------------------------------------------------------------------------
(* After the loop: late datagrams may fill gaps for UDP_TAIL_DRAIN. *)

\* Mutant: the drain records what it receives as the loop does.
DrainRecordsAny(sequence) ==
    /\ pc = "drain" /\ packet_tracker.lost > 0
    /\ sequence \in Arriving
    /\ LET r == record_unique(packet_tracker, sequence) IN
       /\ packet_tracker' = r.tracker
       /\ udp_progress' = IF r.accepted THEN Publish(r.tracker) ELSE udp_progress
    /\ RefStraggles(sequence)
    /\ strays' = strays \ {sequence}
    /\ UNCHANGED <<chanVars, seen_pause, pause_channel_open, pc, timeVars>>

\* A control datagram decodes to a sequence above every high-water mark.
DrainData(sequence) ==
    /\ pc = "drain" /\ packet_tracker.lost > 0
    /\ sequence \in Arriving \cup {MaxSeq}
    /\ LET r == record_straggler(packet_tracker, sequence) IN
       /\ packet_tracker' = r.tracker
       /\ udp_progress' = IF r.accepted THEN Publish(r.tracker) ELSE udp_progress
    /\ RefStraggles(sequence)
    /\ strays' = strays \ {sequence}
    /\ UNCHANGED <<chanVars, seen_pause, pause_channel_open, pc, timeVars>>

\* Every gap is filled, or the time is up.
DrainEnds ==
    /\ pc = "drain"
    /\ pc' = "done"
    /\ UNCHANGED <<chanVars, seen_pause, pause_channel_open, timeVars, dataVars>>

Finished == pc = "done" /\ UNCHANGED vars

-----------------------------------------------------------------------------

Next ==
    \/ TogglePause \/ RequestCancel \/ DropSenders \/ ClockTick
    \/ Top \/ Paused
    \/ \E sequence \in Sent \cup Strays : ReceiveData(sequence)
    \/ ReceiveControl \/ ReceiveErrorOrFeedback
    \/ CancelBranch \/ PauseBranch \/ InactivityBranch
    \/ \E sequence \in Sent \cup Strays \cup {MaxSeq} : DrainData(sequence)
    \/ DrainEnds
    \/ Finished

Spec == Init /\ [][Next]_vars

\* Tokio runs the task, select! picks a branch at random among the ready
\* ones, so that one that is ready again and again is taken in the end, and
\* time passes.  Nothing makes a datagram arrive.
Fairness ==
    /\ WF_vars(Top) /\ WF_vars(Paused) /\ WF_vars(DrainEnds)
    /\ SF_vars(CancelBranch) /\ SF_vars(InactivityBranch)
    /\ SF_vars(ClockTick)

FairSpec == Spec /\ Fairness

-----------------------------------------------------------------------------
(* Properties *)

TypeOK ==
    /\ cancel \in BOOLEAN /\ paused \in BOOLEAN /\ open \in BOOLEAN
    /\ pauseVer \in Nat /\ seen_pause \in 0 .. pauseVer
    /\ pause_channel_open \in BOOLEAN
    /\ pc \in {"top", "paused", "select", "drain", "done"}
    /\ idle \in Nat /\ timer \in Nat
    /\ packet_tracker \in Trackers
    /\ udp_progress \in [received : 0 .. MaxSeq + 1, lost : 0 .. MaxSeq]
    /\ strays \subseteq Strays
    /\ ref.counted \subseteq 0 .. MaxSeq /\ ref.held \in None .. MaxSeq

(***************************************************************************)
(* Whatever is lost, repeated, late or far ahead, the tracker agrees with  *)
(* the reference: it received exactly the datagrams that count, lost every *)
(* other number up to the highest, and its bitmap, through all the masks   *)
(* and wraps of advance_window, holds exactly the counted ones of the      *)
(* window (udp.rs, PacketTracker).                                         *)
(***************************************************************************)
TrackerExact ==
    LET t == packet_tracker
        top == Highest(ref.counted)
    IN  /\ t.highest_seen = top
        /\ t.received = Cardinality(ref.counted)
        /\ t.received + t.lost = top + 1
        /\ t.unconfirmed_jump = ref.held
        /\ \A s \in 0 .. top :
             top - s < Window => (Index(s) \in t.seen <=> s \in ref.counted)

(***************************************************************************)
(* "one stray or spoofed datagram with a far-future sequence cannot strand *)
(* every real packet behind it as too old" (udp.rs:507): as long as only   *)
(* one stray datagram has come, and however many control datagrams, the    *)
(* high-water mark is one of the sender's own.                             *)
(***************************************************************************)
NeverStranded ==
    Cardinality(Strays \ strays) <= 1 => packet_tracker.highest_seen < MaxSent

(***************************************************************************)
(* The loss figures are right: the tracker is exact, and neither a stray   *)
(* datagram nor the control datagrams it shares the socket with move its   *)
(* window (udp.rs, PacketTracker).                                         *)
(***************************************************************************)
LossExact == TrackerExact /\ NeverStranded

(***************************************************************************)
(* What is published "grows monotonically" in received and in received +   *)
(* lost (protocol.rs:286), on which the client's filter relies, and after  *)
(* the test only repairs are made: loss never grows in the drain.          *)
(***************************************************************************)
ProgressMonotone ==
    [][LET before == udp_progress
           after == udp_progress'
       IN  /\ after.received >= before.received
           /\ after.received + after.lost >= before.received + before.lost
           /\ pc = "drain" =>
                /\ packet_tracker'.lost <= packet_tracker.lost
                /\ packet_tracker'.highest_seen = packet_tracker.highest_seen]_vars

(***************************************************************************)
(* The receive task ends: when it is cancelled or its owner goes away, in  *)
(* a pause too, and when the stream stays silent without being paused,     *)
(* although its one timer is armed again and not reset by datagrams.       *)
(***************************************************************************)
ReceiverEnds ==
    /\ CancelChanged ~> pc = "done"
    /\ (<>[](idle > 0 /\ ~is_paused)) => <>(pc = "done")

=============================================================================
