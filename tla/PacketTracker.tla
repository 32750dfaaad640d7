---------------------------- MODULE PacketTracker ----------------------------
(***************************************************************************)
(* The sequence tracker of a UDP receiver (src/src/udp.rs, PacketTracker): *)
(* loss, reordering and duplicate accounting over a sliding bitmap of the  *)
(* last Window sequence numbers.                                           *)
(*                                                                         *)
(* A tracker is a record with the fields of the Rust struct; each method   *)
(* is an operator from a tracker and its arguments to the new tracker, or  *)
(* to a record of the new tracker and the returned flag.  An absent        *)
(* Option<u64> is None = -1, which is also the position before sequence 0. *)
(* The bitmap is the set of positions whose bit is set: position i is bit  *)
(* i % WordBits of word i \div WordBits, and clear_range is written with   *)
(* the code's word and mask arithmetic.                                    *)
(***************************************************************************)
EXTENDS Integers, FiniteSets

CONSTANTS
    Window,     \* PACKET_TRACKER_WINDOW (65536 in the code)
    WordBits,   \* PACKET_TRACKER_WORD_BITS (64 in the code)
    MaxSeq      \* u64::MAX

ASSUME TrackerConstants ==
    /\ Window \in Nat \ {0}
    /\ WordBits \in Nat \ {0}
    /\ Window % WordBits = 0
    /\ MaxSeq \in Nat
    /\ MaxSeq > Window

None == -1

SaturatingAdd(a, b) == IF a + b > MaxSeq THEN MaxSeq ELSE a + b
SaturatingSub(a, b) == IF a < b THEN 0 ELSE a - b
AbsDiff(a, b) == IF a < b THEN b - a ELSE a - b

Positions == 0 .. Window - 1
Index(sequence) == sequence % Window

Trackers ==
    [received : 0 .. MaxSeq + 1,
     lost : 0 .. MaxSeq,
     out_of_order : 0 .. MaxSeq,
     highest_seen : None .. MaxSeq,
     unconfirmed_jump : None .. MaxSeq,
     seen : SUBSET Positions]

new ==
    [received |-> 0, lost |-> 0, out_of_order |-> 0,
     highest_seen |-> None, unconfirmed_jump |-> None, seen |-> {}]

-----------------------------------------------------------------------------

Word(i) == i \div WordBits
Bit(i) == i % WordBits

\* Clear the bits of start .. end - 1: the tail of the first word, the whole
\* words between, the head of the last word.
clear_range(seen, start, end) ==
    LET first == Word(start)
        last == Word(end - 1)
        first_mask == {b \in 0 .. WordBits - 1 : b >= Bit(start)}
        last_mask == IF Bit(end) = 0 THEN 0 .. WordBits - 1
                                     ELSE 0 .. Bit(end) - 1
    IN  CASE start = end -> seen
          [] start # end /\ first = last ->
                {i \in seen : ~ (Word(i) = first
                                 /\ Bit(i) \in first_mask \cap last_mask)}
          [] OTHER ->
                {i \in seen : ~ \/ Word(i) = first /\ Bit(i) \in first_mask
                                \/ Word(i) \in first + 1 .. last - 1
                                \/ Word(i) = last /\ Bit(i) \in last_mask}

\* Mutant: the range that wraps around is cleared only up to the end.
AdvanceWindowNoWrap(seen, previous, next) ==
    LET distance == next - previous
        start == Index(previous + 1)
        end == start + distance
    IN  CASE distance >= Window -> {}
          [] distance < Window /\ end <= Window -> clear_range(seen, start, end)
          [] OTHER -> clear_range(seen, start, Window)

\* Drop the positions that enter the window when the high-water mark moves
\* from previous to next; the range may wrap around the end of the bitmap.
advance_window(seen, previous, next) ==
    LET distance == next - previous
        start == Index(previous + 1)
        end == start + distance
    IN  CASE distance >= Window -> {}
          [] distance < Window /\ end <= Window -> clear_range(seen, start, end)
          [] OTHER -> clear_range(clear_range(seen, start, Window),
                                  0, end - Window)

-----------------------------------------------------------------------------

Counted(t, sequence) ==
    [t EXCEPT !.seen = @ \cup {Index(sequence)},
              !.received = SaturatingAdd(@, 1)]

Ignored(t, sequence) ==
    /\ sequence <= t.highest_seen
    /\ \/ t.highest_seen - sequence >= Window
       \/ Index(sequence) \in t.seen

record_tracked(t, sequence) ==
    CASE t.highest_seen = None ->
            [accepted |-> TRUE,
             tracker |-> Counted([t EXCEPT !.lost = sequence,
                                           !.highest_seen = sequence],
                                 sequence)]
      [] t.highest_seen # None /\ sequence > t.highest_seen ->
            [accepted |-> TRUE,
             tracker |->
                Counted([t EXCEPT
                           !.seen = advance_window(@, t.highest_seen, sequence),
                           !.lost = SaturatingAdd(@, sequence - t.highest_seen - 1),
                           !.highest_seen = sequence],
                        sequence)]
      [] t.highest_seen # None /\ Ignored(t, sequence) ->
            [accepted |-> FALSE, tracker |-> t]
      [] OTHER ->
            [accepted |-> TRUE,
             tracker |-> Counted([t EXCEPT !.lost = SaturatingSub(@, 1),
                                           !.out_of_order = SaturatingAdd(@, 1)],
                                 sequence)]

\* Distance past the high-water mark.
Jump(t, sequence) ==
    IF t.highest_seen = None THEN SaturatingAdd(sequence, 1)
                             ELSE SaturatingSub(sequence, t.highest_seen)

\* The held sequence vouches for this one.
Agrees(t, sequence) ==
    /\ t.unconfirmed_jump # None
    /\ AbsDiff(t.unconfirmed_jump, sequence) < Window

\* A far jump is held unless it agrees with the one already held, which is
\* then replayed first.
record_unique(t, sequence) ==
    CASE Jump(t, sequence) <= Window -> record_tracked(t, sequence)
      [] Jump(t, sequence) > Window /\ Agrees(t, sequence) ->
            record_tracked(
                record_tracked([t EXCEPT !.unconfirmed_jump = None],
                               t.unconfirmed_jump).tracker,
                sequence)
      [] OTHER ->
            [accepted |-> FALSE,
             tracker |-> [t EXCEPT !.unconfirmed_jump = sequence]]

\* After the test: only a gap below the high-water mark may still be filled.
record_straggler(t, sequence) ==
    IF sequence < t.highest_seen THEN record_tracked(t, sequence)
                                 ELSE [accepted |-> FALSE, tracker |-> t]

=============================================================================
