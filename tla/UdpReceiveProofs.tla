-------------------------- MODULE UdpReceiveProofs --------------------------
(***************************************************************************)
(* Proofs about the UDP receive loop: its sequence tracker, for every      *)
(* window and word size of the bitmap and any number of datagrams, agrees  *)
(* with the set of sequences that count as received.                       *)
(***************************************************************************)
EXTENDS UdpReceive, FiniteSetTheorems, TLAPS

-----------------------------------------------------------------------------
(* Division with remainder.                                                  *)

LEMMA DivMod ==
    ASSUME NEW b \in Nat \ {0}, NEW a \in Nat
    PROVE  /\ a \div b \in Nat /\ a % b \in 0 .. b - 1
           /\ a = b * (a \div b) + (a % b)
  OBVIOUS

LEMMA NextMultiple ==
    ASSUME NEW b \in Nat, NEW q \in Int, NEW r \in Int, q < r
    PROVE  b * q + b <= b * r
<1>1. b * (q + 1) <= b * r
  OBVIOUS
<1>2. b * (q + 1) = b * q + b
  OBVIOUS
<1>3. b * q \in Int /\ b * r \in Int
  OBVIOUS
<1> QED
  BY <1>1, <1>2, <1>3

\* Quotient and remainder are the only ones.
LEMMA DivModUnique ==
    ASSUME NEW b \in Nat \ {0}, NEW a \in Nat, NEW q \in Int, NEW r \in 0 .. b - 1,
           a = b * q + r
    PROVE  a \div b = q /\ a % b = r
<1>1. /\ a \div b \in Nat /\ a % b \in 0 .. b - 1
      /\ a = b * (a \div b) + (a % b)
  BY DivMod
<1> DEFINE p == a \div b
           s == a % b
<1>2. b * p \in Int /\ b * q \in Int
  BY <1>1
<1>3. ~(p < q)
  <2>1. p < q => b * p + b <= b * q
    BY <1>1, NextMultiple
  <2> HIDE DEF p, s
  <2> QED
    BY <1>1, <1>2, <2>1 DEF p, s
<1>4. ~(q < p)
  <2>1. q < p => b * q + b <= b * p
    BY <1>1, NextMultiple
  <2> QED
    BY <1>1, <1>2, <2>1
<1>5. p = q
  BY <1>1, <1>3, <1>4
<1> QED
  BY <1>1, <1>2, <1>5

-----------------------------------------------------------------------------
(* The bitmap.                                                               *)

LEMMA WordFields ==
    ASSUME NEW i \in Nat
    PROVE  /\ Word(i) \in Nat /\ Bit(i) \in 0 .. WordBits - 1 /\ WordBits \in Nat \ {0}
           /\ i = WordBits * Word(i) + Bit(i) /\ WordBits * Word(i) \in Nat
<1>1. WordBits \in Nat \ {0}
  BY TrackerConstants DEF TrackerConstants
<1>2. /\ Word(i) \in Nat /\ Bit(i) \in 0 .. WordBits - 1
      /\ i = WordBits * Word(i) + Bit(i)
  BY <1>1, DivMod DEF Word, Bit
<1> QED
  BY <1>1, <1>2

\* Positions are ordered by word, then by bit.
LEMMA WordOrder ==
    ASSUME NEW i \in Nat, NEW j \in Nat
    PROVE  i < j <=> Word(i) < Word(j) \/ (Word(i) = Word(j) /\ Bit(i) < Bit(j))
<1>1. /\ Word(i) \in Nat /\ Bit(i) \in 0 .. WordBits - 1 /\ WordBits \in Nat \ {0}
      /\ i = WordBits * Word(i) + Bit(i) /\ WordBits * Word(i) \in Nat
      /\ Word(j) \in Nat /\ Bit(j) \in 0 .. WordBits - 1
      /\ j = WordBits * Word(j) + Bit(j) /\ WordBits * Word(j) \in Nat
  BY WordFields
<1>2. /\ Word(i) < Word(j) => WordBits * Word(i) + WordBits <= WordBits * Word(j)
      /\ Word(j) < Word(i) => WordBits * Word(j) + WordBits <= WordBits * Word(i)
  BY <1>1, NextMultiple
<1> QED
  BY <1>1, <1>2

\* The word and the bit just below a position.
LEMMA BitBelow ==
    ASSUME NEW end \in Nat \ {0}
    PROVE  /\ Bit(end) = 0 => Word(end - 1) = Word(end) - 1 /\ Bit(end - 1) = WordBits - 1
           /\ Bit(end) # 0 => Word(end - 1) = Word(end) /\ Bit(end - 1) = Bit(end) - 1
<1>1. /\ Word(end) \in Nat /\ Bit(end) \in 0 .. WordBits - 1 /\ WordBits \in Nat \ {0}
      /\ end = WordBits * Word(end) + Bit(end) /\ WordBits * Word(end) \in Nat
      /\ end - 1 \in Nat
  BY WordFields
<1>2. CASE Bit(end) = 0
  <2>1. WordBits * (Word(end) - 1) = WordBits * Word(end) - WordBits
    BY <1>1
  <2>2. end - 1 = WordBits * (Word(end) - 1) + (WordBits - 1)
    BY <1>1, <1>2, <2>1
  <2>3. WordBits - 1 \in 0 .. WordBits - 1 /\ Word(end) - 1 \in Int
    BY <1>1
  <2>4. (end - 1) \div WordBits = Word(end) - 1 /\ (end - 1) % WordBits = WordBits - 1
    BY <1>1, <2>2, <2>3, DivModUnique
  <2> QED
    BY <1>2, <2>4 DEF Word, Bit
<1>3. CASE Bit(end) # 0
  <2>1. end - 1 = WordBits * Word(end) + (Bit(end) - 1) /\ Bit(end) - 1 \in 0 .. WordBits - 1
    BY <1>1, <1>3
  <2>2. (end - 1) \div WordBits = Word(end) /\ (end - 1) % WordBits = Bit(end) - 1
    BY <1>1, <2>1, DivModUnique
  <2> QED
    BY <1>3, <2>2 DEF Word, Bit
<1> QED
  BY <1>2, <1>3

\* The masks clear exactly the range.
LEMMA ClearRange ==
    ASSUME NEW seen \in SUBSET Nat, NEW start \in Nat, NEW end \in Nat, start <= end
    PROVE  clear_range(seen, start, end) = {i \in seen : ~(start <= i /\ i < end)}
<1>1. CASE start = end
  BY <1>1 DEF clear_range
<1>2. CASE start # end
  <2> DEFINE first == Word(start)
             last == Word(end - 1)
             lastBit == Bit(end - 1)
             first_mask == {b \in 0 .. WordBits - 1 : b >= Bit(start)}
             last_mask == IF Bit(end) = 0 THEN 0 .. WordBits - 1 ELSE 0 .. Bit(end) - 1
  <2>0. end \in Nat \ {0} /\ end - 1 \in Nat /\ start <= end - 1
    BY <1>2
  <2>1. last_mask = 0 .. lastBit
    <3>1. WordBits \in Nat \ {0} /\ Bit(end) \in 0 .. WordBits - 1
      BY WordFields
    <3> QED
      BY <2>0, <3>1, BitBelow
  <2>2. /\ first \in Nat /\ last \in Nat /\ Bit(start) \in Nat /\ lastBit \in Nat
        /\ first < last \/ (first = last /\ Bit(start) <= lastBit)
    <3>1. /\ first \in Nat /\ last \in Nat /\ Bit(start) \in Nat /\ lastBit \in Nat
      BY <2>0, WordFields
    <3>2. ~(end - 1 < start)
      BY <2>0
    <3>3. ~(Word(end - 1) < Word(start) \/ (Word(end - 1) = Word(start) /\ Bit(end - 1) < Bit(start)))
      BY <2>0, <3>2, WordOrder
    <3> QED
      BY <3>1, <3>3
  <2>3. ASSUME NEW i \in seen
        PROVE  /\ Word(i) \in Nat /\ Bit(i) \in 0 .. WordBits - 1
               /\ start <= i <=> first < Word(i) \/ (first = Word(i) /\ Bit(start) <= Bit(i))
               /\ i < end <=> Word(i) < last \/ (Word(i) = last /\ Bit(i) <= lastBit)
    <3>1. i \in Nat /\ Word(i) \in Nat /\ Bit(i) \in 0 .. WordBits - 1 /\ WordBits \in Nat
      BY WordFields
    <3>2. start <= i <=> first < Word(i) \/ (first = Word(i) /\ Bit(start) <= Bit(i))
      <4>1. i < start <=> Word(i) < Word(start) \/ (Word(i) = Word(start) /\ Bit(i) < Bit(start))
        BY <3>1, WordOrder
      <4> QED
        BY <2>2, <3>1, <4>1
    <3>3. i < end <=> Word(i) < last \/ (Word(i) = last /\ Bit(i) <= lastBit)
      <4>1. end - 1 < i <=> Word(end - 1) < Word(i) \/ (Word(end - 1) = Word(i) /\ Bit(end - 1) < Bit(i))
        BY <2>0, <3>1, WordOrder
      <4> QED
        BY <2>0, <2>2, <3>1, <4>1
    <3> QED
      BY <3>1, <3>2, <3>3
  <2> HIDE DEF first, last, lastBit
  <2>4. ASSUME NEW i \in seen
        PROVE  /\ Bit(i) \in first_mask <=> Bit(start) <= Bit(i)
               /\ Bit(i) \in last_mask <=> Bit(i) <= lastBit
    <3>1. Bit(i) \in Nat /\ Bit(i) \in 0 .. WordBits - 1
      BY WordFields
    <3>2. Bit(i) \in first_mask <=> Bit(start) <= Bit(i)
      BY <2>2, <3>1
    <3> HIDE DEF last_mask
    <3>3. Bit(i) \in last_mask <=> Bit(i) <= lastBit
      BY <2>1, <2>2, <3>1
    <3> QED
      BY <3>2, <3>3
  <2> HIDE DEF first_mask, last_mask
  <2>5. CASE first = last
    <3>1. clear_range(seen, start, end) =
             {i \in seen : ~ (Word(i) = first /\ Bit(i) \in first_mask \cap last_mask)}
      BY <1>2, <2>5 DEF clear_range, first, last, first_mask, last_mask
    <3>2. \A i \in seen : (Word(i) = first /\ Bit(i) \in first_mask \cap last_mask)
                             <=> (start <= i /\ i < end)
      BY <2>2, <2>3, <2>4, <2>5
    <3> QED
      BY <3>1, <3>2
  <2>6. CASE first # last
    <3>1. clear_range(seen, start, end) =
             {i \in seen : ~ (\/ Word(i) = first /\ Bit(i) \in first_mask
                              \/ Word(i) \in first + 1 .. last - 1
                              \/ Word(i) = last /\ Bit(i) \in last_mask)}
      BY <1>2, <2>6 DEF clear_range, first, last, first_mask, last_mask
    <3>2. ASSUME NEW i \in seen
          PROVE  (\/ Word(i) = first /\ Bit(i) \in first_mask
                  \/ Word(i) \in first + 1 .. last - 1
                  \/ Word(i) = last /\ Bit(i) \in last_mask) <=> (start <= i /\ i < end)
      BY <2>2, <2>3, <2>4, <2>6
    <3> QED
      BY <3>1, <3>2
  <2> QED
    BY <2>5, <2>6
<1> QED
  BY <1>1, <1>2

-----------------------------------------------------------------------------
(* The window.                                                               *)

LEMMA WindowFacts == /\ Window \in Nat \ {0} /\ MaxSeq \in Nat /\ MaxSeq > Window
  BY TrackerConstants DEF TrackerConstants

\* d steps on, the position is d further, around the end of the bitmap.
LEMMA IndexAfter ==
    ASSUME NEW s \in Nat, NEW d \in 0 .. Window - 1
    PROVE  /\ Index(s) \in Positions
           /\ Index(s + d) = IF Index(s) + d < Window THEN Index(s) + d
                             ELSE Index(s) + d - Window
<1>1. Window \in Nat \ {0}
  BY WindowFacts
<1> DEFINE q == s \div Window
           r == s % Window
<1>2. q \in Nat /\ r \in 0 .. Window - 1 /\ s = Window * q + r /\ Window * q \in Nat
  <2>1. q \in Nat /\ r \in 0 .. Window - 1 /\ s = Window * q + r
    BY <1>1, DivMod
  <2> HIDE DEF q, r
  <2> QED
    BY <1>1, <2>1
<1>3. Window * (q + 1) = Window * q + Window
  BY <1>1, <1>2
<1> HIDE DEF q, r
<1>4. CASE r + d < Window
  <2>1. s + d = Window * q + (r + d) /\ r + d \in 0 .. Window - 1 /\ s + d \in Nat /\ q \in Int
    BY <1>1, <1>2, <1>4
  <2>2. (s + d) % Window = r + d
    BY <1>1, <2>1, DivModUnique
  <2> QED
    BY <1>2, <1>4, <2>2 DEF Index, Positions, r
<1>5. CASE ~(r + d < Window)
  <2>1. /\ s + d = Window * (q + 1) + (r + d - Window)
        /\ r + d - Window \in 0 .. Window - 1 /\ s + d \in Nat /\ q + 1 \in Int
    BY <1>1, <1>2, <1>3, <1>5
  <2>2. (s + d) % Window = r + d - Window
    BY <1>1, <2>1, DivModUnique
  <2> QED
    BY <1>2, <1>5, <2>2 DEF Index, Positions, r
<1> QED
  BY <1>4, <1>5

\* Within a window, positions tell sequences apart.
LEMMA IndexSame ==
    ASSUME NEW s \in Nat, NEW u \in Nat, s <= u, u - s < Window, Index(s) = Index(u)
    PROVE  s = u
<1> DEFINE d == u - s
<1>1. d \in 0 .. Window - 1 /\ u = s + d /\ Window \in Nat \ {0}
  BY WindowFacts
<1> HIDE DEF d
<1>2. /\ Index(s) \in 0 .. Window - 1
      /\ Index(s + d) = IF Index(s) + d < Window THEN Index(s) + d ELSE Index(s) + d - Window
  BY <1>1, IndexAfter DEF Positions
<1>3. d = 0
  BY <1>1, <1>2
<1> QED
  BY <1>1, <1>3

\* The window moves: what it held of the new window is kept, and the
\* positions of the sequences that enter it are cleared.
LEMMA AdvanceWindow ==
    ASSUME NEW seen \in SUBSET Positions, NEW previous \in Nat, NEW next \in Nat,
           previous < next
    PROVE  LET R == advance_window(seen, previous, next)
           IN  /\ R \subseteq seen
               /\ \A s \in 0 .. previous : next - s < Window /\ Index(s) \in seen => Index(s) \in R
               /\ \A s \in previous + 1 .. next : next - s < Window => Index(s) \notin R
<1> DEFINE distance == next - previous
           start == Index(previous + 1)
           end == start + distance
           R == advance_window(seen, previous, next)
<1>0. /\ Window \in Nat \ {0} /\ distance \in Nat \ {0} /\ previous + 1 \in Nat
      /\ next = previous + distance
  BY WindowFacts
<1>1. start \in 0 .. Window - 1 /\ end \in Nat
  <2>1. 0 \in 0 .. Window - 1
    BY <1>0
  <2>2. start \in 0 .. Window - 1
    BY <1>0, <2>1, IndexAfter DEF Positions
  <2> QED
    BY <1>0, <2>2
<1>2. CASE distance >= Window
  <2>1. R = {}
    BY <1>0, <1>1, <1>2 DEF advance_window
  <2> HIDE DEF R
  <2>2. \A s \in 0 .. previous : ~(next - s < Window)
    BY <1>0, <1>2
  <2> QED
    BY <2>1, <2>2 DEF R
<1>3. CASE distance < Window
  \* A position is cleared if it is in the range, or in the part that wraps.
  <2>1. R = {i \in seen : ~(\/ start <= i /\ i < end
                            \/ end > Window /\ i < end - Window)}
    <3>1. \A i \in seen : i \in Nat /\ i < Window
      BY <1>0 DEF Positions
    <3>2. CASE end <= Window
      <4>1. R = clear_range(seen, start, end)
        BY <1>0, <1>1, <1>3, <3>2 DEF advance_window
      <4>2. seen \in SUBSET Nat /\ start \in Nat /\ start <= end
        BY <1>0, <1>1, <3>1
      <4>3. R = {i \in seen : ~(start <= i /\ i < end)}
        BY <1>1, <4>1, <4>2, ClearRange
      <4> QED
        BY <1>0, <1>1, <3>2, <4>3
    <3>3. CASE ~(end <= Window)
      <4> DEFINE tail == clear_range(seen, start, Window)
      <4>1. R = clear_range(tail, 0, end - Window)
        BY <1>0, <1>1, <1>3, <3>3 DEF advance_window
      <4>2. seen \in SUBSET Nat /\ start \in Nat /\ start <= Window /\ Window \in Nat
        BY <1>0, <1>1, <3>1
      <4>3. tail = {i \in seen : ~(start <= i /\ i < Window)}
        BY <4>2, ClearRange
      <4> HIDE DEF tail
      <4>4. tail \in SUBSET Nat /\ end - Window \in Nat /\ 0 <= end - Window
        BY <1>0, <1>1, <3>1, <3>3, <4>3
      <4>5. R = {i \in tail : ~(0 <= i /\ i < end - Window)}
        BY <4>1, <4>4, ClearRange
      <4> HIDE DEF R, start
      <4>6. \A i \in seen : /\ (start <= i /\ i < Window) <=> (start <= i /\ i < end)
                            /\ (0 <= i /\ i < end - Window) <=> (end > Window /\ i < end - Window)
        BY <1>0, <1>1, <3>1, <3>3
      <4> QED
        BY <4>3, <4>5, <4>6
    <3> QED
      BY <3>2, <3>3
  <2> HIDE DEF R
  <2>2. R \subseteq seen
    BY <2>1
  <2>3. ASSUME NEW s \in 0 .. previous, next - s < Window, Index(s) \in seen
        PROVE  Index(s) \in R
    <3> DEFINE j == previous + 1 - s
    <3>1. /\ j \in 1 .. Window - distance /\ j \in 0 .. Window - 1 /\ previous + 1 = s + j
          /\ s \in Nat
      BY <1>0, <1>3, <2>3
    <3> HIDE DEF j
    <3>2. /\ Index(s) \in 0 .. Window - 1
          /\ start = IF Index(s) + j < Window THEN Index(s) + j ELSE Index(s) + j - Window
      BY <3>1, IndexAfter DEF Positions
    <3> HIDE DEF start
    <3>3. ~(start <= Index(s) /\ Index(s) < end) /\ ~(end > Window /\ Index(s) < end - Window)
      BY <1>0, <1>1, <3>1, <3>2
    <3> QED
      BY <2>1, <2>3, <3>3
  <2>4. ASSUME NEW s \in previous + 1 .. next
        PROVE  Index(s) \notin R
    <3> DEFINE k == s - (previous + 1)
    <3>1. k \in 0 .. distance - 1 /\ k \in 0 .. Window - 1 /\ s = (previous + 1) + k
      BY <1>0, <1>3
    <3> HIDE DEF k
    <3>2. Index(s) = IF start + k < Window THEN start + k ELSE start + k - Window
      BY <1>0, <3>1, IndexAfter
    <3> HIDE DEF start
    <3>3. (start <= Index(s) /\ Index(s) < end) \/ (end > Window /\ Index(s) < end - Window)
      BY <1>0, <1>1, <3>1, <3>2
    <3> QED
      BY <2>1, <3>3
  <2> QED
    BY <2>2, <2>3, <2>4 DEF R
<1> QED
  BY <1>0, <1>2, <1>3

-----------------------------------------------------------------------------
(* The tracker.                                                              *)

\* The tracker t agrees with the set C of the sequences that count.
Exact(t, C) ==
    /\ t \in Trackers /\ C \subseteq 0 .. MaxSeq
    /\ C = {} => t.highest_seen = None /\ t.seen = {}
    /\ C # {} => t.highest_seen \in C /\ \A s \in C : s <= t.highest_seen
    /\ t.received = Cardinality(C)
    /\ t.received + t.lost = t.highest_seen + 1
    /\ \A s \in 0 .. t.highest_seen :
          t.highest_seen - s < Window => (Index(s) \in t.seen <=> s \in C)

LEMMA TrackerFields ==
    ASSUME NEW t \in Trackers
    PROVE  /\ t.received \in Nat /\ t.lost \in 0 .. MaxSeq /\ t.out_of_order \in 0 .. MaxSeq
           /\ t.highest_seen \in None .. MaxSeq /\ t.unconfirmed_jump \in None .. MaxSeq
           /\ t.seen \subseteq Positions /\ MaxSeq \in Nat /\ None \in Int /\ None = -1
           /\ t.lost \in Nat /\ t.highest_seen \in Int /\ t.highest_seen >= -1
           /\ t.highest_seen <= MaxSeq
  BY WindowFacts DEF Trackers, None

LEMMA FiniteSequences ==
    ASSUME NEW C \in SUBSET (0 .. MaxSeq)
    PROVE  IsFiniteSet(C) /\ Cardinality(C) \in Nat
<1>1. MaxSeq \in Int /\ 0 \in Int
  BY WindowFacts
<1>2. IsFiniteSet(0 .. MaxSeq)
  BY <1>1, FS_Interval
<1>3. IsFiniteSet(C)
  BY <1>2, FS_Subset
<1> QED
  BY <1>3, FS_CardinalityType

LEMMA HighestIs ==
    ASSUME NEW t, NEW C, Exact(t, C)
    PROVE  Highest(C) = t.highest_seen
<1>1. C \subseteq Int
  BY WindowFacts DEF Exact
<1>2. CASE C = {}
  BY <1>2 DEF Exact, Highest
<1>3. CASE C # {}
  <2> DEFINE IsTop(h) == h \in C /\ \A s \in C : s <= h
  <2>1. IsTop(t.highest_seen)
    BY <1>3 DEF Exact
  <2>2. \A g, h : IsTop(g) /\ IsTop(h) => g = h
    BY <1>1
  <2>3. Highest(C) = CHOOSE h : IsTop(h)
    BY <1>3 DEF Highest
  <2>4. IsTop(CHOOSE h : IsTop(h))
    BY <2>1
  <2> HIDE DEF IsTop
  <2> QED
    BY <2>1, <2>2, <2>3, <2>4
<1> QED
  BY <1>2, <1>3

\* Counting a sequence: one more received, one more bit.
LEMMA CountedFields ==
    ASSUME NEW u \in Trackers, NEW x \in Nat, u.received < MaxSeq
    PROVE  LET v == Counted(u, x)
           IN  /\ v \in Trackers /\ v.received = u.received + 1 /\ v.lost = u.lost
               /\ v.highest_seen = u.highest_seen /\ v.unconfirmed_jump = u.unconfirmed_jump
               /\ v.seen = u.seen \cup {Index(x)}
<1>1. /\ u.received \in Nat /\ u.received + 1 \in 0 .. MaxSeq + 1 /\ MaxSeq \in Nat
      /\ SaturatingAdd(u.received, 1) = u.received + 1
  BY TrackerFields DEF SaturatingAdd
<1>2. Index(x) \in Positions
  <2>1. 0 \in 0 .. Window - 1
    BY WindowFacts
  <2> QED
    BY <2>1, IndexAfter
<1>3. u.seen \cup {Index(x)} \in SUBSET Positions
  BY <1>2, TrackerFields
<1>4. Counted(u, x) = [u EXCEPT !.seen = u.seen \cup {Index(x)}, !.received = u.received + 1]
  BY <1>1 DEF Counted, Trackers
<1> QED
  BY <1>1, <1>3, <1>4 DEF Trackers

\* What record_tracked() must leave: it agrees with the set the reference
\* gives, the high-water mark never falls, and below it loss never grows.
Records(t, C, x, v) ==
    /\ Exact(v, WithDatagram(C, x))
    /\ v.unconfirmed_jump = t.unconfirmed_jump
    /\ v.received >= t.received /\ v.highest_seen >= t.highest_seen
    /\ v.highest_seen \in {t.highest_seen, x}
    /\ x < t.highest_seen => v.lost <= t.lost /\ v.highest_seen = t.highest_seen

\* The first datagram.
LEMMA RecordFirst ==
    ASSUME NEW t, NEW C, Exact(t, C), NEW x \in 0 .. MaxSeq, t.highest_seen = None
    PROVE  LET v == Counted([t EXCEPT !.lost = x, !.highest_seen = x], x)
           IN  Records(t, C, x, v)
<1> DEFINE u == [t EXCEPT !.lost = x, !.highest_seen = x]
           v == Counted(u, x)
<1>0. /\ t \in Trackers /\ MaxSeq \in Nat /\ Window \in Nat \ {0} /\ MaxSeq > Window /\ x \in Nat
      /\ None = -1
  BY WindowFacts DEF Exact, None
<1>1. C = {} /\ t.seen = {} /\ t.received = 0
  <2>1. C = {}
    BY <1>0 DEF Exact
  <2> QED
    BY <2>1, FS_EmptySet DEF Exact
<1>2. /\ u \in Trackers /\ u.lost = x /\ u.highest_seen = x /\ u.received = 0
      /\ u.unconfirmed_jump = t.unconfirmed_jump /\ u.seen = {}
  <2>1. x \in 0 .. MaxSeq /\ x \in None .. MaxSeq
    BY <1>0
  <2> QED
    BY <1>0, <1>1, <2>1 DEF Trackers
<1> HIDE DEF u
<1>3. /\ v \in Trackers /\ v.received = 1 /\ v.lost = x /\ v.highest_seen = x
      /\ v.unconfirmed_jump = t.unconfirmed_jump /\ v.seen = {Index(x)}
  <2>1. u.received < MaxSeq
    BY <1>0, <1>2
  <2> QED
    BY <1>0, <1>2, <2>1, CountedFields
<1> HIDE DEF v
<1>4. WithDatagram(C, x) = {x} /\ Cardinality({x}) = 1
  <2>1. Highest(C) = -1
    BY <1>0, <1>1 DEF Highest
  <2>2. ~(Highest(C) - x >= Window)
    BY <1>0, <2>1
  <2>3. WithDatagram(C, x) = {x}
    BY <1>1, <2>2 DEF WithDatagram
  <2>4. Cardinality({x}) = 1
    BY FS_Singleton
  <2> QED
    BY <2>3, <2>4
<1>5. \A s \in 0 .. x : x - s < Window => (Index(s) \in {Index(x)} <=> s \in {x})
  BY <1>0, IndexSame
<1>6. Exact(v, {x})
  BY <1>0, <1>3, <1>4, <1>5 DEF Exact
<1> QED
  BY <1>0, <1>1, <1>3, <1>4, <1>6 DEF Records, u, v

\* A datagram above the high-water mark.
LEMMA RecordAhead ==
    ASSUME NEW t, NEW C, Exact(t, C), NEW x \in 0 .. MaxSeq, t.highest_seen # None,
           x > t.highest_seen, Cardinality(C \cup {x}) <= MaxSeq
    PROVE  LET v == Counted([t EXCEPT
                                !.seen = advance_window(@, t.highest_seen, x),
                                !.lost = SaturatingAdd(@, x - t.highest_seen - 1),
                                !.highest_seen = x], x)
           IN  Records(t, C, x, v)
<1> DEFINE h == t.highest_seen
           R == advance_window(t.seen, h, x)
           u == [t EXCEPT !.seen = advance_window(@, h, x),
                          !.lost = SaturatingAdd(@, x - h - 1), !.highest_seen = x]
           v == Counted(u, x)
<1>0. /\ t \in Trackers /\ MaxSeq \in Nat /\ Window \in Nat \ {0} /\ x \in Nat /\ h \in Nat
      /\ t.received \in Nat /\ t.lost \in Nat /\ t.received + t.lost = h + 1 /\ x <= MaxSeq
      /\ t.seen \in SUBSET Positions
  BY TrackerFields, WindowFacts DEF Exact, None
<1>1. /\ h \in C /\ (\A s \in C : s <= h) /\ x \notin C
      /\ t.received = Cardinality(C) /\ t.received + 1 = Cardinality(C \cup {x})
  <2>1. C # {}
    BY DEF Exact
  <2>2. h \in C /\ (\A s \in C : s <= h) /\ t.received = Cardinality(C)
    BY <2>1 DEF Exact
  <2>3. x \notin C
    BY <1>0, <2>2
  <2>4. IsFiniteSet(C)
    BY FiniteSequences DEF Exact
  <2> QED
    BY <2>2, <2>3, <2>4, FS_AddElement
<1>2. /\ R \subseteq t.seen
      /\ \A s \in 0 .. h : x - s < Window /\ Index(s) \in t.seen => Index(s) \in R
      /\ \A s \in h + 1 .. x : x - s < Window => Index(s) \notin R
  BY <1>0, AdvanceWindow
<1> HIDE DEF R
<1>3. /\ u \in Trackers /\ u.lost = t.lost + (x - h - 1) /\ u.highest_seen = x
      /\ u.received = t.received /\ u.unconfirmed_jump = t.unconfirmed_jump /\ u.seen = R
  <2>1. /\ SaturatingAdd(t.lost, x - h - 1) = t.lost + (x - h - 1)
        /\ t.lost + (x - h - 1) \in 0 .. MaxSeq
    BY <1>0 DEF SaturatingAdd
  <2>2. x \in None .. MaxSeq /\ R \in SUBSET Positions
    BY <1>0, <1>2 DEF None
  <2>3. u = [t EXCEPT !.seen = R, !.lost = t.lost + (x - h - 1), !.highest_seen = x]
    BY <1>0, <2>1 DEF Trackers, R
  <2> HIDE DEF u
  <2> QED
    BY <1>0, <2>1, <2>2, <2>3 DEF Trackers
<1> HIDE DEF u
<1>4. /\ v \in Trackers /\ v.received = t.received + 1 /\ v.lost = t.lost + (x - h - 1)
      /\ v.highest_seen = x /\ v.unconfirmed_jump = t.unconfirmed_jump
      /\ v.seen = R \cup {Index(x)}
  <2>1. u.received < MaxSeq
    BY <1>0, <1>1, <1>3
  <2> QED
    BY <1>0, <1>3, <2>1, CountedFields
<1> HIDE DEF v
<1>5. WithDatagram(C, x) = C \cup {x}
  <2>1. Highest(C) = h
    BY HighestIs
  <2> QED
    BY <1>0, <2>1 DEF WithDatagram
<1>6. ASSUME NEW s \in 0 .. x, x - s < Window
      PROVE  Index(s) \in v.seen <=> s \in C \cup {x}
  <2>1. CASE s = x
    BY <1>4, <2>1
  <2>2. CASE s # x
    <3>1. Index(s) # Index(x)
      BY <1>0, <1>6, <2>2, IndexSame
    <3>2. CASE s <= h
      <4>1. s \in 0 .. h /\ h - s < Window
        BY <1>0, <1>6, <3>2
      <4>2. Index(s) \in t.seen <=> s \in C
        BY <4>1 DEF Exact
      <4> QED
        BY <1>2, <1>4, <1>6, <2>2, <3>1, <4>1, <4>2
    <3>3. CASE ~(s <= h)
      <4>1. s \in h + 1 .. x /\ s \notin C
        BY <1>0, <1>1, <3>3
      <4> QED
        BY <1>2, <1>4, <1>6, <2>2, <3>1, <4>1
    <3> QED
      BY <3>2, <3>3
  <2> QED
    BY <2>1, <2>2
<1>7. Exact(v, C \cup {x})
  <2>1. C \cup {x} \subseteq 0 .. MaxSeq /\ \A s \in C \cup {x} : s <= x
    <3>1. C \subseteq 0 .. MaxSeq
      BY DEF Exact
    <3>2. \A s \in C : s \in Int /\ s <= h
      BY <1>0, <1>1, <3>1
    <3>3. h < x
      BY <1>0
    <3>4. \A s \in C : s <= x
      BY <1>0, <3>2, <3>3
    <3>5. x <= x
      BY <1>0
    <3> QED
      BY <3>1, <3>4, <3>5
  <2>2. v.received + v.lost = x + 1
    BY <1>0, <1>4
  <2> QED
    BY <1>1, <1>4, <1>6, <2>1, <2>2 DEF Exact
<1>8. v.received >= t.received /\ v.highest_seen >= h /\ ~(x < h)
  BY <1>0, <1>4
<1> QED
  BY <1>4, <1>5, <1>7, <1>8 DEF Records, u, v

\* A duplicate, or one a window or more behind.
LEMMA RecordIgnored ==
    ASSUME NEW t, NEW C, Exact(t, C), NEW x \in 0 .. MaxSeq, t.highest_seen # None,
           Ignored(t, x)
    PROVE  Records(t, C, x, t)
<1> DEFINE h == t.highest_seen
<1>0. /\ t \in Trackers /\ Window \in Nat \ {0} /\ x \in Nat /\ h \in Nat /\ t.received \in Nat
      /\ t.lost \in Nat /\ x <= h
  BY TrackerFields, WindowFacts DEF Exact, None, Ignored
<1>1. Highest(C) = h
  BY HighestIs
<1>2. WithDatagram(C, x) = C
  <2>1. CASE h - x >= Window
    BY <1>1, <2>1 DEF WithDatagram
  <2>2. CASE ~(h - x >= Window)
    <3>1. x \in 0 .. h /\ h - x < Window
      BY <1>0, <2>2
    <3>2. Index(x) \in t.seen
      BY <2>2 DEF Ignored
    <3>3. x \in C
      BY <3>1, <3>2 DEF Exact
    <3> QED
      BY <3>3 DEF WithDatagram
  <2> QED
    BY <2>1, <2>2
<1>3. t.received >= t.received /\ h >= h /\ t.lost <= t.lost
  BY <1>0
<1> QED
  BY <1>2, <1>3 DEF Records

\* A late datagram fills a gap.
LEMMA RecordGap ==
    ASSUME NEW t, NEW C, Exact(t, C), NEW x \in 0 .. MaxSeq, t.highest_seen # None,
           ~(x > t.highest_seen), ~Ignored(t, x), Cardinality(C \cup {x}) <= MaxSeq
    PROVE  LET v == Counted([t EXCEPT !.lost = SaturatingSub(@, 1),
                                      !.out_of_order = SaturatingAdd(@, 1)], x)
           IN  Records(t, C, x, v)
<1> DEFINE h == t.highest_seen
           u == [t EXCEPT !.lost = SaturatingSub(@, 1), !.out_of_order = SaturatingAdd(@, 1)]
           v == Counted(u, x)
<1>0. /\ t \in Trackers /\ MaxSeq \in Nat /\ Window \in Nat \ {0} /\ x \in Nat /\ h \in Nat
      /\ t.received \in Nat /\ t.lost \in 0 .. MaxSeq /\ t.received + t.lost = h + 1
      /\ x <= MaxSeq /\ x <= h /\ t.seen \in SUBSET Positions /\ t.out_of_order \in 0 .. MaxSeq
  BY TrackerFields, WindowFacts DEF Exact, None
<1>1. h - x < Window /\ Index(x) \notin t.seen
  BY <1>0 DEF Ignored
<1>2. /\ h \in C /\ (\A s \in C : s <= h) /\ C \subseteq 0 .. MaxSeq
      /\ t.received = Cardinality(C)
  <2>1. C # {}
    BY DEF Exact
  <2> QED
    BY <2>1 DEF Exact
<1>3. x \notin C
  <2>1. x \in 0 .. h
    BY <1>0
  <2> QED
    BY <1>1, <2>1 DEF Exact
<1>4. t.received + 1 = Cardinality(C \cup {x}) /\ t.lost >= 1
  <2>1. IsFiniteSet(C)
    BY FiniteSequences DEF Exact
  <2>2. Cardinality(C \cup {x}) = t.received + 1
    BY <1>2, <1>3, <2>1, FS_AddElement
  <2>3. C \cup {x} \in SUBSET (0 .. h)
    BY <1>0, <1>2
  <2>4. IsFiniteSet(0 .. h) /\ Cardinality(0 .. h) = h + 1
    <3>1. 0 \in Int /\ h \in Int /\ ~(0 > h) /\ h - 0 + 1 = h + 1
      BY <1>0
    <3> QED
      BY <3>1, FS_Interval
  <2>5. Cardinality(C \cup {x}) <= h + 1
    BY <2>3, <2>4, FS_Subset
  <2> QED
    BY <1>0, <2>2, <2>5
<1>5. /\ u \in Trackers /\ u.lost = t.lost - 1 /\ u.highest_seen = h
      /\ u.received = t.received /\ u.unconfirmed_jump = t.unconfirmed_jump /\ u.seen = t.seen
  <2>1. SaturatingSub(t.lost, 1) = t.lost - 1 /\ t.lost - 1 \in 0 .. MaxSeq
    BY <1>0, <1>4 DEF SaturatingSub
  <2>2. SaturatingAdd(t.out_of_order, 1) \in 0 .. MaxSeq
    BY <1>0 DEF SaturatingAdd
  <2> DEFINE o == SaturatingAdd(t.out_of_order, 1)
  <2>3. u = [t EXCEPT !.lost = t.lost - 1, !.out_of_order = o]
    BY <1>0, <2>1 DEF Trackers
  <2> HIDE DEF u, o
  <2> QED
    BY <1>0, <2>1, <2>2, <2>3 DEF Trackers, o
<1> HIDE DEF u
<1>6. /\ v \in Trackers /\ v.received = t.received + 1 /\ v.lost = t.lost - 1
      /\ v.highest_seen = h /\ v.unconfirmed_jump = t.unconfirmed_jump
      /\ v.seen = t.seen \cup {Index(x)}
  <2>1. u.received < MaxSeq
    BY <1>0, <1>4, <1>5
  <2> QED
    BY <1>0, <1>5, <2>1, CountedFields
<1> HIDE DEF v
<1>7. WithDatagram(C, x) = C \cup {x}
  <2>1. Highest(C) = h
    BY HighestIs
  <2> QED
    BY <1>0, <1>1, <2>1 DEF WithDatagram
<1>8. ASSUME NEW s \in 0 .. h, h - s < Window
      PROVE  Index(s) \in v.seen <=> s \in C \cup {x}
  <2>1. Index(s) \in t.seen <=> s \in C
    BY <1>8 DEF Exact
  <2>2. Index(s) = Index(x) => s = x
    <3>1. s \in Nat /\ (s <= x => x - s < Window) /\ (~(s <= x) => x <= s /\ s - x < Window)
      BY <1>0, <1>1, <1>8
    <3> QED
      BY <1>0, <3>1, IndexSame
  <2> QED
    BY <1>6, <2>1, <2>2
<1>9. Exact(v, C \cup {x})
  <2>1. C \cup {x} \subseteq 0 .. MaxSeq /\ \A s \in C \cup {x} : s <= h
    BY <1>0, <1>2
  <2>2. v.received + v.lost = h + 1
    BY <1>0, <1>6
  <2> QED
    BY <1>2, <1>4, <1>6, <1>8, <2>1, <2>2 DEF Exact
<1>10. v.received >= t.received /\ v.highest_seen >= h /\ v.lost <= t.lost
  BY <1>0, <1>6
<1> QED
  BY <1>6, <1>7, <1>9, <1>10 DEF Records, u, v

\* record_tracked() keeps the tracker exact.
LEMMA RecordTracked ==
    ASSUME NEW t, NEW C, Exact(t, C), NEW x \in 0 .. MaxSeq, Cardinality(C \cup {x}) <= MaxSeq
    PROVE  Records(t, C, x, record_tracked(t, x).tracker)
<1>1. CASE t.highest_seen = None
  BY <1>1, RecordFirst DEF record_tracked
<1>2. CASE t.highest_seen # None /\ x > t.highest_seen
  <2> DEFINE v == Counted([t EXCEPT !.seen = advance_window(@, t.highest_seen, x),
                                    !.lost = SaturatingAdd(@, x - t.highest_seen - 1),
                                    !.highest_seen = x], x)
  <2>1. ~Ignored(t, x)
    BY <1>2, TrackerFields DEF Ignored, Exact
  <2>2. record_tracked(t, x).tracker = v
    BY <1>2, <2>1 DEF record_tracked
  <2>3. Records(t, C, x, v)
    BY <1>2, RecordAhead
  <2> QED
    BY <2>2, <2>3
<1>3. CASE t.highest_seen # None /\ Ignored(t, x)
  <2>1. ~(x > t.highest_seen)
    BY <1>3, TrackerFields DEF Ignored, Exact
  <2>2. record_tracked(t, x).tracker = t
    BY <1>3, <2>1 DEF record_tracked
  <2> QED
    BY <1>3, <2>2, RecordIgnored
<1>4. CASE t.highest_seen # None /\ ~(x > t.highest_seen) /\ ~Ignored(t, x)
  BY <1>4, RecordGap DEF record_tracked
<1> QED
  BY <1>1, <1>2, <1>3, <1>4

-----------------------------------------------------------------------------
(* The reference.                                                            *)

\* Every number that can arrive.
Numbers == Sent \cup Strays

RefRecords == [counted : SUBSET Numbers, held : Numbers \cup {None}]

\* What RefArrives makes of the reference r.
Far(r, x) == x - Highest(r.counted) > Window

Near(r, x) == r.held # None /\ AbsDiff(r.held, x) < Window

RefAfter(r, x) ==
    CASE ~Far(r, x) -> [r EXCEPT !.counted = WithDatagram(@, x)]
      [] Far(r, x) /\ Near(r, x) ->
           [counted |-> WithDatagram(WithDatagram(r.counted, r.held), x), held |-> None]
      [] OTHER -> [r EXCEPT !.held = x]

\* There are fewer numbers than the counters can count.
LEMMA FewNumbers ==
    /\ Numbers \subseteq 0 .. MaxSeq /\ MaxSeq \in Nat /\ None = -1
    /\ \A C \in SUBSET Numbers : IsFiniteSet(C) /\ Cardinality(C) \in Nat /\ Cardinality(C) <= MaxSeq
<1>1. MaxSeq \in Nat /\ MaxSent \in Nat /\ Strays \subseteq 0 .. MaxSeq
      /\ MaxSent + Cardinality(Strays) <= MaxSeq /\ 0 \in Int /\ MaxSent - 1 \in Int
  BY WindowFacts, UdpReceiveAssumption DEF UdpReceiveAssumption
<1>2. IsFiniteSet(Strays) /\ Cardinality(Strays) \in Nat
  BY <1>1, FiniteSequences
<1>3. IsFiniteSet(Sent) /\ Cardinality(Sent) = MaxSent
  <2>1. Cardinality(Sent) = IF 0 > MaxSent - 1 THEN 0 ELSE MaxSent - 1 - 0 + 1
    BY <1>1, FS_Interval DEF Sent
  <2>2. IsFiniteSet(Sent)
    BY <1>1, FS_Interval DEF Sent
  <2> QED
    BY <1>1, <2>1, <2>2
<1>4. IsFiniteSet(Numbers) /\ Cardinality(Numbers) <= MaxSeq /\ Cardinality(Numbers) \in Nat
  <2>1. /\ IsFiniteSet(Numbers)
        /\ Cardinality(Numbers) = Cardinality(Sent) + Cardinality(Strays)
                                  - Cardinality(Sent \cap Strays)
    BY <1>2, <1>3, FS_Union DEF Numbers
  <2>2. IsFiniteSet(Sent \cap Strays)
    BY <1>2, FS_Subset
  <2>3. Cardinality(Sent \cap Strays) \in Nat /\ Cardinality(Numbers) \in Nat
    BY <2>1, <2>2, FS_CardinalityType
  <2> QED
    BY <1>1, <1>2, <1>3, <2>1, <2>3
<1>5. Numbers \subseteq 0 .. MaxSeq
  <2>1. 0 .. MaxSent - 1 \subseteq 0 .. MaxSeq
    BY <1>1, <1>2
  <2> QED
    BY <1>1, <2>1 DEF Numbers, Sent
<1>6. ASSUME NEW C \in SUBSET Numbers
      PROVE  IsFiniteSet(C) /\ Cardinality(C) \in Nat /\ Cardinality(C) <= MaxSeq
  <2>1. IsFiniteSet(C) /\ Cardinality(C) <= Cardinality(Numbers)
    BY <1>4, FS_Subset
  <2>2. Cardinality(C) \in Nat
    BY <2>1, FS_CardinalityType
  <2> QED
    BY <1>1, <1>4, <2>1, <2>2
<1> QED
  BY <1>1, <1>5, <1>6 DEF None

\* record_tracked() of a number that can arrive.
LEMMA RecordNumber ==
    ASSUME NEW t, NEW C \in SUBSET Numbers, Exact(t, C), NEW x \in Numbers
    PROVE  Records(t, C, x, record_tracked(t, x).tracker) /\ WithDatagram(C, x) \in SUBSET Numbers
<1>1. x \in 0 .. MaxSeq /\ C \cup {x} \in SUBSET Numbers
  BY FewNumbers
<1>2. Cardinality(C \cup {x}) <= MaxSeq
  BY <1>1, FewNumbers
<1>3. WithDatagram(C, x) \in {C, C \cup {x}}
  BY DEF WithDatagram
<1> QED
  BY <1>1, <1>2, <1>3, RecordTracked

\* The code and the reference call the same datagrams far ahead.
LEMMA FarAhead ==
    ASSUME NEW t, NEW C, Exact(t, C), NEW x \in 0 .. MaxSeq
    PROVE  /\ Jump(t, x) > Window <=> x - Highest(C) > Window
           /\ Jump(t, x) <= Window <=> ~(x - Highest(C) > Window)
<1>1. /\ MaxSeq \in Nat /\ Window \in Nat \ {0} /\ MaxSeq > Window /\ x \in Nat /\ x <= MaxSeq
      /\ None = -1 /\ Highest(C) = t.highest_seen /\ t.highest_seen \in Int
      /\ t.highest_seen >= -1
  <2>1. t \in Trackers
    BY DEF Exact
  <2>2. Highest(C) = t.highest_seen
    BY HighestIs
  <2> QED
    BY <2>1, <2>2, WindowFacts, TrackerFields
<1>2. CASE t.highest_seen = None
  <2>1. Jump(t, x) = IF x + 1 > MaxSeq THEN MaxSeq ELSE x + 1
    BY <1>2 DEF Jump, SaturatingAdd
  <2> QED
    BY <1>1, <1>2, <2>1
<1>3. CASE t.highest_seen # None
  <2>1. Jump(t, x) = IF x < t.highest_seen THEN 0 ELSE x - t.highest_seen
    BY <1>3 DEF Jump, SaturatingSub
  <2> QED
    BY <1>1, <1>3, <2>1
<1> QED
  BY <1>2, <1>3

\* What record_unique() must leave: the tracker v and the reference s agree,
\* nothing counted is taken back, a far number that none vouches for does not
\* move the window, and a held one only moves it with a number near it.
Follows(t, r, x, v, s) ==
    /\ s \in RefRecords /\ Exact(v, s.counted) /\ v.unconfirmed_jump = s.held
    /\ s.held \in {r.held, x, None}
    /\ v.received >= t.received /\ v.highest_seen >= t.highest_seen
    /\ v.highest_seen \in {t.highest_seen, x, r.held}
    /\ ~Near(r, x) => v.highest_seen \in {t.highest_seen, x}
    /\ Far(r, x) /\ ~Near(r, x) => v.highest_seen = t.highest_seen

LEMMA RecordUnique ==
    ASSUME NEW t, NEW r \in RefRecords, Exact(t, r.counted), t.unconfirmed_jump = r.held,
           NEW x \in Numbers
    PROVE  Follows(t, r, x, record_unique(t, x).tracker, RefAfter(r, x))
<1> DEFINE C == r.counted
           v == record_unique(t, x).tracker
           s == RefAfter(r, x)
           far == Far(r, x)
           near == Near(r, x)
<1>0. /\ C \in SUBSET Numbers /\ r.held \in Numbers \cup {None} /\ x \in 0 .. MaxSeq
      /\ r = [counted |-> C, held |-> r.held] /\ t \in Trackers
  BY FewNumbers DEF RefRecords, Exact
<1>1. (Jump(t, x) > Window <=> far) /\ (Jump(t, x) <= Window <=> ~far)
  BY <1>0, FarAhead DEF Far
<1>2. Agrees(t, x) <=> near
  BY DEF Agrees, Near
<1> HIDE DEF far, near
<1>3. CASE ~far
  <2>1. v = record_tracked(t, x).tracker
    BY <1>1, <1>3 DEF record_unique
  <2>2. s = [counted |-> WithDatagram(C, x), held |-> r.held]
    <3>1. s = [r EXCEPT !.counted = WithDatagram(C, x)]
      BY <1>3 DEF RefAfter, far, near
    <3> HIDE DEF s, C
    <3> QED
      BY <1>0, <3>1 DEF RefRecords
  <2>3. Records(t, C, x, v) /\ WithDatagram(C, x) \in SUBSET Numbers
    BY <1>0, <2>1, RecordNumber
  <2> HIDE DEF v, s
  <2> QED
    BY <1>0, <1>3, <2>2, <2>3 DEF Records, RefRecords, Follows, far, v, s
<1>4. CASE far /\ near
  <2> DEFINE t0 == [t EXCEPT !.unconfirmed_jump = None]
             t1 == record_tracked(t0, t.unconfirmed_jump).tracker
             D == WithDatagram(C, r.held)
  <2>1. v = record_tracked(t1, x).tracker
    BY <1>1, <1>2, <1>4 DEF record_unique
  <2>2. s = [counted |-> WithDatagram(D, x), held |-> None]
    BY <1>4 DEF RefAfter, far, near
  <2>3. r.held \in Numbers
    BY <1>0, <1>4 DEF near, Near
  <2>4. /\ t0 \in Trackers /\ t0.unconfirmed_jump = None /\ t0.received = t.received
        /\ t0.lost = t.lost /\ t0.highest_seen = t.highest_seen /\ t0.seen = t.seen
    <3>1. None \in None .. MaxSeq
      BY FewNumbers
    <3> QED
      BY <1>0, <3>1 DEF Trackers
  <2> HIDE DEF t0
  <2>5. Exact(t0, C)
    BY <2>4 DEF Exact
  <2>6. Records(t0, C, r.held, t1) /\ D \in SUBSET Numbers
    BY <1>0, <2>3, <2>5, RecordNumber
  <2> HIDE DEF t1, D
  <2>7. Exact(t1, D)
    BY <2>6 DEF Records, D
  <2>8. Records(t1, D, x, v) /\ WithDatagram(D, x) \in SUBSET Numbers
    BY <2>1, <2>6, <2>7, RecordNumber
  <2> HIDE DEF v, s
  <2>9. /\ s \in RefRecords /\ Exact(v, s.counted) /\ v.unconfirmed_jump = s.held
        /\ s.held = None
    BY <2>2, <2>4, <2>6, <2>8 DEF Records, RefRecords
  <2>10. v.received >= t.received /\ v.highest_seen >= t.highest_seen
    <3>1. /\ v.received >= t1.received /\ v.highest_seen >= t1.highest_seen
          /\ t1.received >= t.received /\ t1.highest_seen >= t.highest_seen
      BY <2>4, <2>6, <2>8 DEF Records
    <3>2. /\ v.received \in Nat /\ t1.received \in Nat /\ t.received \in Nat
          /\ v.highest_seen \in Int /\ t1.highest_seen \in Int /\ t.highest_seen \in Int
      <4>1. v \in Trackers /\ t1 \in Trackers
        BY <2>7, <2>9 DEF Exact
      <4> QED
        BY <1>0, <4>1, TrackerFields
    <3> QED
      BY <3>1, <3>2
  <2>11. v.highest_seen \in {t.highest_seen, x} \/ v.highest_seen = r.held
    BY <2>4, <2>6, <2>8 DEF Records
  <2> QED
    BY <1>4, <2>9, <2>10, <2>11 DEF Follows, near, v, s
<1>5. CASE far /\ ~near
  <2>1. v = [t EXCEPT !.unconfirmed_jump = x]
    BY <1>1, <1>2, <1>5 DEF record_unique
  <2>2. s = [r EXCEPT !.held = x]
    BY <1>5 DEF RefAfter, far, near
  <2> HIDE DEF v, s
  <2>3. /\ v \in Trackers /\ v.unconfirmed_jump = x /\ v.received = t.received
        /\ v.lost = t.lost /\ v.highest_seen = t.highest_seen /\ v.seen = t.seen
    <3>1. x \in None .. MaxSeq
      BY <1>0, FewNumbers
    <3> QED
      BY <1>0, <2>1, <3>1 DEF Trackers
  <2>4. s.counted = C /\ s.held = x /\ s \in RefRecords
    BY <1>0, <2>2 DEF RefRecords
  <2>5. Exact(v, C)
    BY <2>3 DEF Exact
  <2>6. v.received >= t.received /\ v.highest_seen >= t.highest_seen
    BY <1>0, <2>3, TrackerFields
  <2> QED
    BY <1>5, <2>3, <2>4, <2>5, <2>6 DEF Follows, v, s
<1> QED
  BY <1>3, <1>4, <1>5

-----------------------------------------------------------------------------
(* The inductive invariant.                                                  *)

Shape ==
    /\ cancel \in BOOLEAN /\ paused \in BOOLEAN /\ open \in BOOLEAN
    /\ pauseVer \in Nat /\ seen_pause \in 0 .. pauseVer
    /\ pause_channel_open \in BOOLEAN
    /\ pc \in {"top", "paused", "select", "drain", "done"}
    /\ idle \in Nat /\ timer \in Nat

\* The tracker is exact and holds what the reference holds.
TrackerInv ==
    /\ ref \in RefRecords
    /\ Exact(packet_tracker, ref.counted)
    /\ packet_tracker.unconfirmed_jump = ref.held

\* What is published is behind the tracker.
ProgressInv ==
    /\ udp_progress \in [received : 0 .. MaxSeq + 1, lost : 0 .. MaxSeq]
    /\ udp_progress.received <= packet_tracker.received
    /\ udp_progress.received + udp_progress.lost
         <= packet_tracker.received + packet_tracker.lost

\* The tracker holds a stray number only when it has come.
StrayInv ==
    /\ strays \subseteq Strays
    /\ ref.held \in Sent \cup {None} \cup (Strays \ strays)
    /\ NeverStranded

UdpInv == Shape /\ TrackerInv /\ ProgressInv /\ StrayInv

LEMMA BoundFacts ==
    /\ MaxSent \in Nat /\ IdleTimeout \in Nat \ {0} /\ MaxToggles \in Nat
    /\ Strays \subseteq 0 .. MaxSeq /\ Window \in Nat \ {0} /\ MaxSeq \in Nat /\ None = -1
    /\ \A s \in Strays : s \in Nat
  BY UdpReceiveAssumption, WindowFacts DEF UdpReceiveAssumption, None

LEMMA InitInv == Init => UdpInv
<1> SUFFICES ASSUME Init PROVE UdpInv
  OBVIOUS
<1>0. /\ 0 \in 0 .. MaxSeq /\ 0 \in 0 .. MaxSeq + 1 /\ None \in None .. MaxSeq /\ None = -1
      /\ None + 1 = 0 /\ 0 + 0 = 0 /\ None < MaxSent /\ 0 <= 0
  BY BoundFacts
<1>1. Shape
  <2>1. /\ pauseVer \in Nat /\ seen_pause \in 0 .. pauseVer /\ idle \in Nat /\ timer \in Nat
    BY BoundFacts DEF Init
  <2>2. cancel \in BOOLEAN /\ paused \in BOOLEAN /\ open \in BOOLEAN /\ pause_channel_open \in BOOLEAN
    BY Zenon DEF Init
  <2>3. pc \in {"top", "paused", "select", "drain", "done"}
    BY DEF Init
  <2> QED
    BY <2>1, <2>2, <2>3 DEF Shape
<1>2. TrackerInv
  <2>1. new \in Trackers
    BY <1>0 DEF new, Trackers
  <2>2. ref \in RefRecords /\ ref.counted = {} /\ ref.held = None
    BY DEF Init, RefRecords
  <2>3. Exact(new, {})
    <3>1. /\ new.received = 0 /\ new.lost = 0 /\ new.highest_seen = None /\ new.seen = {}
      BY DEF new
    <3>2. \A s : ~(s \in 0 .. None)
      BY <1>0
    <3>3. new.received + new.lost = new.highest_seen + 1
      BY <1>0, <3>1
    <3> QED
      BY <2>1, <3>1, <3>2, <3>3, FS_EmptySet DEF Exact
  <2>4. new.unconfirmed_jump = None
    BY DEF new
  <2> QED
    BY <2>2, <2>3, <2>4 DEF TrackerInv, Init
<1>3. ProgressInv
  <2>1. udp_progress = [received |-> 0, lost |-> 0] /\ packet_tracker.received = 0
        /\ packet_tracker.lost = 0
    BY DEF Init, NoProgress, new
  <2> QED
    BY <1>0, <2>1 DEF ProgressInv
<1>4. StrayInv
  BY <1>0 DEF Init, StrayInv, NeverStranded, new
<1> QED
  BY <1>1, <1>2, <1>3, <1>4 DEF UdpInv

LEMMA ShapeStep == Shape /\ [Next]_vars => Shape'
<1> SUFFICES ASSUME Shape, [Next]_vars PROVE Shape'
  OBVIOUS
<1> USE DEF Shape, chanVars, timeVars
<1>1. CASE TogglePause
  BY <1>1 DEF TogglePause
<1>2. CASE RequestCancel
  BY <1>2 DEF RequestCancel
<1>3. CASE DropSenders
  BY <1>3 DEF DropSenders
<1>4. CASE ClockTick
  BY <1>4 DEF ClockTick
<1>5. CASE Top
  BY <1>5 DEF Top
<1>6. CASE Paused
  BY <1>6, BoundFacts DEF Paused
<1>7. ASSUME NEW sequence \in Sent \cup Strays, ReceiveData(sequence) PROVE Shape'
  BY <1>7 DEF ReceiveData
<1>8. CASE ReceiveControl
  BY <1>8 DEF ReceiveControl
<1>9. CASE ReceiveErrorOrFeedback
  BY <1>9 DEF ReceiveErrorOrFeedback
<1>10. CASE CancelBranch
  BY <1>10 DEF CancelBranch
<1>11. CASE PauseBranch
  <2>1. seen_pause' \in 0 .. pauseVer'
    <3>1. seen_pause' = pauseVer \/ seen_pause' = seen_pause
      BY <1>11, Zenon DEF PauseBranch
    <3>2. pauseVer' = pauseVer
      BY <1>11, Zenon DEF PauseBranch
    <3>3. pauseVer \in Nat /\ seen_pause \in 0 .. pauseVer
      OBVIOUS
    <3> QED
      BY ONLY <3>1, <3>2, <3>3
  <2>2. pause_channel_open' \in BOOLEAN
    BY <1>11, Zenon DEF PauseBranch
  <2>3. UNCHANGED <<chanVars, timeVars>> /\ pc' = "top"
    BY <1>11 DEF PauseBranch
  <2> QED
    BY <2>1, <2>2, <2>3
<1>12. CASE InactivityBranch
  BY <1>12, BoundFacts DEF InactivityBranch
<1>13. ASSUME NEW sequence \in Sent \cup Strays \cup {MaxSeq}, DrainData(sequence) PROVE Shape'
  BY <1>13 DEF DrainData
<1>14. CASE DrainEnds
  BY <1>14 DEF DrainEnds
<1>15. CASE Finished \/ UNCHANGED vars
  BY <1>15 DEF Finished, vars
<1> QED
  BY <1>1, <1>2, <1>3, <1>4, <1>5, <1>6, <1>7, <1>8, <1>9, <1>10, <1>11, <1>12, <1>13, <1>14,
     <1>15 DEF Next

-----------------------------------------------------------------------------
(* The steps that count datagrams.                                           *)

\* The body of ProgressMonotone.
Monotone ==
    LET before == udp_progress
        after == udp_progress'
    IN  /\ after.received >= before.received
        /\ after.received + after.lost >= before.received + before.lost
        /\ pc = "drain" =>
             /\ packet_tracker'.lost <= packet_tracker.lost
             /\ packet_tracker'.highest_seen = packet_tracker.highest_seen

\* Two of the strays that have come are the same if there is at most one.
LEMMA OneStray ==
    ASSUME NEW S \in SUBSET Strays, Cardinality(S) <= 1, NEW x \in S, NEW y \in S
    PROVE  x = y
<1>1. IsFiniteSet(S) /\ Cardinality(S) \in Nat
  BY BoundFacts, FiniteSequences
<1>2. SUFFICES ASSUME x # y PROVE FALSE
  OBVIOUS
<1>3. IsFiniteSet({x}) /\ Cardinality({x}) = 1
  BY FS_Singleton
<1>4. Cardinality({x} \cup {y}) = 1 + 1
  BY <1>2, <1>3, FS_AddElement
<1>5. Cardinality({x} \cup {y}) <= Cardinality(S)
  BY <1>1, FS_Subset
<1> QED
  BY <1>1, <1>4, <1>5

\* Publishing the tracker after a datagram, or not.
LEMMA Published ==
    ASSUME ProgressInv, packet_tracker \in Trackers, packet_tracker' \in Trackers,
           packet_tracker.received + packet_tracker.lost = packet_tracker.highest_seen + 1,
           packet_tracker'.received + packet_tracker'.lost = packet_tracker'.highest_seen + 1,
           packet_tracker'.received >= packet_tracker.received,
           packet_tracker'.highest_seen >= packet_tracker.highest_seen,
           udp_progress' \in {udp_progress, Publish(packet_tracker')}
    PROVE  /\ ProgressInv'
           /\ udp_progress'.received >= udp_progress.received
           /\ udp_progress'.received + udp_progress'.lost >= udp_progress.received + udp_progress.lost
<1> DEFINE t == packet_tracker
           v == packet_tracker'
           p == udp_progress
           q == udp_progress'
<1>1. /\ t.received \in Nat /\ t.lost \in Nat /\ t.highest_seen \in Int
      /\ v.received \in Nat /\ v.lost \in Nat /\ v.highest_seen \in Int
      /\ v.received \in 0 .. MaxSeq + 1 /\ v.lost \in 0 .. MaxSeq
  BY TrackerFields DEF Trackers
<1>2. /\ p.received \in Nat /\ p.lost \in Nat /\ p.received <= t.received
      /\ p.received + p.lost <= t.received + t.lost
      /\ p \in [received : 0 .. MaxSeq + 1, lost : 0 .. MaxSeq]
  BY BoundFacts DEF ProgressInv
<1>3. CASE q = p
  BY <1>1, <1>2, <1>3 DEF ProgressInv
<1>4. CASE q = Publish(v)
  <2>1. /\ q \in [received : 0 .. MaxSeq + 1, lost : 0 .. MaxSeq]
        /\ q.received = v.received /\ q.lost = v.lost
    BY <1>1, <1>4 DEF Publish
  <2> QED
    BY <1>1, <1>2, <2>1 DEF ProgressInv
<1> QED
  BY <1>3, <1>4

\* A step that leaves the counting alone.
LEMMA QuietStep ==
    ASSUME TrackerInv, ProgressInv, StrayInv, UNCHANGED dataVars
    PROVE  TrackerInv' /\ ProgressInv' /\ StrayInv' /\ Monotone
<1> USE DEF dataVars
<1>1. TrackerInv'
  BY DEF TrackerInv
<1>2. ProgressInv'
  BY DEF ProgressInv
<1>3. StrayInv'
  BY DEF StrayInv, NeverStranded
<1>4. Monotone
  <2>1. packet_tracker.lost \in Nat /\ udp_progress.received \in Nat /\ udp_progress.lost \in Nat
    BY TrackerFields, BoundFacts DEF TrackerInv, Exact, ProgressInv
  <2> QED
    BY <2>1 DEF Monotone
<1> QED
  BY <1>1, <1>2, <1>3, <1>4

\* A datagram in the loop.  One stray number is far from what the sender
\* sent, so nothing held vouches for it; and a number of the sender vouches
\* only for another of the sender.
LEMMA ReceiveStep ==
    ASSUME TrackerInv, ProgressInv, StrayInv, NEW x \in Sent \cup Strays, ReceiveData(x)
    PROVE  TrackerInv' /\ ProgressInv' /\ StrayInv' /\ Monotone
<1> DEFINE t == packet_tracker
           v == packet_tracker'
<1>1. x \in Numbers /\ x \in Sent \cup strays /\ strays' = strays \ {x} /\ pc = "select"
  BY DEF Numbers, ReceiveData, Arriving
<1>2. v = record_unique(t, x).tracker /\ udp_progress' \in {udp_progress, Publish(v)}
  BY DEF ReceiveData
<1>3. ref' = RefAfter(ref, x)
  BY DEF ReceiveData, RefArrives, RefAfter, Far, Near
<1>4. ref \in RefRecords /\ Exact(t, ref.counted) /\ t.unconfirmed_jump = ref.held
  BY DEF TrackerInv
<1>5. Follows(t, ref, x, v, ref')
  BY <1>1, <1>2, <1>3, <1>4, RecordUnique
<1>6. TrackerInv'
  BY <1>5 DEF Follows, TrackerInv
<1>7. /\ ProgressInv' /\ udp_progress'.received >= udp_progress.received
      /\ udp_progress'.received + udp_progress'.lost >= udp_progress.received + udp_progress.lost
  <2>1. /\ t \in Trackers /\ v \in Trackers /\ t.received + t.lost = t.highest_seen + 1
        /\ v.received + v.lost = v.highest_seen + 1
    BY <1>4, <1>6 DEF Exact, TrackerInv
  <2>2. v.received >= t.received /\ v.highest_seen >= t.highest_seen
    BY <1>5 DEF Follows
  <2> QED
    BY <1>2, <2>1, <2>2, Published
<1>8. StrayInv'
  <2>1. strays' \subseteq Strays
    BY <1>1 DEF StrayInv
  <2>2. (ref.held)' \in Sent \cup {None} \cup (Strays \ strays')
    <3>1. ref'.held \in {ref.held, x, None}
      BY <1>5 DEF Follows
    <3> QED
      BY <1>1, <3>1 DEF StrayInv
  <2>3. NeverStranded'
    <3>1. SUFFICES ASSUME Cardinality(Strays \ strays') <= 1 PROVE v.highest_seen < MaxSent
      BY DEF NeverStranded
    <3>2. t.highest_seen < MaxSent /\ t.highest_seen \in Int /\ t.highest_seen >= -1
      <4>1. Strays \ strays \subseteq Strays \ strays'
        BY <1>1
      <4>2. /\ IsFiniteSet(Strays \ strays') /\ Cardinality(Strays \ strays') \in Nat
            /\ Cardinality(Strays \ strays) \in Nat
        BY BoundFacts, FiniteSequences
      <4>3. Cardinality(Strays \ strays) <= Cardinality(Strays \ strays')
        BY <4>1, <4>2, FS_Subset
      <4>4. Cardinality(Strays \ strays) <= 1
        BY <3>1, <4>2, <4>3
      <4>5. t \in Trackers
        BY <1>4 DEF Exact
      <4> QED
        BY <4>4, <4>5, TrackerFields DEF StrayInv, NeverStranded
    <3>3. /\ v.highest_seen \in {t.highest_seen, x, ref.held}
          /\ ~Near(ref, x) => v.highest_seen \in {t.highest_seen, x}
          /\ Far(ref, x) /\ ~Near(ref, x) => v.highest_seen = t.highest_seen
      BY <1>5 DEF Follows
    <3>4. CASE x < MaxSent
      <4>1. CASE Near(ref, x)
        <5>1. ref.held \in Sent \cup Strays /\ AbsDiff(ref.held, x) < Window
          BY <4>1 DEF Near, StrayInv
        <5>2. ref.held \in Nat /\ x \in Nat /\ MaxSent \in Nat /\ Window \in Nat
          <6>1. ref.held \in 0 .. MaxSeq /\ x \in 0 .. MaxSeq
            BY <5>1, FewNumbers DEF Numbers
          <6> QED
            BY <6>1, BoundFacts
        <5>3. ~(ref.held >= MaxSent + Window)
          BY <3>4, <5>1, <5>2 DEF AbsDiff
        <5>4. ref.held < MaxSent
          BY <5>1, <5>2, <5>3, FarStrays DEF FarStrays, Sent
        <5>5. v.highest_seen = t.highest_seen \/ v.highest_seen = x \/ v.highest_seen = ref.held
          BY <3>3
        <5> QED
          BY <3>2, <3>4, <5>4, <5>5
      <4>2. CASE ~Near(ref, x)
        BY <3>2, <3>3, <3>4, <4>2
      <4> QED
        BY <4>1, <4>2
    <3>5. CASE ~(x < MaxSent)
      <4>1. x \in strays /\ x \in Strays /\ x \in Nat
        BY <1>1, <3>5, BoundFacts DEF Sent, StrayInv
      <4>2. x >= MaxSent + Window
        BY <3>5, <4>1, FarStrays DEF FarStrays
      <4>3. Strays \ strays = {}
        <5>1. ASSUME NEW y \in Strays \ strays PROVE FALSE
          <6>1. x \in Strays \ strays' /\ y \in Strays \ strays' /\ x # y
            BY <1>1, <4>1
          <6> QED
            BY <3>1, <6>1, OneStray
        <5> QED
          BY <5>1
      <4>4. ref.held \in Sent \cup {None}
        BY <4>3 DEF StrayInv
      <4>5. ref.held \in Int /\ ref.held < MaxSent
        BY <4>4, BoundFacts DEF Sent
      <4>6. Far(ref, x)
        <5>1. Highest(ref.counted) = t.highest_seen
          BY <1>4, HighestIs
        <5> QED
          BY <3>2, <4>1, <4>2, <5>1, BoundFacts DEF Far
      <4>7. ~Near(ref, x)
        BY <4>1, <4>2, <4>5, BoundFacts DEF Near, AbsDiff
      <4> QED
        BY <3>2, <3>3, <4>6, <4>7
    <3> QED
      BY <3>4, <3>5
  <2> QED
    BY <2>1, <2>2, <2>3 DEF StrayInv
<1> QED
  BY <1>1, <1>6, <1>7, <1>8 DEF Monotone

\* A datagram in the drain: it fills a gap or changes nothing.
LEMMA DrainStep ==
    ASSUME TrackerInv, ProgressInv, StrayInv, NEW x \in Sent \cup Strays \cup {MaxSeq},
           DrainData(x)
    PROVE  TrackerInv' /\ ProgressInv' /\ StrayInv' /\ Monotone
<1> DEFINE t == packet_tracker
           v == packet_tracker'
           C == ref.counted
<1>1. strays' = strays \ {x} /\ x \in Nat
  BY BoundFacts DEF DrainData, Sent
<1>2. v = record_straggler(t, x).tracker /\ udp_progress' \in {udp_progress, Publish(v)}
  BY DEF DrainData
<1>3. /\ ref \in RefRecords /\ Exact(t, C) /\ t.unconfirmed_jump = ref.held /\ t \in Trackers
      /\ C \in SUBSET Numbers /\ Highest(C) = t.highest_seen
  BY HighestIs DEF TrackerInv, Exact, RefRecords
<1>4. /\ t.received \in Nat /\ t.lost \in Nat /\ t.highest_seen \in Int
      /\ t.highest_seen <= MaxSeq
  BY <1>3, TrackerFields
<1>5. ref' = IF x < t.highest_seen THEN [ref EXCEPT !.counted = WithDatagram(@, x)] ELSE ref
  BY <1>3 DEF DrainData, RefStraggles
<1>6. /\ TrackerInv' /\ ref'.held = ref.held
      /\ v.received >= t.received /\ v.lost <= t.lost /\ v.highest_seen = t.highest_seen
  <2>1. CASE x < t.highest_seen
    <3>1. v = record_tracked(t, x).tracker
      BY <1>2, <2>1 DEF record_straggler
    <3>2. x \in Numbers
      <4>1. x # MaxSeq
        BY <1>1, <1>4, <2>1, BoundFacts
      <4> QED
        BY <4>1 DEF Numbers
    <3>3. Records(t, C, x, v) /\ WithDatagram(C, x) \in SUBSET Numbers
      BY <1>3, <3>1, <3>2, RecordNumber
    <3> DEFINE D == WithDatagram(C, x)
    <3>4. ref' = [ref EXCEPT !.counted = D]
      BY <1>5, <2>1
    <3> HIDE DEF D, C
    <3>5. ref' \in RefRecords /\ ref'.counted = D /\ ref'.held = ref.held
      BY <1>3, <3>3, <3>4 DEF RefRecords, D
    <3>6. /\ Exact(v, D) /\ v.unconfirmed_jump = t.unconfirmed_jump /\ v.received >= t.received
          /\ v.lost <= t.lost /\ v.highest_seen = t.highest_seen
      BY <2>1, <3>3 DEF Records, D
    <3> QED
      BY <1>3, <3>5, <3>6 DEF TrackerInv
  <2>2. CASE ~(x < t.highest_seen)
    <3>1. v = t /\ ref' = ref
      BY <1>2, <1>5, <2>2 DEF record_straggler
    <3> QED
      BY <1>4, <3>1 DEF TrackerInv
  <2> QED
    BY <2>1, <2>2
<1>7. /\ ProgressInv' /\ udp_progress'.received >= udp_progress.received
      /\ udp_progress'.received + udp_progress'.lost >= udp_progress.received + udp_progress.lost
  <2>1. /\ v \in Trackers /\ t.received + t.lost = t.highest_seen + 1
        /\ v.received + v.lost = v.highest_seen + 1
    BY <1>3, <1>6 DEF Exact, TrackerInv
  <2>2. v.highest_seen >= t.highest_seen
    BY <1>4, <1>6
  <2> QED
    BY <1>2, <1>3, <1>6, <2>1, <2>2, Published
<1>8. StrayInv'
  <2>1. strays' \subseteq Strays /\ Strays \ strays \subseteq Strays \ strays'
    BY <1>1 DEF StrayInv
  <2>2. (ref.held)' \in Sent \cup {None} \cup (Strays \ strays')
    BY <1>6, <2>1 DEF StrayInv
  <2>3. NeverStranded'
    <3>1. /\ IsFiniteSet(Strays \ strays') /\ Cardinality(Strays \ strays') \in Nat
          /\ Cardinality(Strays \ strays) \in Nat
      BY BoundFacts, FiniteSequences
    <3>2. Cardinality(Strays \ strays) <= Cardinality(Strays \ strays')
      BY <2>1, <3>1, FS_Subset
    <3>3. Cardinality(Strays \ strays') <= 1 => Cardinality(Strays \ strays) <= 1
      BY <3>1, <3>2
    <3> QED
      BY <1>6, <3>3 DEF StrayInv, NeverStranded
  <2> QED
    BY <2>1, <2>2, <2>3 DEF StrayInv
<1> QED
  BY <1>6, <1>7, <1>8 DEF Monotone

LEMMA StepInv == UdpInv /\ [Next]_vars => UdpInv' /\ [Monotone]_vars
<1> SUFFICES ASSUME UdpInv, [Next]_vars PROVE UdpInv' /\ [Monotone]_vars
  OBVIOUS
<1> USE DEF UdpInv
<1>1. Shape'
  BY ShapeStep
<1>2. ASSUME NEW x \in Sent \cup Strays, ReceiveData(x)
      PROVE  TrackerInv' /\ ProgressInv' /\ StrayInv' /\ Monotone
  BY <1>2, ReceiveStep
<1>3. ASSUME NEW x \in Sent \cup Strays \cup {MaxSeq}, DrainData(x)
      PROVE  TrackerInv' /\ ProgressInv' /\ StrayInv' /\ Monotone
  BY <1>3, DrainStep
<1>4. CASE UNCHANGED dataVars
  BY <1>1, <1>4, QuietStep
<1>5. \/ UNCHANGED dataVars
      \/ \E x \in Sent \cup Strays : ReceiveData(x)
      \/ \E x \in Sent \cup Strays \cup {MaxSeq} : DrainData(x)
  BY DEF Next, vars, TogglePause, RequestCancel, DropSenders, ClockTick, Top, Paused,
         ReceiveControl, ReceiveErrorOrFeedback, CancelBranch, PauseBranch, InactivityBranch,
         DrainEnds, Finished
<1> QED
  BY <1>1, <1>2, <1>3, <1>4, <1>5

(***************************************************************************)
(* The inductive invariant: tracker and reference agree step by step, what *)
(* is published stays behind the tracker, and the tracker holds a stray    *)
(* number only after it came (udp.rs, receive_udp).                        *)
(***************************************************************************)
THEOREM InvariantHolds == Spec => []UdpInv
<1>1. Init => UdpInv
  BY InitInv
<1>2. UdpInv /\ [Next]_vars => UdpInv'
  BY StepInv
<1> QED
  BY <1>1, <1>2, PTL DEF Spec

-----------------------------------------------------------------------------
(* The theorems.                                                             *)

(***************************************************************************)
(* The receive loop's state is well-typed: the counters of the tracker     *)
(* never leave u64, and its bitmap never a position outside the window     *)
(* (udp.rs, receive_udp and PacketTracker).                                *)
(***************************************************************************)
THEOREM TypeCorrect == Spec => []TypeOK
<1>1. UdpInv => TypeOK
  <2> SUFFICES ASSUME UdpInv PROVE TypeOK
    OBVIOUS
  <2>1. /\ packet_tracker \in Trackers /\ ref.counted \subseteq 0 .. MaxSeq
        /\ packet_tracker.unconfirmed_jump = ref.held
    BY DEF UdpInv, TrackerInv, Exact
  <2>2. ref.held \in None .. MaxSeq
    BY <2>1, TrackerFields
  <2> QED
    BY <2>1, <2>2 DEF UdpInv, Shape, ProgressInv, StrayInv, TypeOK
<1> QED
  BY <1>1, InvariantHolds, PTL

(***************************************************************************)
(* The loss figures are right for every window, word size and set of       *)
(* stray datagrams, whatever the network loses, repeats and reorders: the  *)
(* tracker received exactly the datagrams that count and lost the others,  *)
(* and a single stray datagram does not move its window (udp.rs,           *)
(* PacketTracker::record_unique and record_straggler).                     *)
(***************************************************************************)
THEOREM LossIsExact == Spec => []LossExact
<1>1. UdpInv => LossExact
  <2> SUFFICES ASSUME UdpInv PROVE LossExact
    OBVIOUS
  <2>1. Exact(packet_tracker, ref.counted) /\ packet_tracker.unconfirmed_jump = ref.held
    BY DEF UdpInv, TrackerInv
  <2>2. Highest(ref.counted) = packet_tracker.highest_seen
    BY <2>1, HighestIs
  <2>3. TrackerExact
    BY <2>1, <2>2 DEF TrackerExact, Exact
  <2>4. NeverStranded
    BY DEF UdpInv, StrayInv
  <2> QED
    BY <2>3, <2>4 DEF LossExact
<1> QED
  BY <1>1, InvariantHolds, PTL

(***************************************************************************)
(* What the receiver publishes only grows, in received and in received +   *)
(* lost, and the drain after the test only repairs loss (udp.rs,           *)
(* record_accepted_packet and the drain of receive_udp).                   *)
(***************************************************************************)
THEOREM ProgressGrows == Spec => ProgressMonotone
<1>1. UdpInv /\ [Next]_vars => [Monotone]_vars
  BY StepInv
<1>2. [][Monotone]_vars <=> ProgressMonotone
  BY DEF Monotone, ProgressMonotone
<1> QED
  BY <1>1, <1>2, InvariantHolds, PTL DEF Spec
=============================================================================
