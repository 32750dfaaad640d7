------------------------------ MODULE MtuProbe ------------------------------
(***************************************************************************)
(* `--probe-mtu`: the size search of probe.rs (a ladder of common MTUs,     *)
(* then a binary search), the client's driver `run_probe` with its three    *)
(* attempts per size and the replies it collects, and the server's          *)
(* responder `respond_mtu_probes`, over a path that drops what is too big    *)
(* for it and, a bounded number of times, what is not: a packet may be lost, *)
(* overtake another or arrive after the reply window, and a send may fail.    *)
(*                                                                         *)
(* Sizes are UDP payload sizes, with the program's own numbers.  A packet    *)
(* is its kind, its sequence number and its declared size; what the padding  *)
(* holds is left out, and a datagram is delivered whole or not at all.       *)
(***************************************************************************)
EXTENDS Integers, Sequences, FiniteSets

CONSTANTS
    Paths        \* the paths probed: records of the largest payload
                 \* that the client's interface (local), the way to the
                 \* server (fwd) and the way back (rev) let through, the
                 \* address family, whether DF could be set and whether the
                 \* server's test may end before the probe (short), and
                 \* the bound on lost, late or overtaking packets and failed
                 \* sends (budget)

ASSUME PathsAssumption ==
    \A p \in Paths : /\ p.local \in Nat /\ p.fwd \in Nat /\ p.rev \in Nat
                      /\ p.ipv6 \in BOOLEAN /\ p.df \in BOOLEAN /\ p.short \in BOOLEAN
                      /\ p.budget \in Nat

VARIABLES
    search,      \* SizeSearch: ladder position and the bracket (low, high)
    probe,       \* run_probe's locals: phase, size, attempts, seq, ...
    sizes,       \* run_probe's `sizes`: one SizeResult per size, in order
    reverseMax,  \* run_probe's `reverse_max`
    pnet,        \* probe packets in flight, in either direction
    path,        \* the path in use
    responder,   \* whether the server's responder runs
    faults       \* faults so far

probeVars == <<search, probe, sizes, reverseMax, pnet, path, responder, faults>>

NoSize == 0                     \* Option::None of a size
PROBES_PER_SIZE == 3

(* ----------------------------- The search ------------------------------ *)

ip_overhead(is_ipv6) == IF is_ipv6 THEN 48 ELSE 28

min_probe_payload(is_ipv6) == IF is_ipv6 THEN 1280 - ip_overhead(TRUE) ELSE 548

max_probe_payload(is_ipv6) == 9216 - ip_overhead(is_ipv6)

\* The common MTUs, less the headers, that the family's range holds: the sizes
\* ascend, so they are a segment of the list.  Both ends of the range are
\* among them, so the code's insertions never apply.
size_ladder(is_ipv6) ==
    LET payload == [i \in 1..7 |->
                      <<576, 1280, 1492, 1500, 4352, 9000, 9216>>[i] - ip_overhead(is_ipv6)]
        kept == {i \in 1..7 :
                   payload[i] \in min_probe_payload(is_ipv6)..max_probe_payload(is_ipv6)}
        first == CHOOSE i \in kept : \A j \in kept : i <= j
        last == CHOOSE i \in kept : \A j \in kept : j <= i
    IN  SubSeq(payload, first, last)

NewSearch(is_ipv6) ==
    [ladder |-> size_ladder(is_ipv6), ladder_idx |-> 1, low |-> NoSize,
     high |-> NoSize, in_binary |-> FALSE, pending |-> NoSize]

binary_midpoint(s) ==
    IF s.low = NoSize \/ s.high = NoSize \/ s.high - s.low <= 1
    THEN NoSize
    ELSE s.low + (s.high - s.low) \div 2

\* The search after next_size(): `pending` is what the call returns.  The
\* rungs at or above a known failure are skipped.
next_size(s) ==
    LET rungs == {i \in s.ladder_idx..Len(s.ladder) :
                     s.high = NoSize \/ s.ladder[i] < s.high}
        first == CHOOSE i \in rungs : \A j \in rungs : i <= j
    IN  IF ~s.in_binary /\ rungs # {}
        THEN [s EXCEPT !.ladder_idx = first, !.pending = s.ladder[first]]
        ELSE [s EXCEPT !.in_binary = TRUE,
                       !.ladder_idx = IF s.in_binary THEN @ ELSE Len(s.ladder) + 1,
                       !.pending = binary_midpoint(s)]

\* Mutant: a local refusal does not bracket the search from above.
recordPathOnly(s, size, forward) ==
    [s EXCEPT !.pending = NoSize,
              !.ladder_idx = IF s.in_binary THEN @ ELSE @ + 1,
              !.low  = IF forward = "pass" /\ (@ = NoSize \/ size > @) THEN size ELSE @,
              !.high = IF forward = "fail" /\ (@ = NoSize \/ size < @)
                       THEN size ELSE @]

\* The forward verdict of `size` moves one end of the bracket.
record(s, size, forward) ==
    [s EXCEPT !.pending = NoSize,
              !.ladder_idx = IF s.in_binary THEN @ ELSE @ + 1,
              !.low  = IF forward = "pass" /\ (@ = NoSize \/ size > @) THEN size ELSE @,
              !.high = IF forward \in {"fail", "local"} /\ (@ = NoSize \/ size < @)
                       THEN size ELSE @]

(* ------------------------------ The driver ----------------------------- *)

IdleProbe == [phase |-> "idle", size |-> NoSize, attempts |-> 0, seq |-> 0,
              forward_ok |-> 0, reverse_ok |-> 0, got_ack |-> FALSE, local |-> FALSE]

ProbeInit ==
    /\ search = NewSearch(FALSE)
    /\ probe = IdleProbe
    /\ sizes = <<>>
    /\ reverseMax = NoSize
    /\ pnet = {}
    /\ path = [local |-> 0, fwd |-> 0, rev |-> 0, ipv6 |-> FALSE, df |-> TRUE,
               short |-> FALSE, budget |-> 0]
    /\ responder = TRUE
    /\ faults = 0

\* The socket is connected and DF is set on it, or could not be (a warning).
StartProbe ==
    /\ probe.phase = "idle"
    /\ \E p \in Paths : path' = p /\ search' = NewSearch(p.ipv6)
    /\ probe' = [probe EXCEPT !.phase = "next"]
    /\ UNCHANGED <<sizes, reverseMax, pnet, responder, faults>>

\* `while let Some(size) = search.next_size()`.
NextSize ==
    /\ probe.phase = "next"
    /\ search' = next_size(search)
    /\ probe' = IF search'.pending = NoSize
                THEN [probe EXCEPT !.phase = "done"]
                ELSE [probe EXCEPT !.phase = "send", !.size = search'.pending,
                                   !.attempts = 0, !.forward_ok = 0, !.reverse_ok = 0,
                                   !.local = FALSE]
    /\ UNCHANGED <<sizes, reverseMax, pnet, path, responder, faults>>

\* Where the attempt loop goes after an attempt.
AfterAttempt(p) ==
    IF p.reverse_ok > 0 \/ p.attempts = PROBES_PER_SIZE THEN "verdict" ELSE "send"

\* The state after an attempt's replies are in: an echo alone proves both ways.
AttemptDone(p, got_ack, got_echo) ==
    LET q == [p EXCEPT !.forward_ok = IF got_ack \/ got_echo THEN @ + 1 ELSE @,
                       !.reverse_ok = IF got_echo THEN @ + 1 ELSE @,
                       !.got_ack = FALSE]
    IN  [q EXCEPT !.phase = AfterAttempt(q)]

\* What the path delivers of what is sent in a direction.
Delivered(pkt, limit) == IF pkt.size <= limit THEN {pkt} ELSE {}

\* One attempt's send.  With DF the client's kernel refuses what its
\* interface cannot carry, and a hop drops what the path cannot; without it
\* both fragment.  Any other error of the send counts as a lost attempt.
SendProbe ==
    /\ probe.phase = "send"
    /\ LET p == [probe EXCEPT !.attempts = @ + 1, !.seq = @ + 1]
           pkt == [kind |-> "probe", seq |-> p.seq, size |-> p.size]
       IN  \/ /\ path.df /\ p.size > path.local
              /\ probe' = [p EXCEPT !.local = TRUE, !.phase = "verdict"]
              /\ UNCHANGED <<pnet, faults>>
           \/ /\ ~path.df \/ p.size <= path.local
              /\ probe' = [p EXCEPT !.phase = "wait"]
              /\ pnet' = pnet \cup (IF ~responder THEN {}
                                    ELSE IF path.df THEN Delivered(pkt, path.fwd) ELSE {pkt})
              /\ UNCHANGED faults
           \/ /\ ~path.df \/ p.size <= path.local
              /\ faults < path.budget
              /\ faults' = faults + 1
              /\ probe' = [p EXCEPT !.phase = AfterAttempt(p)]
              /\ UNCHANGED pnet
    /\ UNCHANGED <<search, sizes, reverseMax, path, responder>>

\* The reply belongs to the attempt that is waiting.
IsReply(pkt) == pkt.seq = probe.seq /\ pkt.size = probe.size

\* The replies that were sent before `pkt` and are still in flight.
SentBefore(pkt) ==
    {q \in pnet : /\ q.kind # "probe"
                  /\ q.seq < pkt.seq \/ (q.seq = pkt.seq /\ q.kind = "ack" /\ pkt.kind = "echo")}

\* collect_replies takes a datagram, the next one or (a fault) one that has
\* overtaken others: a stale one is ignored, an ack is remembered, an echo
\* ends the wait.
CollectReply ==
    /\ probe.phase = "wait"
    /\ \E pkt \in pnet :
          /\ pkt.kind # "probe"
          /\ IF SentBefore(pkt) = {} THEN UNCHANGED faults
             ELSE faults < path.budget /\ faults' = faults + 1
          /\ pnet' = pnet \ {pkt}
          /\ probe' = IF ~IsReply(pkt) THEN probe
                      ELSE IF pkt.kind = "ack" THEN [probe EXCEPT !.got_ack = TRUE]
                      ELSE AttemptDone(probe, probe.got_ack, TRUE)
    /\ UNCHANGED <<search, sizes, reverseMax, path, responder>>

\* The reply window elapses: with nothing of this attempt in flight, or
\* (a fault) before what is in flight arrives.
ReplyTimeout ==
    /\ probe.phase = "wait"
    /\ LET late == \E pkt \in pnet : pkt.seq = probe.seq
       IN  /\ late => faults < path.budget
           /\ faults' = IF late THEN faults + 1 ELSE faults
    /\ probe' = AttemptDone(probe, probe.got_ack, FALSE)
    /\ UNCHANGED <<search, sizes, reverseMax, pnet, path, responder>>

\* The verdicts of a size and the row and bracket they give.
Verdict ==
    /\ probe.phase = "verdict"
    /\ LET forward == IF probe.local THEN "local"
                      ELSE IF probe.forward_ok > 0 THEN "pass" ELSE "fail"
           reverse == IF probe.reverse_ok > 0 THEN "pass"
                      ELSE IF forward = "pass" THEN "fail" ELSE "untested"
       IN  /\ reverseMax' = IF reverse = "pass" /\ probe.size > reverseMax
                            THEN probe.size ELSE reverseMax
           /\ sizes' = Append(sizes, [payload |-> probe.size, forward |-> forward,
                                      reverse |-> reverse])
           /\ search' = record(search, probe.size, forward)
    /\ probe' = [probe EXCEPT !.phase = "next"]
    /\ UNCHANGED <<pnet, path, responder, faults>>

(* --------------------- The responder and the network ------------------- *)

\* respond_mtu_probes: a small ack and an echo of the probe's size, which
\* the way back drops (or the server's kernel refuses) when it is too big.
RespondProbe ==
    /\ responder
    /\ \E pkt \in pnet :
          /\ pkt.kind = "probe"
          /\ pnet' = (pnet \ {pkt}) \cup {[pkt EXCEPT !.kind = "ack"]}
                       \cup Delivered([pkt EXCEPT !.kind = "echo"], path.rev)
    /\ UNCHANGED <<search, probe, sizes, reverseMax, path, responder, faults>>

\* The server's test ends, and its responder with it: probes go unanswered.
ResponderStops ==
    /\ responder /\ path.short /\ probe.phase \notin {"idle", "done"}
    /\ responder' = FALSE
    /\ faults' = path.budget                  \* no other fault follows
    /\ pnet' = {pkt \in pnet : pkt.kind # "probe"}
    /\ UNCHANGED <<search, probe, sizes, reverseMax, path>>

\* The network loses a packet that the path could carry.
LosePacket ==
    /\ faults < path.budget
    /\ faults' = faults + 1
    /\ \E pkt \in pnet : pnet' = pnet \ {pkt}
    /\ UNCHANGED <<search, probe, sizes, reverseMax, path, responder>>

ProbeSteps ==
    \/ NextSize \/ SendProbe \/ CollectReply \/ ReplyTimeout
    \/ Verdict \/ RespondProbe \/ LosePacket

\* The client's task runs, to the end of each reply window; the server's
\* responder answers what arrives.
ProbeFairness ==
    /\ WF_probeVars(NextSize \/ SendProbe \/ CollectReply \/ ReplyTimeout \/ Verdict)
    /\ WF_probeVars(RespondProbe)

(* ----------------------------- Properties ------------------------------ *)

ProbePhases == {"idle", "next", "send", "wait", "verdict", "done"}

(***************************************************************************)
(* Every variable of the probe has its type.                                *)
(***************************************************************************)
ProbeTypeOK ==
    /\ search.low \in Nat /\ search.high \in Nat /\ search.pending \in Nat
    /\ search.ladder_idx \in 1..(Len(search.ladder) + 1)
    /\ search.in_binary \in BOOLEAN
    /\ probe.phase \in ProbePhases /\ probe.size \in Nat /\ probe.seq \in Nat
    /\ probe.attempts \in 0..PROBES_PER_SIZE
    /\ probe.forward_ok \in 0..PROBES_PER_SIZE /\ probe.reverse_ok \in 0..1
    /\ probe.got_ack \in BOOLEAN /\ probe.local \in BOOLEAN
    /\ reverseMax \in Nat
    /\ \A pkt \in pnet : pkt.kind \in {"probe", "ack", "echo"} /\ pkt.size \in Nat
    /\ faults \in 0..path.budget

\* The largest payload that the path carries to the server, within the range.
Carried(limit) ==
    IF limit < min_probe_payload(path.ipv6) THEN NoSize
    ELSE IF limit > max_probe_payload(path.ipv6) THEN max_probe_payload(path.ipv6)
    ELSE limit

ForwardLimit ==
    IF ~path.df THEN max_probe_payload(path.ipv6)
    ELSE Carried(IF path.local < path.fwd THEN path.local ELSE path.fwd)

(***************************************************************************)
(* The report (probe.rs run_probe) never claims more than the path carries, *)
(* at any point of the search and whatever packets are lost or late: no      *)
(* forward size above what the client's interface and the path let through,  *)
(* no reverse size above what the way back lets through or above the forward  *)
(* one.  And the probe is exact when it ends with fewer faults than the       *)
(* attempts of one size: the ladder and the binary search then find the very  *)
(* largest payload, to the byte.                                            *)
(***************************************************************************)
ProbeReportRight ==
    /\ search.low <= ForwardLimit
    /\ reverseMax <= Carried(path.rev) /\ reverseMax <= ForwardLimit
    /\ probe.phase = "next" => reverseMax <= search.low
    /\ probe.phase = "done" /\ faults < PROBES_PER_SIZE /\ responder =>
          search.low = ForwardLimit
=============================================================================
