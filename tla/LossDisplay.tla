---------------------------- MODULE LossDisplay ----------------------------
(***************************************************************************)
(* Live UDP loss and byte counts on their way from a receiver's counters   *)
(* to the screen (client.rs, udp.rs, tui/app.rs, main.rs).                 *)
(*                                                                         *)
(* In an upload the server counts: it sends Intervals on the control       *)
(* channel (in order, possibly much delayed) and feedback datagrams (lost, *)
(* duplicated, reordered).  In a download the client counts and a local    *)
(* clock reports; a bidirectional test does both.  Two producers pass one  *)
(* filter and then race into one bounded progress channel, which either    *)
(* the terminal interface or the plain printer consumes.                   *)
(***************************************************************************)
EXTENDS Naturals, Sequences, FiniteSets

CONSTANTS
    Confs,        \* runs: [dir, streams, ui, cum: udp_progress is reported,
                  \* for the printer omit, every (--interval) and quiet; and the
                  \* bounds expected: packets of one stream, reports: Intervals and local reports]
    None,         \* no reading
    ProgressCap,  \* slots of the progress channel (100)
    BarInterval,  \* the sparkline's BAR_INTERVAL
    BarStall,     \* BAR_STALL_AFTER
    LogAt,        \* new losses worth a line in the history (5)
    MaxAge        \* bound: time without a bar

Dirs == {"up", "down"}
Readings == [got : Nat, lost : Nat]
Updates == [full : BOOLEAN, at : Nat, bytes : Nat, lost : Nat, prog : Readings \cup {None},
            recv : Readings \cup {None}]

ASSUME DisplayAssumption ==
    /\ Confs \subseteq [dir : {"upload", "download", "bidir"}, streams : Nat \ {0}, ui : {"tui", "print"},
                        cum : BOOLEAN, omit : Nat, every : Nat \ {0}, quiet : BOOLEAN,
                        expected : Nat, reports : Nat]
    /\ None \notin Readings /\ None \notin Updates
    /\ {ProgressCap, BarInterval, BarStall, LogAt, MaxAge} \subseteq Nat /\ BarInterval <= BarStall

VARIABLES
    conf,
    rx,       \* rx[d][s]: cumulative packet counts of direction d's receiver
    gaps,     \* gaps[d]: gaps ever opened (a gap may be filled later)
    was,      \* was[d][s]: every reading these counters have had
    server,   \* the server's reporting: [sent: Intervals sent, got, lost: counts at the last one]
    ctl,      \* Intervals on the control channel
    slots,    \* the feedback aggregator, one slot per stream
    filter,   \* UdpProgressFilter.latest
    hand,     \* updates past the filter and not yet enqueued, per producer
    own,      \* the client's control loop: [base: last_recv_bytes, sent: local reports]
    queue,    \* the progress channel
    tui,      \* the terminal interface's App: latest, prev: latest_ and prev_udp_progress; lost, prevLost;
              \* recv: udp_recv; bytes; age: time since the last bar; bars: there is one; bar: the newest.
              \* Ghosts: drawn: sum of all bars; first: the reading bars start from; logged: losses logged
    out,      \* the plain printer: latest, recv: its caches; printed: last_printed_cumulative_lost;
              \* row: last_printed_interval + 1; bytes.  Ghosts: rows: sum of the printed losses; guess: a row was printed
              \* without a reading although this server sends them
    phase,    \* idle, running, stopping (cancelled), joining (Result read), joined, done (summary shown)
    result    \* the Result as run_test returns it

vars == <<conf, rx, gaps, was, server, ctl, slots, filter, hand, own, queue, tui, out,
          phase, result>>

Streams == 1 .. conf.streams
Live == {"running", "stopping"}
Zero == [got |-> 0, lost |-> 0]
Expected(p) == p.got + p.lost
Minus(a, b) == IF a > b THEN a - b ELSE 0      \* saturating_sub
\* The sum of a function into the naturals: the number of pairs <<s, i>> with 1 <= i <= f[s].
Units(f) == UNION {{s} \X (1 .. f[s]) : s \in DOMAIN f}
SumOf(f) == Cardinality(Units(f))
Total(f) == [got |-> SumOf([s \in DOMAIN f |-> f[s].got]),
             lost |-> SumOf([s \in DOMAIN f |-> f[s].lost])]

\* UdpIntervalProgress::is_at_least_as_fresh_as.
is_at_least_as_fresh_as(p, q) == p.got >= q.got /\ Expected(p) >= Expected(q)

\* Whether p replaces an optional earlier reading; None when it does not.
Fresher(cache, p) ==
    IF p # None /\ cache # None /\ ~is_at_least_as_fresh_as(p, cache) THEN None ELSE p
Latest(cache, p) == IF Fresher(cache, p) = None THEN cache ELSE p

(***************************************************************************)
(* The receivers and the server's reports.                                 *)
(***************************************************************************)
Counts(d) ==
    CASE conf.dir = "bidir" -> TRUE
      [] conf.dir = "upload" -> d = "up"
      [] OTHER -> d = "down"

\* A packet arrives: the next one, one beyond a gap, or a late one that fills a gap.
\* The server's receivers stop before its Result; the client's stop when they are joined.
Receive(d, s) ==
    LET c == rx[d][s] IN
    /\ Counts(d) /\ phase \in Live \cup (IF d = "up" THEN {} ELSE {"joining"})
    /\ \E n \in {[got |-> c.got + 1, lost |-> c.lost], [got |-> c.got + 1, lost |-> c.lost + 1],
                 [got |-> c.got + 1, lost |-> Minus(c.lost, 1)]} :
          /\ Expected(n) <= conf.expected
          /\ rx' = [rx EXCEPT ![d][s] = n]
          /\ gaps' = [gaps EXCEPT ![d] = @ + Minus(n.lost, c.lost)]
          /\ was' = [was EXCEPT ![d][s] = @ \cup {n}]
    /\ UNCHANGED <<conf, server, ctl, slots, filter, hand, own, queue, tui, out, phase, result>>

\* An Interval carries the deltas since the previous one and the cumulative counts.
SendInterval ==
    LET t == Total(rx["up"]) IN
    /\ phase \in Live /\ Counts("up") /\ server.sent < conf.reports
    /\ ctl' = Append(ctl, [at |-> server.sent + 1, bytes |-> t.got - server.got,
                           lost |-> Minus(t.lost, server.lost),
                           prog |-> IF conf.cum THEN t ELSE None])
    /\ server' = [sent |-> server.sent + 1, got |-> t.got, lost |-> t.lost]
    /\ UNCHANGED <<conf, rx, gaps, was, slots, filter, hand, own, queue, tui, out, phase, result>>

\* The receive loop's feedback timer sends a stream's counts twice a second, in upload tests only and
\* once a packet was decoded; the network may lose, delay, repeat and reorder these datagrams, so
\* that any earlier reading may arrive at any time.
FeedbackOf(s) == IF conf.dir = "upload" /\ conf.cum THEN {p \in was["up"][s] : p.got > 0} ELSE {}

(***************************************************************************)
(* The client's two producers.                                             *)
(***************************************************************************)
\* receive_udp_feedback_only and store_udp_feedback: stream s's socket yields a datagram.
\* The socket is drained for a moment after the cancel.
store_udp_feedback(s) ==
    /\ phase \in {"running", "stopping", "joining"}
    /\ \E p \in FeedbackOf(s) \ {slots[s]} :
          /\ is_at_least_as_fresh_as(p, slots[s])
          /\ slots' = [slots EXCEPT ![s] = p]
    /\ UNCHANGED <<conf, rx, gaps, was, server, ctl, filter, hand, own, queue, tui, out, phase,
                   result>>

\* UdpProgressFilter::apply under its lock; None when the reading is stale.
apply(p) == filter' = Latest(filter, p)

Update(full, at, bytes, lost, prog, recv) ==
    [full |-> full, at |-> at, bytes |-> bytes, lost |-> lost, prog |-> prog, recv |-> recv]

\* The consumer task's 1 Hz tick: the sum of the slots, through the filter ...
FeedbackTick ==
    LET t == Total(slots) IN
    /\ phase \in Live \cup {"joining"} /\ conf.dir = "upload" /\ hand["feedback"] = None
    /\ t # Zero /\ Fresher(filter, t) # None
    /\ apply(t)
    /\ hand' = [hand EXCEPT !["feedback"] = Update(FALSE, 0, 0, 0, t, None)]
    /\ UNCHANGED <<conf, rx, gaps, was, server, ctl, slots, own, queue, tui, out, phase, result>>

\* ... and try_send: a full channel drops the update.
FeedbackSend ==
    /\ hand["feedback"] # None
    /\ hand' = [hand EXCEPT !["feedback"] = None]
    /\ queue' = IF Len(queue) < ProgressCap THEN Append(queue, hand["feedback"]) ELSE queue
    /\ UNCHANGED <<conf, rx, gaps, was, server, ctl, slots, filter, own, tui, out, phase, result>>

\* udp_recv_interval_deltas: bytes received since the previous call (a packet is one byte here).
OwnDelta == Total(rx["down"]).got - own.base
AdvanceBase(o) == [o EXCEPT !.base = Total(rx["down"]).got]
\* udp_local_direction_progress: no packets observed is no reading.
udp_local_direction_progress ==
    IF Total(rx["down"]) = Zero THEN None ELSE Total(rx["down"])

Idle == phase \in Live /\ hand["control"] = None

\* The control loop reads an Interval; a bidirectional row adds the client's own receive bytes.
ReadInterval ==
    LET m == Head(ctl)
        bidir == conf.dir = "bidir" IN
    /\ Idle /\ ctl # <<>>
    /\ ctl' = Tail(ctl)
    /\ apply(m.prog)
    /\ own' = IF bidir THEN AdvanceBase(own) ELSE own
    /\ hand' = [hand EXCEPT !["control"] =
                    Update(TRUE, m.at, m.bytes + (IF bidir THEN OwnDelta ELSE 0), m.lost,
                           Fresher(filter, m.prog),
                           IF bidir THEN udp_local_direction_progress ELSE None)]
    /\ UNCHANGED <<conf, rx, gaps, was, server, slots, queue, tui, out, phase, result>>

\* The local clock of a download: a full update from the client's own counters.
LocalReport ==
    LET t == Total(rx["down"]) IN
    /\ Idle /\ phase = "running" /\ conf.dir = "download" /\ own.sent < conf.reports
    /\ apply(t)
    /\ own' = [AdvanceBase(own) EXCEPT !.sent = @ + 1]
    /\ hand' = [hand EXCEPT !["control"] =
                    Update(TRUE, own.sent + 1, OwnDelta, 0, Fresher(filter, t), None)]
    /\ UNCHANGED <<conf, rx, gaps, was, server, ctl, slots, queue, tui, out, phase, result>>

\* The local clock of a bidirectional test: the download quality alone, if the channel has room.
LocalDirection ==
    /\ Idle /\ phase = "running" /\ conf.dir = "bidir" /\ own.sent < conf.reports
    /\ own' = [own EXCEPT !.sent = @ + 1]
    /\ queue' = IF Len(queue) < ProgressCap
                THEN Append(queue, Update(FALSE, 0, 0, 0, None, udp_local_direction_progress))
                ELSE queue
    /\ UNCHANGED <<conf, rx, gaps, was, server, ctl, slots, filter, hand, tui, out, phase, result>>

\* send_progress_until_cancelled waits for room; a cancelled run drops the update.
send_progress_until_cancelled ==
    /\ hand["control"] # None
    /\ \/ Len(queue) < ProgressCap /\ queue' = Append(queue, hand["control"])
       \/ phase = "stopping" /\ UNCHANGED queue
    /\ hand' = [hand EXCEPT !["control"] = None]
    /\ UNCHANGED <<conf, rx, gaps, was, server, ctl, slots, filter, own, tui, out, phase, result>>

UserCancel ==
    /\ phase = "running" /\ phase' = "stopping"
    /\ UNCHANGED <<conf, rx, gaps, was, server, ctl, slots, filter, hand, own, queue, tui, out,
                   result>>

(***************************************************************************)
(* The end: the Result follows the last Interval; the stream tasks are     *)
(* joined and the client's own counters replace what only it can know.     *)
(***************************************************************************)
ReadResult ==
    /\ Idle /\ ctl = <<>> /\ phase' = "joining"
    /\ UNCHANGED <<conf, rx, gaps, was, server, ctl, slots, filter, hand, own, queue, tui, out,
                   result>>

\* overlay_udp_download_result and overlay_udp_bidir_result; an upload keeps the server's figures.
Overlay ==
    [bytes |-> (IF Counts("up") THEN Total(rx["up"]).got ELSE 0)
                  + (IF Counts("down") THEN Total(rx["down"]).got ELSE 0),
     lost |-> Total(rx[IF conf.dir = "download" THEN "down" ELSE "up"]).lost]

\* A mutant: the totals are taken from the counters before the tasks have stopped.
OverlayThenJoin ==
    /\ phase = "joining"
    /\ \/ result.bytes = 0 /\ result' = Overlay /\ UNCHANGED phase
       \/ result.bytes > 0 /\ phase' = "joined" /\ UNCHANGED result
    /\ UNCHANGED <<conf, rx, gaps, was, server, ctl, slots, filter, hand, own, queue, tui, out>>

JoinThenOverlay ==
    /\ phase = "joining" /\ phase' = "joined"
    /\ result' = Overlay
    /\ UNCHANGED <<conf, rx, gaps, was, server, ctl, slots, filter, hand, own, queue, tui, out>>

(***************************************************************************)
(* The terminal interface.                                                 *)
(***************************************************************************)
\* The packets and losses one bar stands for, from the last reading drawn to the latest.
Window(latest, prev) ==
    IF latest = None \/ prev = None THEN [packets |-> 0, lost |-> 0]
    ELSE [packets |-> Minus(Expected(latest), Expected(prev)), lost |-> Minus(latest.lost, prev.lost)]

\* push_throughput_sample, and the baseline that only an appended bar moves.
\* `drawn` sums every bar; `first` is the reading that the first bar silently starts from.
AppendBar(a) ==
    LET w == Window(a.latest, a.prev) IN
    [a EXCEPT !.bars = TRUE, !.bar = w, !.prev = IF a.latest = None THEN @ ELSE a.latest,
              !.drawn = [packets |-> @.packets + w.packets, lost |-> @.lost + w.lost],
              !.first = IF @ = None THEN a.latest ELSE @]

\* A mutant: a bar drawn during a stall leaves the baseline to the next Interval.
tick_keeping_prev ==
    /\ phase \in Live /\ conf.ui = "tui" /\ tui.age >= BarStall
    /\ tui' = [AppendBar(tui) EXCEPT !.age = 0, !.prev = tui.prev]
    /\ UNCHANGED <<conf, rx, gaps, was, server, ctl, slots, filter, hand, own, queue, out, phase,
                   result>>

\* maybe_append_stalled_bar, on every turn of the interface's loop.
tick ==
    /\ phase \in Live \cup {"joining", "joined"} /\ conf.ui = "tui" /\ tui.age >= BarStall
    /\ tui' = [AppendBar(tui) EXCEPT !.age = IF tui.age - BarInterval >= BarStall
                                            THEN 0 ELSE tui.age - BarInterval]
    /\ UNCHANGED <<conf, rx, gaps, was, server, ctl, slots, filter, hand, own, queue, out, phase,
                   result>>

\* Time passes; the loop turns often enough to notice a stall before the bound.
Elapse ==
    /\ conf.ui = "tui" /\ phase \in Live /\ tui.age < MaxAge
    /\ tui' = [tui EXCEPT !.age = @ + 1]
    /\ UNCHANGED <<conf, rx, gaps, was, server, ctl, slots, filter, hand, own, queue, out, phase,
                   result>>

\* detect_events: the baseline of the logged losses only rises.
detect_events(a) ==
    IF a.lost <= a.prevLost THEN a
    ELSE [a EXCEPT !.prevLost = a.lost,
                   !.logged = @ + (IF a.lost - a.prevLost >= LogAt THEN a.lost - a.prevLost ELSE 0)]

\* The full-interval part of on_progress, after the readings have been taken over.
OnInterval(a, u) ==
    LET b == [a EXCEPT !.bytes = @ + u.bytes]
        c == IF ~a.bars \/ a.age * 2 >= BarInterval THEN [AppendBar(b) EXCEPT !.age = 0] ELSE b IN
    detect_events([c EXCEPT !.lost = IF c.latest = None THEN @ + u.lost ELSE c.latest.lost])

\* on_progress: freshness is checked again, because producers filter in one order and enqueue in
\* another; a feedback-only update moves the reading and nothing else.
on_progress ==
    LET u == Head(queue)
        a == [tui EXCEPT !.latest = Latest(@, u.prog), !.recv = Latest(@, u.recv)] IN
    /\ conf.ui = "tui" /\ phase # "done" /\ queue # <<>>
    /\ queue' = Tail(queue)
    /\ tui' = IF u.full THEN OnInterval(a, u) ELSE a
    /\ UNCHANGED <<conf, rx, gaps, was, server, ctl, slots, filter, hand, own, out, phase, result>>

\* The run has finished: on_result pins the totals, and updates still queued are dropped.
on_result ==
    /\ conf.ui = "tui" /\ phase = "joined" /\ phase' = "done"
    /\ tui' = [tui EXCEPT !.bytes = result.bytes, !.lost = result.lost]
    /\ UNCHANGED <<conf, rx, gaps, was, server, ctl, slots, filter, hand, own, queue, out, result>>

(***************************************************************************)
(* The plain printer.                                                      *)
(***************************************************************************)
\* A row's loss: from the freshest reading, or the Interval's own count from an older server.
RowLoss(o, u) == IF o.latest = None THEN u.lost ELSE Minus(o.latest.lost, o.printed)
\* A mutant: a row does not move the baseline of the next.
PrintedKept(o) == o.printed
Printed(o) == IF o.latest = None THEN o.printed ELSE o.latest.lost

\* One full update: omitted, skipped by --interval, or printed.
PrintRow(o, u) ==
    LET p == [o EXCEPT !.bytes = @ + u.bytes] IN
    CASE u.at <= conf.omit -> [p EXCEPT !.printed = Printed(o)]
      [] u.at > conf.omit /\ (conf.quiet \/ u.at \div conf.every < o.row) -> p
      [] OTHER -> [p EXCEPT !.row = u.at \div conf.every + 1, !.rows = @ + RowLoss(o, u),
                            !.printed = Printed(o), !.guess = @ \/ (conf.cum /\ o.latest = None)]

\* The print loop takes one update.  A feedback-only update may print a line of cumulative
\* figures when rows have stalled, and never moves the baseline of the rows.
PrintLoop ==
    LET u == Head(queue)
        o == [out EXCEPT !.latest = Latest(@, u.prog), !.recv = Latest(@, u.recv)] IN
    /\ conf.ui = "print" /\ phase # "done" /\ queue # <<>>
    /\ queue' = Tail(queue)
    /\ out' = IF u.full THEN PrintRow(o, u) ELSE o
    /\ UNCHANGED <<conf, rx, gaps, was, server, ctl, slots, filter, hand, own, tui, phase, result>>

\* The summary waits for the print task, which ends when every sender is gone.
PrintSummary ==
    /\ conf.ui = "print" /\ phase = "joined" /\ phase' = "done"
    /\ queue = <<>> /\ hand["feedback"] = None
    /\ out' = [out EXCEPT !.bytes = result.bytes]
    /\ UNCHANGED <<conf, rx, gaps, was, server, ctl, slots, filter, hand, own, queue, tui, result>>

-----------------------------------------------------------------------------
\* No run is displayed yet.
Init ==
    /\ phase = "idle" /\ conf = None /\ rx = None /\ gaps = None /\ was = None /\ server = None
    /\ ctl = None /\ slots = None /\ filter = None /\ hand = None /\ own = None /\ queue = None
    /\ tui = None /\ out = None /\ result = None

\* A run of kind c starts: fresh counters, an empty channel, a fresh display.
Begin(c) ==
    LET ids == 1 .. c.streams IN
    /\ phase = "idle" /\ phase' = "running"
    /\ conf' = c
    /\ rx' = [d \in Dirs |-> [s \in ids |-> Zero]]
    /\ gaps' = [d \in Dirs |-> 0]
    /\ was' = [d \in Dirs |-> [s \in ids |-> {Zero}]]
    /\ server' = [sent |-> 0, got |-> 0, lost |-> 0]
    /\ ctl' = <<>> /\ queue' = <<>>
    /\ slots' = [s \in ids |-> Zero]
    /\ filter' = None
    /\ hand' = [p \in {"control", "feedback"} |-> None]
    /\ own' = [base |-> 0, sent |-> 0]
    /\ tui' = [latest |-> None, prev |-> None, first |-> None, recv |-> None, bytes |-> 0, lost |-> 0,
               prevLost |-> 0, logged |-> 0, age |-> 0, bars |-> FALSE,
               bar |-> [packets |-> 0, lost |-> 0], drawn |-> [packets |-> 0, lost |-> 0]]
    /\ out' = [latest |-> None, recv |-> None, bytes |-> 0, printed |-> 0, row |-> 0, rows |-> 0,
               guess |-> FALSE]
    /\ result' = [bytes |-> 0, lost |-> 0]

Next ==
    \/ \E s \in Streams : \/ \E d \in Dirs : Receive(d, s)
                          \/ store_udp_feedback(s)
    \/ SendInterval
    \/ FeedbackTick \/ FeedbackSend
    \/ ReadInterval \/ LocalReport \/ LocalDirection \/ send_progress_until_cancelled
    \/ UserCancel \/ ReadResult \/ JoinThenOverlay
    \/ tick \/ Elapse \/ on_progress \/ on_result
    \/ PrintLoop \/ PrintSummary

-----------------------------------------------------------------------------
LossDir == IF conf.dir = "download" THEN "down" ELSE "up"

\* No loss is reported twice: however readings of the two channels overtake each other, the printed
\* rows, the bars and the logged events together never show more losses than the receiver's gaps,
\* although a late packet takes a loss back off the count (main.rs:2107, tui/app.rs:676 and 918).
\* One stream only: the sum over several streams can mix an old reading of one with a new one of
\* another, which neither count reveals.  And not after a row printed before any reading arrived: a
\* reading the filter has passed but the printer has not seen makes the row fall back to the
\* Interval's own loss, which the next row counts again.
LossCountedOnce ==
    phase # "idle" /\ conf.streams = 1 =>
        /\ out.guess \/ out.rows <= gaps[LossDir]
        /\ tui.drawn.lost <= gaps[LossDir]
        /\ tui.logged <= gaps[LossDir]

\* Bars tile the test: with stalls, backlog flushes and gap repairs, the bars drawn cover exactly the
\* packets between the first reading and the last one drawn, and no bar shows more losses than
\* packets (tui/app.rs:603, "both its loss and packet counts span the same window").
BarsTile ==
    phase # "idle" =>
        /\ tui.prev # None => tui.drawn.packets = Expected(tui.prev) - Expected(tui.first)
        /\ tui.bar.lost <= tui.bar.packets

\* Bytes are shown once: live totals never exceed what the receivers counted, and the totals of the
\* summary are the receivers' final counts, those of packets that arrive after the Result included
\* (client.rs:170 and 1733, "after the join above").
BytesShownOnce ==
    phase # "idle" =>
    LET counted == Total(rx["up"]).got + Total(rx["down"]).got
        shown == IF conf.ui = "tui" THEN tui.bytes ELSE out.bytes IN
    shown <= counted /\ (phase = "done" => shown = counted)
=============================================================================
