# A TLA+ model of xfr

xfr measures network throughput between a client and a server over TCP, UDP or
QUIC. This directory models the parts of it where tasks, timers, channels and
connections interleave, checks them with TLC on small instances and proves the
main invariants with TLAPS for every value of the constants.

## The system

| part | source | state it keeps | operations | interacts with |
|---|---|---|---|---|
| byte budget, pause, send loops | `budget.rs`, `pause.rs`, `tcp.rs`, `quic.rs`, `udp.rs` | the shared atomic counter of a `-n` test; per stream: chunk offset, claim, byte count, the watch versions it has seen | claim, write, refund, count, pace, wait while paused, close | every stream of a test shares the counter; `cancel_tx` and `pause_tx` drive the loops |
| report loop | `serve/reporting.rs`, end of `run_test` and `run_quic_test` | pause clock, the frame in flight, the pending sample, drain window, completion times | one `select!` branch per event, then cancel, join, flush | the control reader (commands), data tasks (done channels, counters), the client (frames) |
| admission | `Server::run_until`, `handle_new_connection`, `rate_limit.rs` | two semaphores, the limiter's map, the shutdown channel | accept, classify, take and return permits and slots, clean up, shut down | both accept loops, every connection task |
| handshake and test request | `serve.rs` 1310-2030, `auth.rs` | negotiated capabilities, PSK transcript | Hello, auth, TestStart, TestAck | client, ACL, active tests |
| stream collection | `serve.rs` 1167-1215, 3343-3576 | which stream indices arrived | route a DataHello, start a handler, give up after 30 s | accept loop, report loop |
| UDP hello dispatcher | `serve.rs` 172-428, `udp.rs` 150-410 | routes by token, connected sockets | check, dispatch, acknowledge a hello | client retries, lossy network |
| receive loops, loss accounting | `tcp.rs`, `quic.rs`, `udp.rs` | the UDP loss window, jitter, byte counts | receive, track, linger, feed back | senders, statistics |
| client | `client.rs` | control state, local deadline, overlay of local counters, progress filter | connect, start, read control messages, cancel, finish, pause | server, TUI |
| control protection | `control_crypto.rs` | keys and sequence numbers per direction | seal, open, frame, split | control reader and report loop |
| statistics | `stats.rs` | counters, interval history | record, aggregate, result | report loop, outputs |
| MTU probe | `probe.rs` | search bracket | next size, record a verdict | UDP responder |
| client program | `main.rs`, `tui/`, `output/push_gateway.rs` | the run shown, quit deadline, what the screen has accumulated | keys, poll, restart, summary, metrics | the client library through its controls and progress channel |
| options and settings | `main.rs`, `config.rs`, `tui/settings.rs` | configuration, the Settings dialog | load, resolve, refuse, edit, apply | sockets of the client, start of the server |
| server start | `Server::run_until`, `net.rs`, `quic.rs`, `acl.rs` | listener, UDP socket, capabilities, access lists | bind, self-test, advertise, build, shut down | other servers on the machine, the kernel |
| saved files | `persistence.rs`, `prefs.rs` | result and preference files | inspect, write, sync, rename | crashes |
| text outputs, discovery, updates | `output/`, `diff.rs`, `discover.rs`, `update.rs` | none that interleaves | format, query | finished results |

What makes it hard: data tasks on several threads share counters with no lock;
`select!` picks any ready branch, so ticks, deadlines, commands, EOFs and writes
come in any order; a client may stop reading, pause for ever, disconnect or
finish at any moment; a byte-budget test has no clock that ends it; permits and
per-address slots are taken in opposite orders by the two transports; loss
readings reach the client over two channels that overtake each other; a user
quits, pauses and restarts while a run is in any state; the shared UDP port is
not exclusive.
`PROJECT.json` lists these places line by line under `hazards`, with the
properties that would catch each going wrong.

What correctness means, part by part: a `-n` transfer delivers exactly N bytes
(or the datagram-rounded N over UDP) and every sender ends; the client receives
every sampled byte once, frames in sequence, the terminal messages in order and
a Result made of final totals; every test ends whatever the client does; limits
on tests are exact and no slot or permit leaks; a one-off server stops after a
completed test and not before; peers agree on a key and on what was asked for, or
the session ends on both sides; every UDP stream has one server socket; a probe
reports what the path carries; quitting ends, and what is shown and saved belongs
to the run it is shown for; a run and a server are what the options said.

## Modules

| module | what it is |
|---|---|
| `SendLoops` | the send loops of one `-n` test and their budget |
| `Transfer` | what `-n` promises, independent of streams: the abstract specification `SendLoops` implements |
| `Reporting` | one running test on the server: report loop, control reader, data tasks, end of test |
| `Admission` | both accept loops, semaphores, rate limiter, one-off shutdown |
| `Streams` | the TCP data plane of one test: routing, collection, handlers, done channels, descriptors |
| `PacketTracker` | the sequence accounting of a UDP receiver, as operators on its record |
| `UdpReceive` | the UDP receive loop of one stream and its drain, over a lossy, repeating, reordering network |
| `Handshake` | the control connection of one session, both peers, with symbolic cryptography |
| `UdpHello` | hello handshakes of a UDP test on one port: client retries, tee, dispatcher, route, re-acks |
| `MtuProbe` | the size search, its driver and the responder |
| `Setup` | the three composed: a session from its first Hello to its data, or to a probe's report |
| `ClientRun` | one run of the client library with its controls |
| `Save` | one save of a file, with crashes |
| `Session` | the client program around `ClientRun` and `Save`, in both interfaces |
| `LossDisplay` | UDP loss and bytes from the receiver's counters to the screen |
| `Options` | configuration files, options, local ports, the Settings dialog |
| `ServerStart` | servers that start and stop on one machine, and their access lists |
| `Launch` | `Options` composed with the run (`LossDisplay`) or the servers (`ServerStart`) they lead to |
| `MC*` | the same modules with model values, the tests of each run and symmetry sets |
| `*Proofs` | theorems and their TLAPS proofs |

Each module has a variable for what the client asked for (`test`; `one_off` in
`Admission`), chosen in `Init` from a constant set and never changed: one run
covers several kinds of test, and the proofs cover all of them.

### SendLoops

One process per stream. The loop bodies of `send_data`, `send_data_half`,
`send_quic_data`, `send_udp_paced` and `send_udp_unlimited` have the same
control; `test.proto` selects what differs: TCP resumes inside a chunk and may accept
zero bytes, QUIC accepts at least one, a UDP datagram goes out whole, is not
interruptible and its loop survives send errors. `Head` is the top of the loop (cancel, pause, deadline in that order),
`Wait` is `wait_while_paused`, `ClaimLoad`/`ClaimSwap`/`ClaimRetry`/
`ClaimNothing` are the atomic steps of `claim`, `Write*` the `select!` around
the write, `Refund` one `fetch_add`, `Count` the byte counter, `Pace` the pacing
sleep, `Close` what follows the loop. The watch channels are modelled by a value,
a version and the version each receiver marked, because `changed()` depends on
it. Deadlines are a single event, since each loop shifts its own by the time it
was paused; buffer contents, bitrates and kernel pacing are left out. The paced
UDP loop waits for its ticker before a burst rather than after a write: the model
allows the wait after each datagram, which adds interleavings and loses none
that touch the budget. Relaxed atomics on one counter are sequentially
consistent for that counter, and no other shared location is read for a
decision.

### Reporting

`Top` is the code between the start of the loop and its `select!`, each
`*Branch` one branch with the whole of its body. `EndRun` is everything from the
break to the join: the completion time, the flush deadline, dropping the
pending sample of a cancelled test, the cancel of the data tasks, the abort of
the reader. `Join` waits for the data tasks and takes the totals; the `Flush*`
actions are `Reporting::finish`; `Remove` is the clean-up that every exit passes.
The writer takes a frame in pieces and may stop for ever. Data tasks move bytes
and return; `SendTasks` and `RecvTasks` hold the handles of the two done
channels, which carry nothing and are closed when the last holder returns. The
byte counters of all streams are one sum. `now` is a millisecond clock of small
constants; it advances only when no timer of the loop is due. `pending.count`
is a ghost of how many samples were merged, and `rx*` is the client's decoder.

### Admission

A connection is a process with an address and a transport. TCP: ACL and
pre-handshake permit (`TcpAccept`), first line (`NoHello`, `Hello`), handler
permit (`TakePermit`). QUIC: ACL and handler permit (`QuicAccept`), slot
(`QuicCheck`), one connection at a time because one task does both. `Release`
saturates as the code does; `Cleanup` may remove any idle entry (the window is
abstracted to a choice). A handler task drops the rate-limit guard before its
permit (locals drop in reverse order), so the two are steps of their own.
`ServePanics` unwinds: TCP releases through `RateLimitGuard`, QUIC does not, so its slot
stays taken; `panicked` remembers whose, and `SlotsMatch` counts those and no others as lost.

### Streams

`RunTest` are the steps of `run_test` around the data plane, `Route(c)` the task
of an accepted connection, `Collect` the collection task and `HandlerTask`,
`ReceiveLoop` and `SendReturns` the handler of one stream. `CollectPoll` and the
two wake-ups keep the order of the biased `select!`: the cancel is looked at
before the channel, and may still come between the two looks. A done channel is
the set of those who hold a sender of it. The socket of a connection has the
lowest free descriptor, as the kernel gives them out, and `tcp_info_fd` is the
number the statistics keep; closing the socket, storing the last snapshot,
dropping the done handle and clearing the number are steps of their own, in the
order of the code. Bytes are units; what a connection carried before its handler
started stays in its socket. The send loop and the report loop, which have
modules of their own, may end at any time here; deadlines may expire at any time.

### PacketTracker and UdpReceive

A tracker is a record with the fields of the struct, and every method an operator
with the code's arithmetic: saturating sums, the index modulo the window, the
word masks of `clear_range`, the two ranges of a wrap. `UdpReceive` adds the loop:
`Top`, one action per branch of its `select!`, the wait while paused, and the
drain. Every datagram of the sender is on its way from the start and may arrive
any number of times, in any order or never, so the number sent so far needs no
variable. `ref` is a ghost: the set of sequences that count as received, by a
definition that knows only the set and its maximum. A control datagram is a
`continue` in the loop and decodes to the largest sequence in the drain, as the
comment before the drain says. The byte count, datagram size and jitter are
written by the loop and never read by it.

### Handshake, UdpHello, MtuProbe and Setup

`Handshake` has the two ends of a control connection (`cl`, `sv`) and the frames
between them. A protected frame is a record of its key and number and opens only
with both; a response or proof is the record of what it authenticates, both
Hellos included, so a Hello that lost one capability on the way (`AlterHello`) is
noticed where the code notices it. `OnServerHello`, `OnAuth`, `OnStart` and the
others are whole handlers; the TCP and QUIC variants differ in which capabilities
they look at. A refusal over QUIC may be lost with the connection, as the code
drops it without finishing the stream; only an authentication failure waits.

`UdpHello` is the single-port lane: the client sends a hello per stream and waits
for its ack or its data, with retries; the tee (`Divert`) passes hellos to the
dispatcher while its channel has room; `Dispatch`, `MakeSocket` and `StoreSocket`
are the three parts of the dispatcher between which it holds no lock; retries that
reach the connected socket are acked there (`Reack`). Sockets stay open while
someone holds them. Tokens, which keep sessions apart, are left out: one test is
followed. `MtuProbe` keeps the program's ladder and bounds; a packet is its kind,
number and size. `Setup` starts one or the other when the peers have agreed, and
carries the probe's end back to the control connection. The probe is composed with
a data port of its own (an older server), not with the shared port.

### ClientRun, Session and Save

`ClientRun` is `Client::run` after the connection: one action per `select!` arm of
`run_test` and `run_quic_session`, the join of the streams, the QUIC close, and
the abort of its future at any step. Deadlines are countdowns. A control write may
block for good; Cancel is bounded by a timeout in the code, Pause, Resume and
Finish are not. `Session` adds the loops of `main.rs`: `Poll`, one action per key,
the restart with its wait, the plain mode with its interrupts, then the summary,
the saved result, the deliveries of metrics and the preferences. The handling of
an Interval is one step with its arrival. The pause shown on the screen, the
attempts of one delivery and edits of preferences are abstracted. `Save` is
`write_with`: inspect, temporary file, write, sync, rename, or the direct write
where no rename is possible; a crash keeps only what was synced.

### LossDisplay

A packet is one byte. Receivers count packets (`Receive`) and the server sends
Intervals in order; any earlier reading may arrive as a feedback datagram, which
stands for loss, repetition and reordering. `filter` is the producers' freshness
filter, `hand` what each producer holds while the progress channel is full,
`tui` and `out` the consumers. In a bidirectional test the server reports its
receive side only. The pause and the timing of feedback are left out.

### Options, ServerStart and Launch

`Options` starts from an invocation (a record of what the user gave; what cannot
be parsed is the set `bad`) and files in every state, and ends in a refusal, a
server's configuration or a client's run with the local ports of its control
connection and streams. The dialog is the real one, with its focus and buttons,
without the items that only concern the display. `ServerStart` runs two servers
through the steps of `run_until` up to their accept loops, in any interleaving,
on kernels with and without MPTCP and with each outcome of the self-test, with
the port free or held by another program. A socket is the set of addresses it
covers. A server that stops gives up its two sockets in either order, because the
endpoint's task may hold the UDP socket until the process is gone. `Launch` hands
a started run or server on and forgets the options, which keeps the three parts of
the state space side by side instead of multiplied.

## Runs

| run | shows | result |
|---|---|---|
| `sendloops` | two streams over TCP, QUIC (timed, paced) and UDP (timed, paced): budget conserved, spent means delivered, unclaimed bytes have a taker, implements `Transfer`, the loops end after a cancel and when not left paused | holds |
| `reporting` | a timed TCP download, a TCP `-n` upload with a duration, a bidirectional QUIC `-n` test: nothing sampled is lost, sequence unbroken, terminal order, rows and duration inside test time, final totals, the drain is honoured | holds |
| `reporting_live` | a timed UDP upload and a bidirectional QUIC `-n` test end: cancel, lost reader, deadline, completion | holds |
| `reporting_udp_drain` | the UDP drain window, as the comments describe it | violated, see findings |
| `admission` | both transports, one-off or not: slots, permits and limits through refusals, cleanup and panicking handlers of either transport, pre-handshake permits left for data connections beside one-off tests; a one-off server stops after a completed test and only then | holds |
| `streams` | `-n` upload, download and bidirectional tests on the single port and a legacy upload, connections of the client and of a stranger: one handler per stream, closed means over and no done handle survives its task, every stream and byte is accounted for in a settled Result, live descriptors are the stream's own and none outlives its handler | holds |
| `streams_live` | the same tests: no connection, listener or handler outlives the test; the join ends | holds |
| `udp_receive` | six datagrams, one stray and any control datagrams, a window of four: the loss is exact by a reference definition and a stray strands nothing, progress is monotone and the drain only repairs, the task ends after a cancel and after silence | holds |
| `setup` | every pairing of keys, versions, capabilities and requests over TCP and QUIC, an altered Hello, a two-stream UDP test with losses and late timers, probes over four paths: tests only between equal keys, nothing asked for is silently dropped, one socket per stream before its data, setups fail for a reason, probe reports are right, every setup settles | holds |
| `setup_probe_psk` | messages after the handshake are protected, for a probe between peers with a key | violated, see findings |
| `client` | both interfaces, a timed TCP, an endless UDP and a QUIC `-n` run, with pauses, quits, restarts, dead links and crashes: the summary, file and metrics are of this run, a pause takes nothing from the duration, no stream goes on untold, files survive, a quit ends | holds |
| `launch` | options at and beyond their limits by topic, edits in Settings, two servers on one machine, eleven kinds of display: runs start as configured, a server answers where no socket of another starting or serving one does, losses and bytes are shown once and bars tile the test | holds |

The properties, by run: `sendloops`: `BudgetConserved`, `SpentMeansDelivered`,
`UnclaimedHasTaker`, `ImplementsTransfer`, `LoopsEnd`; `reporting`:
`NothingSampledIsLost`, `SequenceUnbroken`, `ResultIsFinal`, `TerminalOrder`,
`RowsInTestTime`, `DrainHonoured`; `reporting_live`: `TestEnds`;
`reporting_udp_drain`: `DrainHonoured`; `admission`: `SlotsMatch`, `PermitsMatch`,
`LimitsHold`, `OneOffEnds`; `streams`: `OneHandlerPerStream`, `DoneMeansOver`,
`StreamsAccounted`, `LiveDescriptorOwn`; `streams_live`: `CleansUp`;
`udp_receive`: `LossExact`, `ProgressMonotone`, `ReceiverEnds`; `setup`:
`OnlyWithTheSameKey`, `NothingDowngraded`, `StreamsHaveSockets`,
`SetupFailsForAReason`, `ProbeReportRight`, `SetupSettles`; `setup_probe_psk`:
`ControlIsProtected`; `client`: `SummaryIsOfThisRun`, `FullDuration`,
`NoStrayTraffic`, `FilesSurviveCrash`, `QuitEnds`; `launch`: `StartsAsConfigured`,
`ServersApart`, `LossCountedOnce`, `BarsTile`, `BytesShownOnce`.

Each property of a passing run has a mutant in `PROJECT.json`: an operator in the
module, marked `Mutant`, that changes one definition the way a bug would, and
under which TLC finds the property violated.

### Bounds

Two streams are enough for every race on the counter: a claim or refund meets at
most one other access between its load and its exchange, and a third stream adds
only more of the same. A budget of three with a chunk and a header of two gives
short grants, partial writes, wrapped offsets and a UDP tail smaller than the
header. `MaxToggles` allows one pause or one resume, and a test may start paused.
In `Reporting`, the clock runs over at least three ticks, so that samples are
merged behind a blocked frame of two pieces, and over at least one deadline;
`MaxNow` stops only an idle clock (`Awaited` lets every pending deadline pass),
and `MaxCmds` is far below the 16 slots of the command queue, so the queue's
bound never matters. In `Admission`, three connections come from four addresses,
one of them not allowed. With two handlers and one slot per address, three allowed
addresses can break the limit of tests and two connections of one address that of the
address, each without the other; both are met in each order of refusal. `Clients` is one
assignment of addresses and transports to connections from each class under renaming,
since nothing tells connections or allowed addresses apart. The pre-handshake semaphore
(`4 * MaxConcurrent`) is not exhausted. In
`Streams`, two connections for two streams give every duplicate index, a channel
that fills (`streams_live`, one stream) and every order of two handlers; one unit
of data is there before the handler starts, after it started, or when it ends.
In `UdpReceive`, a window of four positions in words of two bits wraps within six
datagrams and is left behind by an outage at the start; the stray is more than a
window from all of them, and an idle timeout of one tick already has a timer that
fires early and is armed again. In `Setup`, two streams with two attempts and a
hello channel of one place let a hello be refused, retried and answered twice; one
network fault per test fails one attempt, not both; each path of a probe has its
own number of faults, as many as one size has attempts where that matters. In
`Session`, every countdown is one tick except the program's own wait, which is longer
than the library's; two runs and two presses give a restart and a pause that is
resumed. In `Launch`, ports end at 6 and ephemeral ones overlap the pinned ones,
a second has two ticks so that durations need not be whole, three edits reach every
protocol from every other, and invocations are unions of sets that vary one topic
each; the display has up to three packets and reports, a queue of two and a
reading of every age. Symmetry is used only in `streams`, which has no temporal property.

### Fairness

`SendLoops`: weak fairness of each loop (tokio runs every runnable task); strong
fairness of a successful claim and of a write of at least one byte (a weak
compare-exchange does not fail for ever, and a reading peer lets a retried write
through). Nothing is assumed of the client's pause and cancel. `Reporting`: the
loop's own steps, time, and the return of cancelled data tasks, which
`SendLoops` establishes for senders; no write is ever owed. `Admission`: tasks
that wait for nobody are run and both accept loops see the shutdown value;
strong for QUIC, whose loop is between two of its steps while it checks a
connection. `Streams`: every task that can run does; the first line, the
collection and the drain have timeouts in the code; a cancelled send loop returns
(`SendLoops`); the report loop is not assumed to end. `UdpReceive`: strong fairness
of the cancel and timer branches, since `select!` picks at random among the ready
ones, and time passes; no datagram is owed. `Setup`: both peers' tasks, the
dispatcher, the responder and the timers run; the network owes nothing, but its
faults are bounded, so a retry gets through in the end. `Session`: the program's
tasks, timers and saves; nothing of the user, the server or a write to it.
`Launch` has no temporal property.

## Proofs

Eight modules hold the theorems. Each rests on an inductive invariant that TLC
checked first and that is proved with one lemma per action; the invariant is a
conjunction of named parts, and what it adds to the property is said below. The
assumptions are those on the constants, named in the modules that declare them,
and evaluated by the runs. One result has a hypothesis of its own: `DrainEnds`
(no UDP test with a byte budget); the first finding below is why.

- `SendLoopsProofs`. `BudgetConserved` is stated with cardinalities of sets of
  numbered bytes; the lemmas on `Total` say how one stream's change moves the
  sum. The invariant adds to it what each label implies: a claim is held only
  between exchange and refund, `cur` is at most what was ever in the counter, a
  stream that gave up saw an empty counter. `UnclaimedHasTaker` needs the
  last: without it a refund could follow the last stream's departure.
  `RefinesTransfer` shows that the loops implement `Transfer`. It needs
  `TailInv` as well: a UDP budget's last, shorter piece is in one place at a
  time, the counter, a single claim, the network or what was dropped, so that
  what is missing at the end is that piece, and only when it is shorter than a
  header. Its arithmetic is in `AddChunk`, `AddLess` and `Remainders`.
- `ReportingProofs`. The invariant relates the one frame slot, the pending
  sample, the codec's counter and the decoder (`SlotInv`), the clock and the
  samples (`ClockInv`) and the position in `run_test`; `NothingSampledIsLost`,
  `SequenceUnbroken` and `ResultIsFinal` follow. Three more are proved on top of it.
  `OrderInv` says what `Reporting::finish` still owes and what must be in the slot
  or with the client by then; `LastWords` (`TerminalOrder`) follows. `TimeInv`
  orders the times of the client's last row, the slot's and the pending one by
  test time, which a pause leaves where it was (`PauseInv`), and bounds it by
  the deadline as long as the loop runs (`DeadlineKept`, which is where the
  runtime's serving a timer before the clock goes on is used); `InTestTime`
  (`RowsInTestTime`) follows. `DrainEnds` (`DrainHonoured`) needs only that a drain
  belongs to a test with a budget.
- `AdmissionProofs`. Slots and permits are counted by the labels of the
  connections; lemmas on cardinality say what moving one connection does. Handlers of
  either transport may panic: a slot that leaked is counted by `panicked`, and it only
  tightens the limits. `StopsForAReason` is the safety half of `OneOffEnds`.
- `StreamsProofs`. The invariant says that the channel holds each waiting
  connection once, that every handler's index is a received one and its own,
  that open sockets have different descriptors and running loops their own, and
  who holds the done channels until when. `HolderInv` adds the converse, that whoever
  holds a done handle has a reason to, so that none survives (`DoneMeansOver`). Uniqueness of indices is what keeps
  one handler from moving another's descriptor or snapshot, so it is part of the
  invariant under all results. `AccountInv` adds where every unit of data is until
  the cancel, whose snapshot a stream has, and that the lookup of a client's own
  connection never finds the test missing; `AllAccounted` (`StreamsAccounted`) and
  `DescriptorsAreLive` (`LiveDescriptorOwn`) follow.
- `UdpReceiveProofs`. `Exact(t, C)` says of a tracker and the set of numbers that
  count that its high-water mark, its received and lost counts and the bits of
  its window are those of the set; a lemma per way of recording a packet says
  that it is kept, and cardinality lemmas carry the counts. `LossIsExact` adds where a stray
  number may be held, `ProgressGrows` (the action property `ProgressMonotone`) that
  what was published is behind the tracker.
- `SetupProofs`. The handshake's invariant says which frames may be on their way
  and under which key, so that a TestStart read under a key was written by one who
  has the same pre-shared key, and what each side has verified of the other by the time it
  goes on. For the UDP hellos, `SocketInv` says that whatever tells of a
  stream's socket (a handler, a route, an ack in flight, a client that is done)
  follows its making, and `CountInv` that each of a stream's attempts cost a mishap but the
  live one: a set-up fails for a reason only because of that count. For the probe,
  `BracketInv` and `RungsInv` keep the limit between `low` and `high`, `SizeInv`
  and `PacketsInv` say what a reply proves about the size in hand, and
  `AttemptsInv` that a size the path carries fails only by faults.
- `SessionProofs`. `RunInv`: streams run only between their start and the moment
  they are told to stop; without a cancel request the time they ran and what is left on
  the local clock make up the duration. `UiInv`: the steps of a save between which
  the path changes, whose save it is, and which run the bytes, the result and the
  deliveries are of. Four theorems follow, one for each property of the run.
- `LaunchProofs`. `ServersInv` says what a server has bound at each stage of its start
  and that two listeners of one port never overlap: because a server binds TCP first,
  one that has reached its UDP bind shares no address with another (`ServersApart`); `OptionsInv` follows the configuration
  from the chosen file through Settings to the run: which of its fields only
  Settings may have changed, what the dialog can show, and which checks a run of
  each stage has passed. `DisplayInv` follows the display and has four parts.
  `Shape` gives the types, what a direction that does not count holds, and that no
  report is ahead of the counters. `BarInv`: the reading last drawn is never fresher
  than the cached one, and the bars drawn add up to the packets since the first.
  `BytesInv` accounts for bytes on their way: what is shown, the queue, the update in
  the control loop's hand and the Intervals sent climb in that order to no more than
  the server and the client had reported (`Flows`, a chain of marks rather than a sum
  over a sequence; a dropped update only leaves slack). `LossInv` is for one stream, where every reading is
  one that its counters have had: a function `h` gives each the gaps opened by then,
  and it rises with the packets received by at least as much as the loss count does,
  which late packets may take back (`Rises`); bars, rows and log lines stay within `h` at
  the reading they start from. An older server, which sends no readings, has the losses of its
  Intervals accounted for like the bytes. TLC checked all four, with the gap counts
  for `h`, on the whole of the run `launch`. `BarsCover`, `BytesCounted` and
  `LossesCounted` follow.

Trying to prove found places where the model said more, or less, than the code:
conditions written as `CASE` whose guards overlapped, where TLA+ leaves the choice
open and the code takes the first (`AckMode` of `Handshake`, `load_from` of `Options`); a step of a save
after the program had crashed (`Session`); assumptions on constants that were
used and not stated (`PacketTracker`, `UdpReceive`, `Options`, `ServerStart`,
`LossDisplay`).

Proved but in no run: the type invariants, and `CountNeverAhead` of `SendLoops`.
Left to TLC: liveness (`LoopsEnd`, `TestEnds`, `CleansUp`, `ReceiverEnds`,
`SetupSettles`, `QuitEnds` and the second half of `OneOffEnds`), which needs fairness
and ENABLED. Totals over streams are cardinalities of sets of numbered units
(`Total` of `SendLoops` and of `LossDisplay`), because what a fold computes cannot be
proved here; TLC evaluates them all the same.

## Findings

- A UDP `-n` upload has no drain. `serve.rs:57` and `serve.rs:2669` say that for
  UDP the grace window ends the test, but the branch on `recv_done_rx`
  (`serve/reporting.rs:336`) is also enabled for UDP while draining, and its
  channel is closed from the start, so `Finish` ends the drain at once.
- An MTU probe with a pre-shared key does not deliver its report.
  `run_mtu_probe_exchange` (`client.rs:2082`) writes its Cancel and reads the Result as
  plain lines on a control channel whose key is installed, where
  `control_crypto.rs:319` has "all post-auth control messages flow through this".
  The passing run has no probe with a key for this reason.

Seen while modelling; a property of the passing runs takes it into account, excludes it
or is not affected:

- A QUIC handler that panics keeps its address's slot (`serve.rs:850`): the
  release is a call after the handler, where the TCP path holds the guard that
  "ensures cleanup happens even if the task panics" (`rate_limit.rs:121`). It is in
  the run and the proofs of `Admission`: the slots lost are these and no others.
- The descriptor a stream polls for TCP_INFO is cleared after the socket was
  closed (`serve.rs:3560`); until then a sample may read another connection's
  (`stats.rs:107`, "prevent stale fd reuse after stream closes"). `LiveDescriptorOwn`
  is about descriptors of open sockets, and says that a closed one is gone with the
  handler's task; it claims nothing of a sample in between.
- With several streams the sum of the feedback slots mixes old and new readings, so
  that a delayed Interval may replace a fresher reading; `client.rs:592`, "can never
  clobber", holds for one stream.
- The plain printer's first row falls back to the Interval's own loss when the
  filter has passed a reading the printer has not seen, and the next row counts it
  again (`main.rs:2096`).
- Pausing after a Cancel makes the library's wait for the Result unbounded
  (`client.rs:96`); the program's 5 s bound it. Pause, Resume and Finish are written
  without a timeout.
- A restart drops a result that arrived just before it; leaving the error screen does
  not save the preferences; a failed save of the result returns before the metrics
  are finished; a held `q` starves the poll until the deadline, which gives a partial
  summary.
- Any edit in Settings cuts a fractional duration to whole seconds
  (`tui/settings.rs:149`); it never becomes 0, which would mean endless, because a
  duration below a second is refused at start-up. Settings can also start several
  streams with `--bind IP:port`, which the command line refuses; they get
  consecutive ports. Closing the dialog keeps edits that were not applied.

## Not modelled

- Drawing, themes, help and the server's dashboard (`tui/ui.rs`, `widgets.rs`,
  `theme.rs`, `server.rs`), text, CSV and JSON outputs, comparison of results,
  discovery and the release check: functions of a finished value or calls of a
  library, with no state of their own that interleaves.
- Prometheus gauges and the server's pushes; the attempts of one delivery.
- `receive_quic_data` and how a QUIC session opens and accepts its data streams;
  the legacy per-stream UDP sockets of older clients; the unused
  `route_connection` and `spawn_tcp_handlers`.
- Zero copy, TCP_INFO, DSCP and buffer sizes: system calls whose outcome decides
  nothing in the modelled control.
- Which data connections are refused when the pre-handshake permits run out: that
  would need `Admission` and `Streams` composed. In `Admission` a data connection is
  one that ends without a Hello, and `LimitsHold` says how many permits are left to
  such connections beside the tests of a one-off server.

## Plan

What is left: `Admission` composed with `Streams`, the data streams of a QUIC session,
and live gauges of concurrent tests.
