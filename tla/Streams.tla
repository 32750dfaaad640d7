------------------------------ MODULE Streams ------------------------------
(***************************************************************************)
(* The TCP data plane of one test on the server: how data connections find *)
(* their test, and what their handlers do until the test is over.          *)
(*                                                                         *)
(* run_test registers the test in active_tests, sends TestAck, starts the  *)
(* collection task (spawn_tcp_stream_handlers) and drops its own handles   *)
(* of the two "done" channels.  Data connections are accepted by tasks of  *)
(* their own: with a single port (handle_new_connection, DataHello,        *)
(* route_data_hello) or, for legacy clients, by one listener per stream.   *)
(* They reach the collection task through a channel that holds at most     *)
(* NumStreams connections, and the collection task starts one handler for  *)
(* each valid, new stream index.                                           *)
(*                                                                         *)
(* Abstracted: the bytes of a stream (units), the send loop (SendLoops has *)
(* it: here it ends at some time, and after a cancel it does end), the     *)
(* report loop (Reporting has it: here it ends or fails at some time) and  *)
(* clocks (a deadline may expire at any time).                             *)
(***************************************************************************)
EXTENDS Integers, Sequences, FiniteSets

CONSTANTS
    Conns,       \* the data connections that may be opened
    NumStreams,  \* streams of the test
    MaxIndex,    \* the largest stream index a DataHello names
    Tests,       \* the tests a client may ask for, a set of TestStart records
    Kinds,       \* who connects: subset of {"own", "stranger", "unknown"}
    MaxUnits,    \* data units a client puts into one connection
    NoConn       \* no connection

\* direction: as the server sees it; single_port: client_supports_single_port;
\* budget: byte_budget.is_some(), so that the done channels are in use
TestStart == [direction   : {"upload", "download", "bidir"},
              single_port : BOOLEAN,
              budget      : BOOLEAN]

ASSUME StreamsAssumption ==
    /\ NumStreams \in Nat \ {0}
    /\ MaxIndex \in Nat
    /\ Tests \subseteq TestStart
    /\ Kinds \subseteq {"own", "stranger", "unknown"}
    /\ MaxUnits \in Nat
    /\ NoConn \notin Conns
    /\ "run_test" \notin Conns
    /\ "collection" \notin Conns

VARIABLES
    test,           \* what the client asked for
    main,           \* where run_test is
    active_test,    \* the entry in active_tests: "absent", "present", "removed"
    cancel,         \* the value of the cancel watch channel
    at,             \* at[c]: where connection c is
    idx,            \* idx[c]: the stream index c was opened for
    kind,           \* kind[c]: "own" is the client itself, with its test id
    fd,             \* fd[c]: the descriptor of c's socket, NoFd when closed
    listening,      \* legacy mode: the streams whose listener is open
    queue,          \* the data_stream channel
    coll,           \* where the collection task is
    received,       \* the stream indices the collection task has seen
    half,           \* half[c][d]: the loop of handler c in direction d
    sending_done,   \* who holds a sender of the sending_done channel
    recv_done,      \* who holds a sender of the recv_done channel
    tcp_info_fd,    \* StreamStats::tcp_info_fd
    final_tcp_info, \* StreamStats::final_tcp_info: whose snapshot it is
    sent,           \* units the client put into c
    avail,          \* units of c in the server's socket buffer
    fin,            \* the client ended c: "no", "eof" or "reset"
    counted         \* StreamStats::bytes_received, in units

vars == <<test, main, active_test, cancel, at, idx, kind, fd, listening, queue, coll,
          received, half, sending_done, recv_done, tcp_info_fd,
          final_tcp_info, sent, avail, fin, counted>>

connVars  == <<at, idx, kind, fd>>
testVars  == <<test, main, active_test, cancel, listening>>
collVars  == <<queue, coll, received>>
doneVars  == <<sending_done, recv_done>>
infoVars  == <<tcp_info_fd, final_tcp_info>>
dataVars  == <<sent, avail, fin, counted>>

NoFd == -1

StreamIds == 0..(NumStreams - 1)

Halves == {"send", "recv"}

\* the loops a handler runs for the direction of the test
Loops == CASE test.direction = "upload"   -> {"recv"}
           [] test.direction = "download" -> {"send"}
           [] OTHER                       -> Halves

\* a handler was started for c
Handled(c) == at[c] \in {"taken", "moving", "ended", "stored", "released", "over"}

\* the tasks that may still put a connection into the channel
Senders == {c \in Conns : at[c] = "routing"}
           \cup {t \in {"active_tests"} : test.single_port /\ active_test = "present"}
           \cup listening

FdInUse == {fd[c] : c \in Conns} \ {NoFd}

\* the kernel gives a new socket the lowest descriptor that is free
LowestFree(f) == /\ f \in Nat \ FdInUse
                 /\ \A g \in 0..(f - 1) : g \in FdInUse

Init ==
    /\ test \in Tests
    /\ main = "setup"
    /\ active_test = "absent"
    /\ cancel = FALSE
    /\ at = [c \in Conns |-> "idle"]
    /\ idx = [c \in Conns |-> 0]
    /\ kind = [c \in Conns |-> "own"]
    /\ fd = [c \in Conns |-> NoFd]
    /\ listening = {}
    /\ queue = << >>
    /\ coll = "off"
    /\ received = {}
    /\ half = [c \in Conns |-> [d \in Halves |-> "none"]]
    /\ sending_done = {}
    /\ recv_done = {}
    /\ tcp_info_fd = [i \in StreamIds |-> NoFd]
    /\ final_tcp_info = [i \in StreamIds |-> NoConn]
    /\ sent = [c \in Conns |-> 0]
    /\ avail = [c \in Conns |-> 0]
    /\ fin = [c \in Conns |-> "no"]
    /\ counted = [i \in StreamIds |-> 0]

-----------------------------------------------------------------------------
(* run_test *)

\* Mutant: the test is stored only after the TestAck was sent
RegisterAfterAck ==
    /\ \/ main = "setup" /\ main' = "registered" /\ active_test' = "absent"
       \/ /\ main = "acked" /\ active_test = "absent"
          /\ active_test' = "present" /\ main' = main
    /\ listening' = IF test.single_port THEN {} ELSE StreamIds
    /\ UNCHANGED <<test, cancel, connVars, collVars, half, doneVars, infoVars, dataVars>>

\* open the legacy listeners, then store the test before the TestAck
Register ==
    /\ main = "setup"
    /\ main' = "registered"
    /\ active_test' = "present"
    /\ listening' = IF test.single_port THEN {} ELSE StreamIds
    /\ UNCHANGED <<test, cancel, connVars, collVars, half, doneVars, infoVars, dataVars>>

\* write_ack_or_cleanup succeeds
SendAck ==
    /\ main = "registered"
    /\ main' = "acked"
    /\ UNCHANGED <<test, active_test, cancel, listening, connVars, collVars, half,
                   doneVars, infoVars, dataVars>>

\* the connections in the channel are dropped with its receiver
DropReceiver ==
    /\ queue' = << >>
    /\ at' = [c \in Conns |-> IF at[c] = "queued" THEN "closed" ELSE at[c]]
    /\ fd' = [c \in Conns |-> IF at[c] = "queued" THEN NoFd ELSE fd[c]]

\* remove_active_test: the entry goes and the data handlers are told to stop
remove_active_test ==
    /\ active_test' = "removed"
    /\ cancel' = TRUE

\* write_ack_or_cleanup fails: the test is over before a collection task exists
AckFails ==
    /\ main = "registered"
    /\ main' = "gone"
    /\ remove_active_test
    /\ coll' = "over"
    /\ DropReceiver
    /\ UNCHANGED <<test, listening, idx, kind, received, half, doneVars, infoVars,
                   dataVars>>

\* create the done channels and start the collection task with its own handles
SpawnCollection ==
    /\ main = "acked"
    /\ main' = "spawned"
    /\ coll' = "poll"
    /\ sending_done' = IF test.budget /\ "send" \in Loops
                         THEN {"run_test", "collection"} ELSE {}
    /\ recv_done' = IF test.budget THEN {"run_test", "collection"} ELSE {}
    /\ UNCHANGED <<test, active_test, cancel, listening, connVars, queue, received, half,
                   infoVars, dataVars>>

\* Mutant: run_test forgets drop(recv_done_tx)
DropOwnHandlesButRecv ==
    /\ main = "spawned"
    /\ main' = "reporting"
    /\ sending_done' = sending_done \ {"run_test"}
    /\ UNCHANGED <<test, active_test, cancel, listening, connVars, collVars, half,
                   recv_done, infoVars, dataVars>>

\* drop(sending_done_tx); drop(recv_done_tx), and enter the report loop
DropOwnHandles ==
    /\ main = "spawned"
    /\ main' = "reporting"
    /\ sending_done' = sending_done \ {"run_test"}
    /\ recv_done' = recv_done \ {"run_test"}
    /\ UNCHANGED <<test, active_test, cancel, listening, connVars, collVars, half,
                   infoVars, dataVars>>

\* the report loop takes the client's Cancel
CancelCommand ==
    /\ main = "reporting"
    /\ ~cancel
    /\ cancel' = TRUE
    /\ UNCHANGED <<test, main, active_test, listening, connVars, collVars, half, doneVars,
                   infoVars, dataVars>>

\* the report loop is over: signal the handlers to stop
ReportEnds ==
    /\ main = "reporting"
    /\ main' = "joining"
    /\ cancel' = TRUE
    /\ UNCHANGED <<test, active_test, listening, connVars, collVars, half, doneVars,
                   infoVars, dataVars>>

\* the report loop returned an error: no join, straight to the clean-up
ReportFails ==
    /\ main = "reporting"
    /\ main' = "gone"
    /\ remove_active_test
    /\ UNCHANGED <<test, listening, connVars, collVars, half, doneVars, infoVars,
                   dataVars>>

\* the collection task and every handler it started have ended: send the Result
JoinHandlers ==
    /\ main = "joining"
    /\ coll = "over"
    /\ \A c \in Conns : Handled(c) => at[c] = "over"
    /\ main' = "joined"
    /\ UNCHANGED <<test, active_test, cancel, listening, connVars, collVars, half,
                   doneVars, infoVars, dataVars>>

RemoveTest ==
    /\ main = "joined"
    /\ main' = "gone"
    /\ remove_active_test
    /\ UNCHANGED <<test, listening, connVars, collVars, half, doneVars, infoVars,
                   dataVars>>

-----------------------------------------------------------------------------
(* accepting data connections and routing them to the test *)

\* the client opens data connections once it has the TestAck; others whenever they like
MayConnect(k) == k = "own" => main \notin {"setup", "registered"}

Opened(c, i, k, where) ==
    /\ at[c] = "idle"
    /\ MayConnect(k)
    /\ \E f \in 0..Cardinality(Conns) : LowestFree(f) /\ fd' = [fd EXCEPT ![c] = f]
    /\ at' = [at EXCEPT ![c] = where]
    /\ idx' = [idx EXCEPT ![c] = i]
    /\ kind' = [kind EXCEPT ![c] = k]

Closed(c) ==
    /\ at' = [at EXCEPT ![c] = "closed"]
    /\ fd' = [fd EXCEPT ![c] = NoFd]

\* the accept loop accepts c and starts handle_new_connection
Accept(c, i, k) ==
    /\ test.single_port
    /\ Opened(c, i, k, "hello")
    /\ UNCHANGED <<testVars, collVars, half, doneVars, infoVars, dataVars>>

\* no complete first line in time, or the peer closed or reset before one
FirstLineFails(c) ==
    /\ at[c] = "hello"
    /\ at' = [at EXCEPT ![c] = "unread"]
    /\ fd' = [fd EXCEPT ![c] = NoFd]
    /\ UNCHANGED <<testVars, idx, kind, collVars, half, doneVars, infoVars, dataVars>>

\* the DataHello line, read byte by byte so that no data behind it is consumed;
\* an unknown test id is turned away at once
DataHello(c) ==
    /\ at[c] = "hello"
    /\ IF active_test = "present" /\ kind[c] # "unknown"
         THEN at' = [at EXCEPT ![c] = "known"] /\ UNCHANGED fd
         ELSE Closed(c)
    /\ UNCHANGED <<testVars, idx, kind, collVars, half, doneVars, infoVars, dataVars>>

\* route_data_hello looks the test up again, under the lock, and compares addresses
RouteDataHello(c) ==
    /\ at[c] = "known"
    /\ IF active_test = "present" /\ kind[c] = "own"
         THEN at' = [at EXCEPT ![c] = "routing"] /\ UNCHANGED fd
         ELSE Closed(c)
    /\ UNCHANGED <<testVars, idx, kind, collVars, half, doneVars, infoVars, dataVars>>

\* a legacy listener accepts its one connection and is gone
LegacyAccept(c, i, k) ==
    /\ i \in listening
    /\ Opened(c, i, k, IF k = "own" THEN "routing" ELSE "turned")
    /\ listening' = listening \ {i}
    /\ UNCHANGED <<test, main, active_test, cancel, collVars, half, doneVars,
                   infoVars, dataVars>>

\* the listener task returns: a connection from another address is dropped
LegacyTurnAway(c) ==
    /\ at[c] = "turned"
    /\ Closed(c)
    /\ UNCHANGED <<testVars, idx, kind, collVars, half, doneVars, infoVars, dataVars>>

\* a legacy listener sees the cancel and returns
LegacyCancelled(i) ==
    /\ i \in listening
    /\ cancel
    /\ listening' = listening \ {i}
    /\ UNCHANGED <<test, main, active_test, cancel, connVars, collVars, half, doneVars,
                   infoVars, dataVars>>

\* tx.send(): waits while the channel is full
Enqueue(c) ==
    /\ at[c] = "routing"
    /\ coll # "over"
    /\ Len(queue) < NumStreams
    /\ queue' = Append(queue, c)
    /\ at' = [at EXCEPT ![c] = "queued"]
    /\ UNCHANGED <<testVars, idx, kind, fd, coll, received, half, doneVars, infoVars,
                   dataVars>>

\* tx.send() fails: the receiver is gone
EnqueueFails(c) ==
    /\ at[c] = "routing"
    /\ coll = "over"
    /\ Closed(c)
    /\ UNCHANGED <<testVars, idx, kind, collVars, half, doneVars, infoVars, dataVars>>

-----------------------------------------------------------------------------
(* spawn_tcp_stream_handlers: the collection task *)

\* Mutant: the receiver outlives the collection task
EndCollectionKeepsReceiver ==
    /\ coll' = "over"
    /\ sending_done' = sending_done \ {"collection"}
    /\ recv_done' = recv_done \ {"collection"}
    /\ UNCHANGED <<testVars, connVars, queue, received, half, infoVars, dataVars>>

\* the task returns: its receiver and its handles of the done channels go
EndCollection ==
    /\ coll' = "over"
    /\ DropReceiver
    /\ sending_done' = sending_done \ {"collection"}
    /\ recv_done' = recv_done \ {"collection"}
    /\ UNCHANGED <<testVars, idx, kind, received, half, infoVars, dataVars>>

\* the head of the loop and the biased select: the cancel is looked at first
CollectPoll ==
    /\ coll = "poll"
    /\ received # StreamIds
    /\ ~cancel
    /\ coll' = "recv"
    /\ UNCHANGED <<testVars, connVars, queue, received, half, doneVars, infoVars,
                   dataVars>>

\* every stream is there, or the test was cancelled
CollectDone ==
    /\ coll = "poll"
    /\ received = StreamIds \/ cancel
    /\ EndCollection

\* a connection with an index out of range or already taken is dropped
CollectReject ==
    /\ coll = "recv"
    /\ queue # << >>
    /\ idx[Head(queue)] \notin StreamIds \ received
    /\ Closed(Head(queue))
    /\ queue' = Tail(queue)
    /\ coll' = "poll"
    /\ UNCHANGED <<testVars, idx, kind, received, half, doneVars, infoVars, dataVars>>

\* Mutant: no check for a duplicate index
CollectTakeDuplicate ==
    /\ coll = "recv"
    /\ queue # << >>
    /\ LET c == Head(queue) IN
       /\ idx[c] \in StreamIds
       /\ received' = received \cup {idx[c]}
       /\ at' = [at EXCEPT ![c] = "taken"]
       /\ sending_done' = IF "collection" \in sending_done
                            THEN sending_done \cup {c} ELSE sending_done
       /\ recv_done' = IF "collection" \in recv_done
                         THEN recv_done \cup {c} ELSE recv_done
    /\ queue' = Tail(queue)
    /\ coll' = "poll"
    /\ UNCHANGED <<testVars, idx, kind, fd, half, infoVars, dataVars>>

\* a new stream: mark it received and start its handler with its own handles
CollectTake ==
    /\ coll = "recv"
    /\ queue # << >>
    /\ LET c == Head(queue) IN
       /\ idx[c] \in StreamIds \ received
       /\ received' = received \cup {idx[c]}
       /\ at' = [at EXCEPT ![c] = "taken"]
       /\ sending_done' = IF "collection" \in sending_done
                            THEN sending_done \cup {c} ELSE sending_done
       /\ recv_done' = IF "collection" \in recv_done
                         THEN recv_done \cup {c} ELSE recv_done
    /\ queue' = Tail(queue)
    /\ coll' = "poll"
    /\ UNCHANGED <<testVars, idx, kind, fd, half, infoVars, dataVars>>

\* nothing to receive: wait for the cancel, a connection or the deadline
CollectPark ==
    /\ coll = "recv"
    /\ queue = << >>
    /\ Senders # {}
    /\ coll' = "parked"
    /\ UNCHANGED <<testVars, connVars, queue, received, half, doneVars, infoVars,
                   dataVars>>

\* rx.recv() returned None: nobody can send any more
CollectNone ==
    /\ coll = "recv"
    /\ queue = << >>
    /\ Senders = {}
    /\ EndCollection

\* woken: the biased select looks at the cancel again before it receives
CollectWake ==
    /\ coll = "parked"
    /\ ~cancel
    /\ queue # << >> \/ Senders = {}
    /\ coll' = "recv"
    /\ UNCHANGED <<testVars, connVars, queue, received, half, doneVars, infoVars,
                   dataVars>>

CollectCancelled ==
    /\ coll = "parked"
    /\ cancel
    /\ EndCollection

\* STREAM_COLLECTION_TIMEOUT, at the head of the loop or while nothing arrives
CollectTimeout ==
    /\ \/ coll = "poll" /\ received # StreamIds
       \/ coll = "parked" /\ queue = << >>
    /\ EndCollection

-----------------------------------------------------------------------------
(* the handler of one stream *)

\* set_tcp_info_fd, then the transfer; a bidirectional stream is configured first
HandlerStart(c) ==
    /\ at[c] = "taken"
    /\ at' = [at EXCEPT ![c] = "moving"]
    /\ half' = [half EXCEPT ![c] = [d \in Halves |-> IF d \in Loops THEN "on" ELSE "none"]]
    /\ tcp_info_fd' = [tcp_info_fd EXCEPT ![idx[c]] = fd[c]]
    /\ final_tcp_info' = [final_tcp_info EXCEPT ![idx[c]] = NoConn]
    /\ UNCHANGED <<testVars, idx, kind, fd, collVars, doneVars, dataVars>>

\* configure_stream failed: clear_tcp_info_fd, and the stream goes with the task
HandlerConfigureFails(c) ==
    /\ at[c] = "taken"
    /\ test.direction = "bidir"
    /\ at' = [at EXCEPT ![c] = "over"]
    /\ fd' = [fd EXCEPT ![c] = NoFd]
    /\ half' = [half EXCEPT ![c] = [d \in Halves |-> "err"]]
    /\ tcp_info_fd' = [tcp_info_fd EXCEPT ![idx[c]] = NoFd]
    /\ final_tcp_info' = [final_tcp_info EXCEPT ![idx[c]] = NoConn]
    /\ sending_done' = sending_done \ {c}
    /\ recv_done' = recv_done \ {c}
    /\ UNCHANGED <<testVars, idx, kind, collVars, dataVars>>

\* Mutant: an error of one loop closes the whole bidirectional stream
LoopReturnsClosing(c, d, result) ==
    /\ half' = [half EXCEPT ![c][d] = result]
    /\ IF test.direction = "bidir"
         THEN /\ sending_done' = IF d = "send" THEN sending_done \ {c} ELSE sending_done
              /\ recv_done' = IF d = "recv" THEN recv_done \ {c} ELSE recv_done
              /\ fd' = IF result = "err" THEN [fd EXCEPT ![c] = NoFd] ELSE fd
              /\ UNCHANGED at
         ELSE /\ at' = [at EXCEPT ![c] = "ended"]
              /\ fd' = [fd EXCEPT ![c] = NoFd]
              /\ UNCHANGED doneVars
    /\ UNCHANGED <<testVars, idx, kind, collVars, infoVars>>

\* the loop of direction d returns.  A one-way loop owns the stream and closes it;
\* the two loops of a bidirectional stream drop their done handle at once, and an
\* error drops their half of the stream
LoopReturns(c, d, result) ==
    /\ half' = [half EXCEPT ![c][d] = result]
    /\ IF test.direction = "bidir"
         THEN /\ sending_done' = IF d = "send" THEN sending_done \ {c} ELSE sending_done
              /\ recv_done' = IF d = "recv" THEN recv_done \ {c} ELSE recv_done
              /\ fd' = IF \A e \in Halves : half'[c][e] = "err"
                         THEN [fd EXCEPT ![c] = NoFd] ELSE fd
              /\ UNCHANGED at
         ELSE /\ at' = [at EXCEPT ![c] = "ended"]
              /\ fd' = [fd EXCEPT ![c] = NoFd]
              /\ UNCHANGED doneVars
    /\ UNCHANGED <<testVars, idx, kind, collVars, infoVars>>

\* send_data or send_data_half returns (SendLoops models it)
SendReturns(c, result) ==
    /\ half[c]["send"] = "on"
    /\ LoopReturns(c, "send", result)
    /\ UNCHANGED dataVars

\* receive_data: read and count
Receive(c) ==
    /\ half[c]["recv"] = "on"
    /\ avail[c] > 0
    /\ avail' = [avail EXCEPT ![c] = @ - 1]
    /\ counted' = [counted EXCEPT ![idx[c]] = @ + 1]
    /\ UNCHANGED <<testVars, connVars, collVars, half, doneVars, infoVars, sent, fin>>

\* a read of length 0: everything before it was read
ReceiveEof(c) ==
    /\ half[c]["recv"] = "on"
    /\ fin[c] = "eof"
    /\ avail[c] = 0
    /\ LoopReturns(c, "recv", "ok")
    /\ UNCHANGED dataVars

\* should_end_receive_after_error: a reset ends the loop quietly near the end of a
\* timed test (receive_teardown_window) and is returned otherwise
ReceiveError(c, result) ==
    /\ half[c]["recv"] = "on"
    /\ fin[c] = "reset"
    /\ ~cancel
    /\ result = "ok" => ~test.budget
    /\ LoopReturns(c, "recv", result)
    /\ UNCHANGED dataVars

\* the cancel, or an error once the cancel is set
ReceiveCancelled(c) ==
    /\ half[c]["recv"] = "on"
    /\ cancel
    /\ half' = [half EXCEPT ![c]["recv"] = "drain"]
    /\ UNCHANGED <<testVars, connVars, collVars, doneVars, infoVars, dataVars>>

\* drain_after_cancel: what it reads is not counted
Drain(c) ==
    /\ half[c]["recv"] = "drain"
    /\ \E n \in 0..avail[c] : avail' = [avail EXCEPT ![c] = n]
    /\ LoopReturns(c, "recv", "ok")
    /\ UNCHANGED <<sent, fin, counted>>

\* one-way: set_final_tcp_info with what the loop returned
HandlerStore(c) ==
    /\ at[c] = "ended"
    /\ at' = [at EXCEPT ![c] = "stored"]
    /\ final_tcp_info' = IF \E d \in Loops : half[c][d] = "ok"
                           THEN [final_tcp_info EXCEPT ![idx[c]] = c] ELSE final_tcp_info
    /\ UNCHANGED <<testVars, idx, kind, fd, collVars, half, doneVars, tcp_info_fd,
                   dataVars>>

\* one-way: the match arm ends and its done handle is dropped
HandlerRelease(c) ==
    /\ at[c] = "stored"
    /\ at' = [at EXCEPT ![c] = "released"]
    /\ sending_done' = IF "send" \in Loops THEN sending_done \ {c} ELSE sending_done
    /\ recv_done' = IF "recv" \in Loops THEN recv_done \ {c} ELSE recv_done
    /\ UNCHANGED <<testVars, idx, kind, fd, collVars, half, infoVars, dataVars>>

\* bidir: both loops have returned; the halves are put together and dropped
HandlerJoin(c) ==
    /\ at[c] = "moving"
    /\ test.direction = "bidir"
    /\ \A d \in Halves : half[c][d] \in {"ok", "err"}
    /\ at' = [at EXCEPT ![c] = "released"]
    /\ fd' = [fd EXCEPT ![c] = NoFd]
    /\ final_tcp_info' = IF \A d \in Halves : half[c][d] = "ok"
                           THEN [final_tcp_info EXCEPT ![idx[c]] = c] ELSE final_tcp_info
    /\ UNCHANGED <<testVars, idx, kind, collVars, half, doneVars, tcp_info_fd, dataVars>>

\* clear_tcp_info_fd; the task ends and drops the handle its direction does not use
HandlerClear(c) ==
    /\ at[c] = "released"
    /\ at' = [at EXCEPT ![c] = "over"]
    /\ tcp_info_fd' = [tcp_info_fd EXCEPT ![idx[c]] = NoFd]
    /\ sending_done' = sending_done \ {c}
    /\ recv_done' = recv_done \ {c}
    /\ UNCHANGED <<testVars, idx, kind, fd, collVars, half, final_tcp_info, dataVars>>

-----------------------------------------------------------------------------
(* the client's end of a connection *)

ClientSends(c) ==
    /\ fd[c] # NoFd
    /\ "recv" \in Loops
    /\ kind[c] = "own"
    /\ fin[c] = "no"
    /\ sent[c] < MaxUnits
    /\ sent' = [sent EXCEPT ![c] = @ + 1]
    /\ avail' = [avail EXCEPT ![c] = @ + 1]
    /\ UNCHANGED <<testVars, connVars, collVars, half, doneVars, infoVars, fin, counted>>

ClientEnds(c, how) ==
    /\ fd[c] # NoFd
    /\ "recv" \in Loops
    /\ kind[c] = "own"
    /\ fin[c] = "no"
    /\ fin' = [fin EXCEPT ![c] = how]
    /\ UNCHANGED <<testVars, connVars, collVars, half, doneVars, infoVars, sent,
                   avail, counted>>

-----------------------------------------------------------------------------

RunTest ==
    \/ Register
    \/ SendAck
    \/ AckFails
    \/ SpawnCollection
    \/ DropOwnHandles
    \/ CancelCommand
    \/ ReportEnds
    \/ ReportFails
    \/ JoinHandlers
    \/ RemoveTest

Route(c) ==
    \/ FirstLineFails(c)
    \/ DataHello(c)
    \/ RouteDataHello(c)
    \/ LegacyTurnAway(c)
    \/ Enqueue(c)
    \/ EnqueueFails(c)

Collect ==
    \/ CollectPoll
    \/ CollectDone
    \/ CollectReject
    \/ CollectTake
    \/ CollectPark
    \/ CollectNone
    \/ CollectWake
    \/ CollectCancelled
    \/ CollectTimeout

ReceiveLoop(c) ==
    \/ Receive(c)
    \/ ReceiveEof(c)
    \/ \E result \in {"ok", "err"} : ReceiveError(c, result)
    \/ ReceiveCancelled(c)
    \/ Drain(c)

HandlerTask(c) ==
    \/ HandlerStart(c)
    \/ HandlerConfigureFails(c)
    \/ HandlerStore(c)
    \/ HandlerRelease(c)
    \/ HandlerJoin(c)
    \/ HandlerClear(c)

Client(c) ==
    \/ ClientSends(c)
    \/ \E how \in {"eof", "reset"} : ClientEnds(c, how)

\* everything is closed: nothing is left to do
Finished ==
    /\ main = "gone"
    /\ listening = {}
    /\ \A c \in Conns : at[c] \in {"idle", "closed", "unread", "over"}
    /\ UNCHANGED vars

Next ==
    \/ RunTest
    \/ Collect
    \/ \E c \in Conns, i \in 0..MaxIndex, k \in Kinds : Accept(c, i, k)
    \/ \E c \in Conns, i \in 0..MaxIndex, k \in Kinds : LegacyAccept(c, i, k)
    \/ \E i \in StreamIds : LegacyCancelled(i)
    \/ \E c \in Conns : Route(c)
    \/ \E c \in Conns : HandlerTask(c)
    \/ \E c \in Conns, result \in {"ok", "err"} : SendReturns(c, result)
    \/ \E c \in Conns : ReceiveLoop(c)
    \/ \E c \in Conns : Client(c)
    \/ Finished

Spec == Init /\ [][Next]_vars

(***************************************************************************)
(* Every task that can run does.  The first line has a timeout, the        *)
(* collection a deadline, the drain a grace period.  A send loop that sees *)
(* the cancel returns (SendLoops: LoopsEnd); the report loop is not        *)
(* assumed to end.                                                         *)
(***************************************************************************)
Fairness ==
    /\ WF_vars(JoinHandlers) /\ WF_vars(RemoveTest)
    /\ WF_vars(Collect)
    /\ \A i \in StreamIds : WF_vars(LegacyCancelled(i))
    /\ \A c \in Conns : /\ WF_vars(Route(c))
                         /\ WF_vars(HandlerTask(c))
                         /\ WF_vars(ReceiveLoop(c))
                         /\ WF_vars(cancel /\ \E r \in {"ok", "err"} : SendReturns(c, r))

FairSpec == Spec /\ Fairness

-----------------------------------------------------------------------------
(* properties *)

TestTypeOK ==
    /\ test \in Tests
    /\ main \in {"setup", "registered", "acked", "spawned", "reporting", "joining",
                  "joined", "gone"}
    /\ active_test \in {"absent", "present", "removed"}
    /\ cancel \in BOOLEAN
    /\ listening \subseteq StreamIds

ConnTypeOK ==
    /\ at \in [Conns -> {"idle", "hello", "unread", "known", "routing", "turned", "queued",
                         "taken", "moving", "ended", "stored", "released", "over", "closed"}]
    /\ idx \in [Conns -> Nat]
    /\ kind \in [Conns -> {"own", "stranger", "unknown"}]
    /\ fd \in [Conns -> Nat \cup {NoFd}]

CollTypeOK ==
    /\ queue \in Seq(Conns)
    /\ coll \in {"off", "poll", "recv", "parked", "over"}
    /\ received \subseteq StreamIds

HandlerTypeOK ==
    /\ half \in [Conns -> [Halves -> {"none", "on", "drain", "ok", "err"}]]
    /\ sending_done \subseteq Conns \cup {"run_test", "collection"}
    /\ recv_done \subseteq Conns \cup {"run_test", "collection"}

StatsTypeOK ==
    /\ tcp_info_fd \in [StreamIds -> Nat \cup {NoFd}]
    /\ final_tcp_info \in [StreamIds -> Conns \cup {NoConn}]
    /\ counted \in [StreamIds -> Nat]

ClientTypeOK ==
    /\ sent \in [Conns -> Nat]
    /\ avail \in [Conns -> Nat]
    /\ fin \in [Conns -> {"no", "eof", "reset"}]

TypeOK == /\ TestTypeOK /\ ConnTypeOK /\ CollTypeOK
          /\ HandlerTypeOK /\ StatsTypeOK /\ ClientTypeOK

(***************************************************************************)
(* Two handlers never write into the statistics of the same stream, every  *)
(* handler has a stream of the test, and only connections from the address *)
(* of the control connection get one: whatever indices the data            *)
(* connections name and in whatever order they are routed.                 *)
(***************************************************************************)
OneHandlerPerStream ==
    \A c \in Conns : Handled(c) =>
        /\ kind[c] = "own"
        /\ idx[c] \in StreamIds
        /\ \A d \in Conns \ {c} : Handled(d) => idx[d] # idx[c]

(***************************************************************************)
(* "Store active test BEFORE sending TestAck to avoid race condition": a   *)
(* connection of the client that sent its DataHello is dropped only if its *)
(* index is invalid or taken, or the test or its collection phase is over. *)
(***************************************************************************)
NoStreamLost ==
    \A c \in Conns : (kind[c] = "own" /\ at[c] = "closed") =>
        \/ idx[c] \notin StreamIds
        \/ idx[c] \in received
        \/ cancel
        \/ coll = "over"

\* h has a reason to hold a sender of the done channel of direction d: the collection may
\* still start a handler; a handler may still transfer, or has yet to store its snapshot
Holder(h, d) ==
    \/ h = "collection" /\ coll # "over"
    \/ /\ h \in Conns /\ Handled(h) /\ at[h] # "over"
       /\ d \in Loops => at[h] # "released"
       /\ test.direction = "bidir" => half[h][d] \notin {"ok", "err"}

(***************************************************************************)
(* The report loop reads a closed done channel as "all transfers of that   *)
(* direction are over" and ends a byte-budget test on it: when it closes,  *)
(* no further stream can start and no started one is still transferring,   *)
(* and a one-way stream that ended well has its final snapshot stored.     *)
(* Nor does a handle survive: while the report loop waits, every one of    *)
(* them is held by a task that is not over, run_test's own included ("ours *)
(* would keep these channels open forever", serve.rs:2803).                *)
(***************************************************************************)
DoneMeansOver ==
    main = "reporting" /\ test.budget =>
        /\ \A d \in Halves : (IF d = "send" THEN sending_done = {} /\ "send" \in Loops
                                            ELSE recv_done = {}) =>
               /\ coll = "over"
               /\ \A c \in Conns : Handled(c) =>
                    /\ at[c] # "taken"
                    /\ half[c][d] \notin {"on", "drain"}
                    /\ (test.direction # "bidir" /\ half[c][d] = "ok")
                         => final_tcp_info[idx[c]] = c
        /\ \A h \in sending_done : Holder(h, "send")
        /\ \A h \in recv_done : Holder(h, "recv")

(***************************************************************************)
(* A byte-budget upload: when recv_done closes by itself, with all streams *)
(* present and none of them failed, every unit the client sent has been    *)
(* counted, those that arrived with the DataHello and before the handler   *)
(* started included.                                                       *)
(***************************************************************************)
RecvCountsAll ==
    (/\ main = "reporting" /\ test.budget /\ "recv" \in Loops
     /\ recv_done = {} /\ ~cancel /\ received = StreamIds
     /\ \A c \in Conns : half[c]["recv"] # "err")
    => \A c \in Conns : Handled(c) => counted[idx[c]] = sent[c]

(***************************************************************************)
(* While a stream is transferring, the descriptor its statistics poll for  *)
(* TCP_INFO is that of its own socket; and a descriptor stays in the       *)
(* statistics no longer than the task of the handler that put it there, so *)
(* that a sample can meet a closed one only until that task clears it.     *)
(***************************************************************************)
LiveDescriptorOwn ==
    /\ \A c \in Conns :
         (at[c] = "moving" /\ \E d \in Halves : half[c][d] \in {"on", "drain"}) =>
           /\ fd[c] # NoFd
           /\ tcp_info_fd[idx[c]] = fd[c]
           /\ \A d \in Conns \ {c} : fd[d] # fd[c]
    /\ \A i \in StreamIds : tcp_info_fd[i] # NoFd =>
         \E c \in Conns : idx[c] = i /\ at[c] \in {"moving", "ended", "stored", "released"}

(***************************************************************************)
(* The Result is built after the join.  By then no stream polls a          *)
(* descriptor any more, nothing counts into the statistics, and the        *)
(* snapshot of a stream is the one its own handler took.                   *)
(***************************************************************************)
ResultIsStable ==
    main = "joined" =>
        \A i \in StreamIds :
            /\ tcp_info_fd[i] = NoFd
            /\ \A c \in Conns : (Handled(c) /\ idx[c] = i) =>
                 /\ at[c] = "over"
                 /\ final_tcp_info[i] = IF \A d \in Loops : half[c][d] = "ok"
                                          THEN c ELSE NoConn

(***************************************************************************)
(* Every data stream is accounted for: none is turned away without reason  *)
(* (NoStreamLost), none of its bytes is missing when its receiver reports  *)
(* the end (RecvCountsAll), and the Result reads settled statistics        *)
(* (ResultIsStable).                                                       *)
(***************************************************************************)
StreamsAccounted == NoStreamLost /\ RecvCountsAll /\ ResultIsStable

-----------------------------------------------------------------------------
(* the inductive invariant the proofs use *)

\* the channel holds each connection once, and exactly while it is "queued"
QueueInv ==
    \A k \in 1..Len(queue) :
        /\ at[queue[k]] = "queued"
        /\ \A l \in 1..Len(queue) : queue[k] = queue[l] => k = l

\* only the client's own connections get behind the address check, and the streams
\* that have a handler are received ones, each with one handler
RouteInv ==
    \A c \in Conns :
        /\ (at[c] \in {"routing", "queued"} \/ Handled(c)) => kind[c] = "own"
        /\ Handled(c) => idx[c] \in received
        /\ \A d \in Conns : (Handled(c) /\ Handled(d) /\ idx[c] = idx[d]) => c = d

\* open sockets have different descriptors, a running loop has an open socket, and
\* the statistics hold its descriptor
FdInv ==
    \A c \in Conns :
        /\ at[c] \in {"hello", "known", "routing", "turned", "queued", "taken"}
             => fd[c] # NoFd
        /\ \A d \in Conns : (fd[c] # NoFd /\ fd[c] = fd[d]) => c = d
        /\ \A h \in Halves : half[c][h] \in {"on", "drain"} =>
             fd[c] # NoFd /\ tcp_info_fd[idx[c]] = fd[c]

\* a loop runs only inside its handler, and a one-way handler has one loop
LoopInv ==
    \A c \in Conns : \A h \in Halves :
        /\ half[c][h] \in {"on", "drain"} => at[c] = "moving"
        /\ half[c][h] \in {"on", "drain", "ok"} => h \in Loops
        /\ half[c][h] = "ok" => at[c] \in {"moving", "ended", "stored", "released", "over"}
        /\ (test.direction # "bidir" /\ at[c] = "moving") => half[c][h] # "ok"

\* no handler before the collection task
PhaseInv ==
    /\ main \in {"setup", "registered", "acked"} <=> coll = "off"
    /\ coll = "off" => \A c \in Conns : ~Handled(c)

\* the collection task, and every handler until its loop is over, holds a sender of
\* the done channel of direction h
HoldsUntilOver(done, h) ==
    /\ coll \notin {"off", "over"} => "collection" \in done
    /\ \A c \in Conns :
         (\/ at[c] = "taken"
          \/ half[c][h] \in {"on", "drain"}
          \/ test.direction # "bidir" /\ at[c] \in {"moving", "ended", "stored"})
         => c \in done

RecvDoneInv == test.budget => HoldsUntilOver(recv_done, "recv")

SendDoneInv == test.budget /\ "send" \in Loops => HoldsUntilOver(sending_done, "send")

\* the snapshot of a one-way stream that ended well is stored before the handle goes
FinalInv ==
    test.direction # "bidir" =>
        \A c \in Conns : (at[c] \in {"stored", "released", "over"}
                           /\ \E h \in Halves : half[c][h] = "ok")
                         => final_tcp_info[idx[c]] = c

\* no handle before the collection task, and no loop before its handler started
FreshInv ==
    /\ coll = "off" => sending_done = {} /\ recv_done = {}
    /\ \A c \in Conns : (~Handled(c) \/ at[c] = "taken") =>
         \A d \in Halves : half[c][d] = "none"

\* a done handle has a holder that is not over, run_test only before the report loop
Held(done, d) == \A h \in done : Holder(h, d) \/ (h = "run_test" /\ main = "spawned")

HolderInv == FreshInv /\ Held(sending_done, "send") /\ Held(recv_done, "recv")

IInv == /\ TypeOK /\ QueueInv /\ RouteInv /\ FdInv /\ LoopInv
        /\ PhaseInv /\ RecvDoneInv /\ SendDoneInv /\ FinalInv

-----------------------------------------------------------------------------
(***************************************************************************)
(* After the report loop ended, the join of the handlers ends: no handler  *)
(* and no collection task outlives the cancel, so the Result is sent.      *)
(***************************************************************************)
JoinEnds == main = "joining" ~> main = "gone"

(***************************************************************************)
(* Once the test is removed, by whichever path, every data connection is   *)
(* closed in the end: those waiting for room in the channel, those in it,  *)
(* those still routed and those with a handler; and no listener is left.   *)
(***************************************************************************)
NothingLeft ==
    active_test = "removed" ~>
        (listening = {} /\ \A c \in Conns : at[c] \in {"idle", "closed", "unread", "over"})

(***************************************************************************)
(* A test cleans up after itself: it comes to its Result and leaves no     *)
(* handler, connection or listener behind.                                 *)
(***************************************************************************)
CleansUp == JoinEnds /\ NothingLeft

=============================================================================
