--------------------------- MODULE StreamsProofs ---------------------------
(***************************************************************************)
(* Safety of the TCP data plane (Streams), for any set of connections, any *)
(* number of streams, any direction and both ways of accepting: IInv is    *)
(* inductive, and OneHandlerPerStream follows from it; HolderInv and       *)
(* AccountInv are inductive relative to IInv and give DoneMeansOver,       *)
(* LiveDescriptorOwn and StreamsAccounted.  Each conjunct has a lemma of   *)
(* its own, with one step for each group of actions.                       *)
(***************************************************************************)
EXTENDS Streams, TLAPS

\* What the client asked for never changes, and so neither do the loops of a handler.
LEMMA TestFixed == [Next]_vars => test' = test /\ Loops' = Loops
<1> SUFFICES ASSUME [Next]_vars PROVE test' = test /\ Loops' = Loops
  OBVIOUS
<1> USE DEF testVars
<1>1. CASE RunTest
  BY <1>1 DEF RunTest, Register, SendAck, AckFails, SpawnCollection, DropOwnHandles,
     CancelCommand, ReportEnds, ReportFails, JoinHandlers, RemoveTest, Loops
<1>2. CASE Collect
  BY <1>2 DEF Collect, CollectPoll, CollectDone, CollectPark, CollectNone, CollectWake,
     CollectCancelled, CollectTimeout, CollectReject, CollectTake, EndCollection, Loops
<1>3. ASSUME NEW c \in Conns, NEW i \in 0..MaxIndex, NEW k \in Kinds,
             Accept(c, i, k) \/ LegacyAccept(c, i, k)
      PROVE  test' = test
  BY <1>3 DEF Accept, LegacyAccept
<1>4. ASSUME NEW c \in Conns, Route(c) PROVE test' = test
  BY <1>4 DEF Route, FirstLineFails, DataHello, RouteDataHello, LegacyTurnAway, Enqueue,
     EnqueueFails
<1>5. ASSUME NEW c \in Conns, HandlerTask(c) PROVE test' = test
  BY <1>5 DEF HandlerTask, HandlerStart, HandlerConfigureFails, HandlerStore,
     HandlerRelease, HandlerJoin, HandlerClear
<1>6. ASSUME NEW c \in Conns, ReceiveLoop(c) PROVE test' = test
  BY <1>6 DEF ReceiveLoop, Receive, ReceiveEof, ReceiveError, ReceiveCancelled,
     Drain, LoopReturns
<1>7. ASSUME NEW c \in Conns, Client(c) PROVE test' = test
  BY <1>7 DEF Client, ClientSends, ClientEnds
<1>8. test' = test
  BY <1>1, <1>2, <1>3, <1>4, <1>5, <1>6, <1>7
     DEF Next, Finished, LegacyCancelled, SendReturns, LoopReturns, vars
<1> QED
  BY <1>8 DEF Loops

\* run_test and the listeners keep to their types.
LEMMA TestTypeStep == TypeOK /\ [Next]_vars => TestTypeOK'
<1> SUFFICES ASSUME TypeOK, [Next]_vars PROVE TestTypeOK'
  OBVIOUS
<1> USE DEF TypeOK, testVars, TestTypeOK
<1>1. CASE RunTest
  BY <1>1 DEF RunTest, Register, SendAck, AckFails, SpawnCollection, DropOwnHandles,
     CancelCommand, ReportEnds, ReportFails, JoinHandlers, RemoveTest,
     DropReceiver, remove_active_test
<1>2. CASE EndCollection
  BY <1>2 DEF EndCollection, DropReceiver
<1>3. CASE Collect /\ ~EndCollection
  BY <1>3 DEF Collect, CollectPoll, CollectDone, CollectPark, CollectNone, CollectWake,
     CollectCancelled, CollectTimeout, CollectReject, CollectTake, Closed
<1>4. ASSUME NEW c \in Conns, NEW i \in 0..MaxIndex, NEW k \in Kinds,
             Accept(c, i, k) \/ LegacyAccept(c, i, k)
      PROVE  TestTypeOK'
  BY <1>4, StreamsAssumption DEF Accept, LegacyAccept, Opened, LowestFree
<1>5. ASSUME NEW i \in StreamIds, LegacyCancelled(i) PROVE TestTypeOK'
  BY <1>5 DEF LegacyCancelled
<1>6. ASSUME NEW c \in Conns, Route(c) PROVE TestTypeOK'
  BY <1>6 DEF Route, FirstLineFails, DataHello, RouteDataHello, LegacyTurnAway, Enqueue,
     EnqueueFails, Closed
<1>7. ASSUME NEW c \in Conns, HandlerTask(c) PROVE TestTypeOK'
  BY <1>7 DEF HandlerTask, HandlerStart, HandlerConfigureFails, HandlerStore,
     HandlerRelease, HandlerJoin, HandlerClear
<1>8. ASSUME NEW c \in Conns, NEW result \in {"ok", "err"}, SendReturns(c, result)
      PROVE  TestTypeOK'
  BY <1>8 DEF SendReturns, LoopReturns
<1>9. ASSUME NEW c \in Conns, ReceiveLoop(c) PROVE TestTypeOK'
  BY <1>9 DEF ReceiveLoop, Receive, ReceiveEof, ReceiveError, ReceiveCancelled,
     Drain, LoopReturns
<1>10. ASSUME NEW c \in Conns, Client(c) PROVE TestTypeOK'
  BY <1>10 DEF Client, ClientSends, ClientEnds
<1>11. CASE UNCHANGED vars
  BY <1>11 DEF vars
<1> QED
  BY <1>1, <1>2, <1>3, <1>4, <1>5, <1>6, <1>7, <1>8, <1>9, <1>10, <1>11 DEF Next, Finished

\* Connections keep to their types.
LEMMA ConnTypeStep == TypeOK /\ [Next]_vars => ConnTypeOK'
<1> SUFFICES ASSUME TypeOK, [Next]_vars PROVE ConnTypeOK'
  OBVIOUS
<1> USE DEF TypeOK, testVars, ConnTypeOK, connVars, NoFd
<1>1. CASE RunTest
  BY <1>1 DEF RunTest, Register, SendAck, AckFails, SpawnCollection, DropOwnHandles,
     CancelCommand, ReportEnds, ReportFails, JoinHandlers, RemoveTest,
     DropReceiver, remove_active_test
<1>2. CASE EndCollection
  BY <1>2 DEF EndCollection, DropReceiver
<1>3. CASE Collect /\ ~EndCollection
  BY <1>3 DEF Collect, CollectPoll, CollectDone, CollectPark, CollectNone, CollectWake,
     CollectCancelled, CollectTimeout, CollectReject, CollectTake, Closed
<1>4. ASSUME NEW c \in Conns, NEW i \in 0..MaxIndex, NEW k \in Kinds,
             Accept(c, i, k) \/ LegacyAccept(c, i, k)
      PROVE  ConnTypeOK'
  BY <1>4, StreamsAssumption DEF Accept, LegacyAccept, Opened, LowestFree
<1>5. ASSUME NEW i \in StreamIds, LegacyCancelled(i) PROVE ConnTypeOK'
  BY <1>5 DEF LegacyCancelled
<1>6. ASSUME NEW c \in Conns, Route(c) PROVE ConnTypeOK'
  BY <1>6 DEF Route, FirstLineFails, DataHello, RouteDataHello, LegacyTurnAway, Enqueue,
     EnqueueFails, Closed
<1>7. ASSUME NEW c \in Conns, HandlerTask(c) PROVE ConnTypeOK'
  BY <1>7 DEF HandlerTask, HandlerStart, HandlerConfigureFails, HandlerStore,
     HandlerRelease, HandlerJoin, HandlerClear
<1>8. ASSUME NEW c \in Conns, NEW result \in {"ok", "err"}, SendReturns(c, result)
      PROVE  ConnTypeOK'
  BY <1>8 DEF SendReturns, LoopReturns
<1>9. ASSUME NEW c \in Conns, ReceiveLoop(c) PROVE ConnTypeOK'
  BY <1>9 DEF ReceiveLoop, Receive, ReceiveEof, ReceiveError, ReceiveCancelled,
     Drain, LoopReturns
<1>10. ASSUME NEW c \in Conns, Client(c) PROVE ConnTypeOK'
  BY <1>10 DEF Client, ClientSends, ClientEnds
<1>11. CASE UNCHANGED vars
  BY <1>11 DEF vars
<1> QED
  BY <1>1, <1>2, <1>3, <1>4, <1>5, <1>6, <1>7, <1>8, <1>9, <1>10, <1>11 DEF Next, Finished

\* The channel and the collection task keep to their types.
LEMMA CollTypeStep == TypeOK /\ [Next]_vars => CollTypeOK'
<1> SUFFICES ASSUME TypeOK, [Next]_vars PROVE CollTypeOK'
  OBVIOUS
<1> USE DEF TypeOK, testVars, CollTypeOK, collVars
<1>1. CASE RunTest
  <2>1. CASE AckFails
    BY <2>1 DEF AckFails, DropReceiver
  <2>2. CASE RunTest /\ ~AckFails
    BY <2>2 DEF RunTest, Register, SendAck, SpawnCollection, DropOwnHandles,
       CancelCommand, ReportEnds, ReportFails, JoinHandlers, RemoveTest
  <2> QED
    BY <1>1, <2>1, <2>2
<1>2. CASE EndCollection
  BY <1>2 DEF EndCollection, DropReceiver
<1>3. CASE Collect /\ ~EndCollection
  <2>1. CASE CollectReject
    BY <2>1 DEF CollectReject
  <2>2. CASE CollectTake
    BY <2>2 DEF CollectTake
  <2>3. CASE CollectPoll \/ CollectPark \/ CollectWake
    BY <2>3 DEF CollectPoll, CollectPark, CollectWake
  <2> QED
    BY <1>3, <2>1, <2>2, <2>3 DEF Collect, CollectDone, CollectNone, CollectCancelled,
       CollectTimeout
<1>4. ASSUME NEW c \in Conns, NEW i \in 0..MaxIndex, NEW k \in Kinds,
             Accept(c, i, k) \/ LegacyAccept(c, i, k)
      PROVE  CollTypeOK'
  BY <1>4, StreamsAssumption DEF Accept, LegacyAccept, Opened, LowestFree
<1>5. ASSUME NEW i \in StreamIds, LegacyCancelled(i) PROVE CollTypeOK'
  BY <1>5 DEF LegacyCancelled
<1>6. ASSUME NEW c \in Conns, Route(c) PROVE CollTypeOK'
  BY <1>6 DEF Route, FirstLineFails, DataHello, RouteDataHello, LegacyTurnAway, Enqueue,
     EnqueueFails, Closed
<1>7. ASSUME NEW c \in Conns, HandlerTask(c) PROVE CollTypeOK'
  BY <1>7 DEF HandlerTask, HandlerStart, HandlerConfigureFails, HandlerStore,
     HandlerRelease, HandlerJoin, HandlerClear
<1>8. ASSUME NEW c \in Conns, NEW result \in {"ok", "err"}, SendReturns(c, result)
      PROVE  CollTypeOK'
  BY <1>8 DEF SendReturns, LoopReturns
<1>9. ASSUME NEW c \in Conns, ReceiveLoop(c) PROVE CollTypeOK'
  BY <1>9 DEF ReceiveLoop, Receive, ReceiveEof, ReceiveError, ReceiveCancelled,
     Drain, LoopReturns
<1>10. ASSUME NEW c \in Conns, Client(c) PROVE CollTypeOK'
  BY <1>10 DEF Client, ClientSends, ClientEnds
<1>11. CASE UNCHANGED vars
  BY <1>11 DEF vars
<1> QED
  BY <1>1, <1>2, <1>3, <1>4, <1>5, <1>6, <1>7, <1>8, <1>9, <1>10, <1>11 DEF Next, Finished

\* The handlers and the done channels keep to their types.
LEMMA HandlerTypeStep == TypeOK /\ [Next]_vars => HandlerTypeOK'
<1> SUFFICES ASSUME TypeOK, [Next]_vars PROVE HandlerTypeOK'
  OBVIOUS
<1> USE DEF TypeOK, testVars, HandlerTypeOK, doneVars, Halves
<1>1. CASE RunTest
  BY <1>1 DEF RunTest, Register, SendAck, AckFails, SpawnCollection, DropOwnHandles,
     CancelCommand, ReportEnds, ReportFails, JoinHandlers, RemoveTest,
     DropReceiver, remove_active_test
<1>2. CASE EndCollection
  BY <1>2 DEF EndCollection, DropReceiver
<1>3. CASE Collect /\ ~EndCollection
  BY <1>3 DEF Collect, CollectPoll, CollectDone, CollectPark, CollectNone, CollectWake,
     CollectCancelled, CollectTimeout, CollectReject, CollectTake, Closed, CollTypeOK
<1>4. ASSUME NEW c \in Conns, NEW i \in 0..MaxIndex, NEW k \in Kinds,
             Accept(c, i, k) \/ LegacyAccept(c, i, k)
      PROVE  HandlerTypeOK'
  BY <1>4, StreamsAssumption DEF Accept, LegacyAccept, Opened, LowestFree
<1>5. ASSUME NEW i \in StreamIds, LegacyCancelled(i) PROVE HandlerTypeOK'
  BY <1>5 DEF LegacyCancelled
<1>6. ASSUME NEW c \in Conns, Route(c) PROVE HandlerTypeOK'
  BY <1>6 DEF Route, FirstLineFails, DataHello, RouteDataHello, LegacyTurnAway, Enqueue,
     EnqueueFails, Closed
<1>7. ASSUME NEW c \in Conns, HandlerTask(c) PROVE HandlerTypeOK'
  BY <1>7 DEF HandlerTask, HandlerStart, HandlerConfigureFails, HandlerStore,
     HandlerRelease, HandlerJoin, HandlerClear
<1>8. ASSUME NEW c \in Conns, NEW result \in {"ok", "err"}, SendReturns(c, result)
      PROVE  HandlerTypeOK'
  BY <1>8 DEF SendReturns, LoopReturns
<1>9. ASSUME NEW c \in Conns, ReceiveLoop(c) PROVE HandlerTypeOK'
  BY <1>9 DEF ReceiveLoop, Receive, ReceiveEof, ReceiveError, ReceiveCancelled,
     Drain, LoopReturns
<1>10. ASSUME NEW c \in Conns, Client(c) PROVE HandlerTypeOK'
  BY <1>10 DEF Client, ClientSends, ClientEnds
<1>11. CASE UNCHANGED vars
  BY <1>11 DEF vars
<1> QED
  BY <1>1, <1>2, <1>3, <1>4, <1>5, <1>6, <1>7, <1>8, <1>9, <1>10, <1>11 DEF Next, Finished

\* The statistics keep to their types.
LEMMA StatsTypeStep == TypeOK /\ [Next]_vars => StatsTypeOK'
<1> SUFFICES ASSUME TypeOK, [Next]_vars PROVE StatsTypeOK'
  OBVIOUS
<1> USE DEF TypeOK, testVars, StatsTypeOK, ConnTypeOK, infoVars, dataVars
<1>1. CASE RunTest
  BY <1>1 DEF RunTest, Register, SendAck, AckFails, SpawnCollection, DropOwnHandles,
     CancelCommand, ReportEnds, ReportFails, JoinHandlers, RemoveTest,
     DropReceiver, remove_active_test
<1>2. CASE EndCollection
  BY <1>2 DEF EndCollection, DropReceiver
<1>3. CASE Collect /\ ~EndCollection
  BY <1>3 DEF Collect, CollectPoll, CollectDone, CollectPark, CollectNone, CollectWake,
     CollectCancelled, CollectTimeout, CollectReject, CollectTake, Closed
<1>4. ASSUME NEW c \in Conns, NEW i \in 0..MaxIndex, NEW k \in Kinds,
             Accept(c, i, k) \/ LegacyAccept(c, i, k)
      PROVE  StatsTypeOK'
  BY <1>4, StreamsAssumption DEF Accept, LegacyAccept, Opened, LowestFree
<1>5. ASSUME NEW i \in StreamIds, LegacyCancelled(i) PROVE StatsTypeOK'
  BY <1>5 DEF LegacyCancelled
<1>6. ASSUME NEW c \in Conns, Route(c) PROVE StatsTypeOK'
  BY <1>6 DEF Route, FirstLineFails, DataHello, RouteDataHello, LegacyTurnAway, Enqueue,
     EnqueueFails, Closed
<1>7. ASSUME NEW c \in Conns, HandlerTask(c) PROVE StatsTypeOK'
  BY <1>7 DEF HandlerTask, HandlerStart, HandlerConfigureFails, HandlerStore,
     HandlerRelease, HandlerJoin, HandlerClear
<1>8. ASSUME NEW c \in Conns, NEW result \in {"ok", "err"}, SendReturns(c, result)
      PROVE  StatsTypeOK'
  BY <1>8 DEF SendReturns, LoopReturns
<1>9. ASSUME NEW c \in Conns, ReceiveLoop(c) PROVE StatsTypeOK'
  BY <1>9 DEF ReceiveLoop, Receive, ReceiveEof, ReceiveError, ReceiveCancelled,
     Drain, LoopReturns
<1>10. ASSUME NEW c \in Conns, Client(c) PROVE StatsTypeOK'
  BY <1>10 DEF Client, ClientSends, ClientEnds
<1>11. CASE UNCHANGED vars
  BY <1>11 DEF vars
<1> QED
  BY <1>1, <1>2, <1>3, <1>4, <1>5, <1>6, <1>7, <1>8, <1>9, <1>10, <1>11 DEF Next, Finished

\* The data of the connections keep to their types.
LEMMA ClientTypeStep == TypeOK /\ [Next]_vars => ClientTypeOK'
<1> SUFFICES ASSUME TypeOK, [Next]_vars PROVE ClientTypeOK'
  OBVIOUS
<1> USE DEF TypeOK, testVars, ClientTypeOK, dataVars
<1>1. CASE RunTest
  BY <1>1 DEF RunTest, Register, SendAck, AckFails, SpawnCollection, DropOwnHandles,
     CancelCommand, ReportEnds, ReportFails, JoinHandlers, RemoveTest,
     DropReceiver, remove_active_test
<1>2. CASE EndCollection
  BY <1>2 DEF EndCollection, DropReceiver
<1>3. CASE Collect /\ ~EndCollection
  BY <1>3 DEF Collect, CollectPoll, CollectDone, CollectPark, CollectNone, CollectWake,
     CollectCancelled, CollectTimeout, CollectReject, CollectTake, Closed
<1>4. ASSUME NEW c \in Conns, NEW i \in 0..MaxIndex, NEW k \in Kinds,
             Accept(c, i, k) \/ LegacyAccept(c, i, k)
      PROVE  ClientTypeOK'
  BY <1>4, StreamsAssumption DEF Accept, LegacyAccept, Opened, LowestFree
<1>5. ASSUME NEW i \in StreamIds, LegacyCancelled(i) PROVE ClientTypeOK'
  BY <1>5 DEF LegacyCancelled
<1>6. ASSUME NEW c \in Conns, Route(c) PROVE ClientTypeOK'
  BY <1>6 DEF Route, FirstLineFails, DataHello, RouteDataHello, LegacyTurnAway, Enqueue,
     EnqueueFails, Closed
<1>7. ASSUME NEW c \in Conns, HandlerTask(c) PROVE ClientTypeOK'
  BY <1>7 DEF HandlerTask, HandlerStart, HandlerConfigureFails, HandlerStore,
     HandlerRelease, HandlerJoin, HandlerClear
<1>8. ASSUME NEW c \in Conns, NEW result \in {"ok", "err"}, SendReturns(c, result)
      PROVE  ClientTypeOK'
  BY <1>8 DEF SendReturns, LoopReturns
<1>9. ASSUME NEW c \in Conns, ReceiveLoop(c) PROVE ClientTypeOK'
  BY <1>9 DEF ReceiveLoop, Receive, ReceiveEof, ReceiveError, ReceiveCancelled,
     Drain, LoopReturns
<1>10. ASSUME NEW c \in Conns, Client(c) PROVE ClientTypeOK'
  BY <1>10 DEF Client, ClientSends, ClientEnds
<1>11. CASE UNCHANGED vars
  BY <1>11 DEF vars
<1> QED
  BY <1>1, <1>2, <1>3, <1>4, <1>5, <1>6, <1>7, <1>8, <1>9, <1>10, <1>11 DEF Next, Finished

\* The connection at the head of the channel is waiting in it.
LEMMA HeadQueued ==
    ASSUME CollTypeOK, QueueInv, queue # << >>
    PROVE  Head(queue) \in Conns /\ at[Head(queue)] = "queued"
BY DEF CollTypeOK, QueueInv

\* The channel keeps holding each connection once.
LEMMA QueueStep == IInv /\ [Next]_vars => QueueInv'
<1> SUFFICES ASSUME IInv, [Next]_vars PROVE QueueInv'
  OBVIOUS
<1>0. test' = test /\ Loops' = Loops
  BY TestFixed
<1> USE <1>0 DEF IInv, testVars, QueueInv, TypeOK, ConnTypeOK, CollTypeOK, connVars,
      collVars
<1>1. CASE AckFails
  BY <1>1 DEF AckFails, DropReceiver, remove_active_test
<1>2. CASE RunTest /\ ~AckFails
  BY <1>2 DEF RunTest, Register, SendAck, SpawnCollection, DropOwnHandles,
     CancelCommand, ReportEnds, ReportFails, JoinHandlers, RemoveTest, remove_active_test
<1>3. CASE EndCollection /\ coll # "off"
  BY <1>3, StreamsAssumption DEF EndCollection, DropReceiver
<1>4. CASE CollectReject
  BY <1>4, HeadQueued DEF CollectReject, Closed
<1>5. CASE CollectTake
  BY <1>5, HeadQueued DEF CollectTake
<1>6. CASE CollectPoll \/ CollectPark \/ CollectWake
  BY <1>6 DEF CollectPoll, CollectPark, CollectWake
<1>7. ASSUME NEW c \in Conns, NEW i \in 0..MaxIndex, NEW k \in Kinds,
             Accept(c, i, k) \/ LegacyAccept(c, i, k)
      PROVE  QueueInv'
  BY <1>7, StreamsAssumption DEF Accept, LegacyAccept, Opened, LowestFree, FdInUse
<1>8. ASSUME NEW i \in StreamIds, LegacyCancelled(i) PROVE QueueInv'
  BY <1>8 DEF LegacyCancelled
<1>9. ASSUME NEW c \in Conns, Enqueue(c) PROVE QueueInv'
  BY <1>9 DEF Enqueue
<1>10. ASSUME NEW c \in Conns, Route(c), ~Enqueue(c) PROVE QueueInv'
  BY <1>10 DEF Route, FirstLineFails, DataHello, RouteDataHello, LegacyTurnAway, Enqueue,
     EnqueueFails, Closed
<1>11. ASSUME NEW c \in Conns, HandlerTask(c) PROVE QueueInv'
  BY <1>11 DEF HandlerTask, HandlerStart, HandlerConfigureFails, HandlerStore,
     HandlerRelease, HandlerJoin, HandlerClear
<1>12. ASSUME NEW c \in Conns, NEW d \in Halves, NEW result \in {"ok", "err"},
              half[c][d] \in {"on", "drain"}, LoopReturns(c, d, result)
       PROVE  QueueInv'
  <2>0. test.direction \in {"upload", "download", "bidir"}
    BY StreamsAssumption DEF TestTypeOK, TestStart
  <2>1. CASE test.direction = "bidir"
    BY <1>12, <2>1, StreamsAssumption DEF LoopReturns, LoopInv, HandlerTypeOK
  <2>2. CASE test.direction # "bidir"
    BY <1>12, <2>0, <2>2 DEF LoopReturns, LoopInv, HandlerTypeOK
  <2> QED
    BY <2>1, <2>2
<1>13. ASSUME NEW c \in Conns, ReceiveCancelled(c) PROVE QueueInv'
  BY <1>13 DEF ReceiveCancelled
<1>13a. ASSUME NEW c \in Conns, Receive(c) PROVE QueueInv'
  BY <1>13a DEF Receive
<1>14. ASSUME NEW c \in Conns, Client(c) PROVE QueueInv'
  BY <1>14 DEF Client, ClientSends, ClientEnds
<1>15. CASE UNCHANGED vars
  BY <1>15 DEF vars
<1> HIDE <1>0 DEF IInv, QueueInv, TypeOK, ConnTypeOK, CollTypeOK, connVars, collVars
<1>16. CASE Collect
  BY <1>3, <1>4, <1>5, <1>6, <1>16 DEF Collect, CollectPoll, CollectDone,
     CollectPark, CollectNone, CollectWake, CollectCancelled, CollectTimeout
<1>17. ASSUME NEW c \in Conns, NEW result \in {"ok", "err"}, SendReturns(c, result)
       PROVE  QueueInv'
  BY <1>12, <1>17 DEF SendReturns, Halves
<1>18. ASSUME NEW c \in Conns, ReceiveLoop(c) PROVE QueueInv'
  BY <1>12, <1>13, <1>18, <1>13a DEF ReceiveLoop, ReceiveEof, ReceiveError, Drain, Halves
<1> QED
  BY <1>1, <1>2, <1>7, <1>8, <1>9, <1>10, <1>11, <1>14, <1>15, <1>16, <1>17, <1>18
     DEF Next, Finished

\* No second handler of a stream, none for a stranger.
LEMMA RouteStep == IInv /\ [Next]_vars => RouteInv'
<1> SUFFICES ASSUME IInv, [Next]_vars PROVE RouteInv'
  OBVIOUS
<1>0. test' = test /\ Loops' = Loops
  BY TestFixed
<1> USE <1>0 DEF IInv, testVars, RouteInv, TypeOK, ConnTypeOK, CollTypeOK, connVars,
      collVars, Handled
<1>1. CASE AckFails
  BY <1>1 DEF AckFails, DropReceiver, remove_active_test
<1>2. CASE RunTest /\ ~AckFails
  BY <1>2 DEF RunTest, Register, SendAck, SpawnCollection, DropOwnHandles,
     CancelCommand, ReportEnds, ReportFails, JoinHandlers, RemoveTest, remove_active_test
<1>3. CASE EndCollection /\ coll # "off"
  BY <1>3, StreamsAssumption DEF EndCollection, DropReceiver
<1>4. CASE CollectReject
  BY <1>4, HeadQueued DEF CollectReject, Closed
<1>5. CASE CollectTake
  BY <1>5, HeadQueued DEF CollectTake
<1>6. CASE CollectPoll \/ CollectPark \/ CollectWake
  BY <1>6 DEF CollectPoll, CollectPark, CollectWake
<1>7. ASSUME NEW c \in Conns, NEW i \in 0..MaxIndex, NEW k \in Kinds,
             Accept(c, i, k) \/ LegacyAccept(c, i, k)
      PROVE  RouteInv'
  <2>1. CASE Accept(c, i, k)
    BY <2>1 DEF Accept, Opened
  <2>2. CASE LegacyAccept(c, i, k)
    BY <2>2 DEF LegacyAccept, Opened
  <2> QED
    BY <1>7, <2>1, <2>2
<1>8. ASSUME NEW i \in StreamIds, LegacyCancelled(i) PROVE RouteInv'
  BY <1>8 DEF LegacyCancelled
<1>9. ASSUME NEW c \in Conns, Enqueue(c) PROVE RouteInv'
  BY <1>9 DEF Enqueue
<1>10. ASSUME NEW c \in Conns, Route(c), ~Enqueue(c) PROVE RouteInv'
  BY <1>10 DEF Route, FirstLineFails, DataHello, RouteDataHello, LegacyTurnAway, Enqueue,
     EnqueueFails, Closed
<1>11. ASSUME NEW c \in Conns, HandlerTask(c) PROVE RouteInv'
  BY <1>11 DEF HandlerTask, HandlerStart, HandlerConfigureFails, HandlerStore,
     HandlerRelease, HandlerJoin, HandlerClear
<1>12. ASSUME NEW c \in Conns, NEW d \in Halves, NEW result \in {"ok", "err"},
              half[c][d] \in {"on", "drain"}, LoopReturns(c, d, result)
       PROVE  RouteInv'
  <2>0. test.direction \in {"upload", "download", "bidir"}
    BY StreamsAssumption DEF TestTypeOK, TestStart
  <2>1. CASE test.direction = "bidir"
    BY <1>12, <2>1, StreamsAssumption DEF LoopReturns, LoopInv, HandlerTypeOK
  <2>2. CASE test.direction # "bidir"
    BY <1>12, <2>0, <2>2 DEF LoopReturns, LoopInv, HandlerTypeOK
  <2> QED
    BY <2>1, <2>2
<1>13. ASSUME NEW c \in Conns, ReceiveCancelled(c) PROVE RouteInv'
  BY <1>13 DEF ReceiveCancelled
<1>13a. ASSUME NEW c \in Conns, Receive(c) PROVE RouteInv'
  BY <1>13a DEF Receive
<1>14. ASSUME NEW c \in Conns, Client(c) PROVE RouteInv'
  BY <1>14 DEF Client, ClientSends, ClientEnds
<1>15. CASE UNCHANGED vars
  BY <1>15 DEF vars
<1> HIDE <1>0 DEF IInv, RouteInv, TypeOK, ConnTypeOK, CollTypeOK, connVars, collVars,
      Handled
<1>16. CASE Collect
  BY <1>3, <1>4, <1>5, <1>6, <1>16 DEF Collect, CollectPoll, CollectDone,
     CollectPark, CollectNone, CollectWake, CollectCancelled, CollectTimeout
<1>17. ASSUME NEW c \in Conns, NEW result \in {"ok", "err"}, SendReturns(c, result)
       PROVE  RouteInv'
  BY <1>12, <1>17 DEF SendReturns, Halves
<1>18. ASSUME NEW c \in Conns, ReceiveLoop(c) PROVE RouteInv'
  BY <1>12, <1>13, <1>18, <1>13a DEF ReceiveLoop, ReceiveEof, ReceiveError, Drain, Halves
<1> QED
  BY <1>1, <1>2, <1>7, <1>8, <1>9, <1>10, <1>11, <1>14, <1>15, <1>16, <1>17, <1>18
     DEF Next, Finished

\* Running loops keep their own descriptor.
LEMMA FdStep == IInv /\ [Next]_vars => FdInv'
<1> SUFFICES ASSUME IInv, [Next]_vars PROVE FdInv'
  OBVIOUS
<1>0. test' = test /\ Loops' = Loops
  BY TestFixed
<1> USE <1>0 DEF IInv, testVars, FdInv, TypeOK, ConnTypeOK, HandlerTypeOK,
      StatsTypeOK, RouteInv, LoopInv, connVars, infoVars, Handled, NoFd, Halves, Loops
<1>1. CASE AckFails
  BY <1>1 DEF AckFails, DropReceiver, remove_active_test
<1>2. CASE RunTest /\ ~AckFails
  BY <1>2 DEF RunTest, Register, SendAck, SpawnCollection, DropOwnHandles,
     CancelCommand, ReportEnds, ReportFails, JoinHandlers, RemoveTest, remove_active_test
<1>3. CASE EndCollection /\ coll # "off"
  BY <1>3, StreamsAssumption DEF EndCollection, DropReceiver
<1>4. CASE CollectReject
  BY <1>4, HeadQueued DEF CollectReject, Closed
<1>5. CASE CollectTake
  BY <1>5, HeadQueued DEF CollectTake
<1>6. CASE CollectPoll \/ CollectPark \/ CollectWake
  BY <1>6 DEF CollectPoll, CollectPark, CollectWake
<1>7. ASSUME NEW c \in Conns, NEW i \in 0..MaxIndex, NEW k \in Kinds,
             Accept(c, i, k) \/ LegacyAccept(c, i, k)
      PROVE  FdInv'
  BY <1>7, StreamsAssumption DEF Accept, LegacyAccept, Opened, LowestFree, FdInUse
<1>8. ASSUME NEW i \in StreamIds, LegacyCancelled(i) PROVE FdInv'
  BY <1>8 DEF LegacyCancelled
<1>9. ASSUME NEW c \in Conns, Enqueue(c) PROVE FdInv'
  BY <1>9 DEF Enqueue
<1>10. ASSUME NEW c \in Conns, Route(c), ~Enqueue(c) PROVE FdInv'
  BY <1>10 DEF Route, FirstLineFails, DataHello, RouteDataHello, LegacyTurnAway, Enqueue,
     EnqueueFails, Closed
<1>11. ASSUME NEW c \in Conns, HandlerTask(c) PROVE FdInv'
  <2>1. CASE HandlerStart(c)
    <3> HIDE DEF FdInv, RouteInv, LoopInv, Handled, Halves, Loops, NoFd
    <3>1. /\ idx' = idx /\ fd' = fd
          /\ at[c] = "taken" /\ at' = [at EXCEPT ![c] = "moving"]
          /\ half' = [half EXCEPT ![c] = half'[c]]
          /\ tcp_info_fd' = [tcp_info_fd EXCEPT ![idx[c]] = fd[c]]
      BY <2>1 DEF HandlerStart
    <3>2. Handled(c) /\ idx[c] \in StreamIds
      BY <3>1 DEF Handled, RouteInv, CollTypeOK
    <3>3. fd[c] # NoFd /\ tcp_info_fd'[idx[c]] = fd[c]
      BY <3>1, <3>2 DEF FdInv
    <3>4. ASSUME NEW e \in Conns, NEW h \in Halves, half'[e][h] \in {"on", "drain"}, e # c
          PROVE  fd[e] # NoFd /\ tcp_info_fd'[idx[e]] = fd[e]
      <4>1. half[e][h] \in {"on", "drain"} /\ Handled(e)
        BY <3>1, <3>4 DEF LoopInv, Handled
      <4>2. idx[e] # idx[c] /\ idx[e] \in StreamIds
        BY <4>1, <3>2, <3>4 DEF RouteInv, CollTypeOK
      <4> QED
        BY <4>1, <4>2, <3>1, <3>4 DEF FdInv
    <3> QED
      BY <3>1, <3>3, <3>4 DEF FdInv
  <2>2. CASE HandlerConfigureFails(c)
    BY <2>2, StreamsAssumption DEF HandlerConfigureFails
  <2>3. CASE HandlerStore(c)
    BY <2>3, StreamsAssumption DEF HandlerStore
  <2>4. CASE HandlerRelease(c)
    BY <2>4, StreamsAssumption DEF HandlerRelease
  <2>5. CASE HandlerJoin(c)
    BY <2>5, StreamsAssumption DEF HandlerJoin
  <2>6. CASE HandlerClear(c)
    BY <2>6, StreamsAssumption DEF HandlerClear
  <2> QED
    BY <1>11, <2>1, <2>2, <2>3, <2>4, <2>5, <2>6 DEF HandlerTask
<1>12. ASSUME NEW c \in Conns, NEW d \in Halves, NEW result \in {"ok", "err"},
              half[c][d] \in {"on", "drain"}, LoopReturns(c, d, result)
       PROVE  FdInv'
  <2>0. test.direction \in {"upload", "download", "bidir"}
    BY StreamsAssumption DEF TestTypeOK, TestStart
  <2>1. CASE test.direction = "bidir"
    BY <1>12, <2>1, StreamsAssumption DEF LoopReturns
  <2>2. CASE test.direction # "bidir"
    BY <1>12, <2>0, <2>2 DEF LoopReturns
  <2> QED
    BY <2>1, <2>2
<1>13. ASSUME NEW c \in Conns, ReceiveCancelled(c) PROVE FdInv'
  BY <1>13 DEF ReceiveCancelled
<1>13a. ASSUME NEW c \in Conns, Receive(c) PROVE FdInv'
  BY <1>13a DEF Receive
<1>14. ASSUME NEW c \in Conns, Client(c) PROVE FdInv'
  BY <1>14 DEF Client, ClientSends, ClientEnds
<1>15. CASE UNCHANGED vars
  BY <1>15 DEF vars
<1> HIDE <1>0 DEF IInv, FdInv, TypeOK, ConnTypeOK, HandlerTypeOK, StatsTypeOK,
      RouteInv, LoopInv, connVars, infoVars, Handled, NoFd, Halves, Loops
<1>16. CASE Collect
  BY <1>3, <1>4, <1>5, <1>6, <1>16 DEF Collect, CollectPoll, CollectDone,
     CollectPark, CollectNone, CollectWake, CollectCancelled, CollectTimeout
<1>17. ASSUME NEW c \in Conns, NEW result \in {"ok", "err"}, SendReturns(c, result)
       PROVE  FdInv'
  BY <1>12, <1>17 DEF SendReturns, Halves
<1>18. ASSUME NEW c \in Conns, ReceiveLoop(c) PROVE FdInv'
  BY <1>12, <1>13, <1>18, <1>13a DEF ReceiveLoop, ReceiveEof, ReceiveError, Drain, Halves
<1> QED
  BY <1>1, <1>2, <1>7, <1>8, <1>9, <1>10, <1>11, <1>14, <1>15, <1>16, <1>17, <1>18
     DEF Next, Finished

\* Loops keep running inside their handlers.
LEMMA LoopStep == IInv /\ [Next]_vars => LoopInv'
<1> SUFFICES ASSUME IInv, [Next]_vars PROVE LoopInv'
  OBVIOUS
<1>0. test' = test /\ Loops' = Loops
  BY TestFixed
<1> USE <1>0 DEF IInv, testVars, LoopInv, TypeOK, ConnTypeOK, HandlerTypeOK,
      connVars, Halves, Loops
<1>1. CASE AckFails
  BY <1>1 DEF AckFails, DropReceiver, remove_active_test
<1>2. CASE RunTest /\ ~AckFails
  BY <1>2 DEF RunTest, Register, SendAck, SpawnCollection, DropOwnHandles,
     CancelCommand, ReportEnds, ReportFails, JoinHandlers, RemoveTest, remove_active_test
<1>3. CASE EndCollection /\ coll # "off"
  BY <1>3, StreamsAssumption DEF EndCollection, DropReceiver
<1>4. CASE CollectReject
  BY <1>4, HeadQueued DEF CollectReject, Closed
<1>5. CASE CollectTake
  BY <1>5, HeadQueued DEF CollectTake
<1>6. CASE CollectPoll \/ CollectPark \/ CollectWake
  BY <1>6 DEF CollectPoll, CollectPark, CollectWake
<1>7. ASSUME NEW c \in Conns, NEW i \in 0..MaxIndex, NEW k \in Kinds,
             Accept(c, i, k) \/ LegacyAccept(c, i, k)
      PROVE  LoopInv'
  BY <1>7, StreamsAssumption DEF Accept, LegacyAccept, Opened, LowestFree, FdInUse
<1>8. ASSUME NEW i \in StreamIds, LegacyCancelled(i) PROVE LoopInv'
  BY <1>8 DEF LegacyCancelled
<1>9. ASSUME NEW c \in Conns, Enqueue(c) PROVE LoopInv'
  BY <1>9 DEF Enqueue
<1>10. ASSUME NEW c \in Conns, Route(c), ~Enqueue(c) PROVE LoopInv'
  BY <1>10 DEF Route, FirstLineFails, DataHello, RouteDataHello, LegacyTurnAway, Enqueue,
     EnqueueFails, Closed
<1>11. ASSUME NEW c \in Conns, HandlerTask(c) PROVE LoopInv'
  BY <1>11 DEF HandlerTask, HandlerStart, HandlerConfigureFails, HandlerStore,
     HandlerRelease, HandlerJoin, HandlerClear
<1>12. ASSUME NEW c \in Conns, NEW d \in Halves, NEW result \in {"ok", "err"},
              half[c][d] \in {"on", "drain"}, LoopReturns(c, d, result)
       PROVE  LoopInv'
  <2>0. test.direction \in {"upload", "download", "bidir"}
    BY StreamsAssumption DEF TestTypeOK, TestStart
  <2>1. CASE test.direction = "bidir"
    BY <1>12, <2>1, StreamsAssumption DEF LoopReturns
  <2>2. CASE test.direction # "bidir"
    BY <1>12, <2>0, <2>2 DEF LoopReturns
  <2> QED
    BY <2>1, <2>2
<1>13. ASSUME NEW c \in Conns, ReceiveCancelled(c) PROVE LoopInv'
  BY <1>13 DEF ReceiveCancelled
<1>13a. ASSUME NEW c \in Conns, Receive(c) PROVE LoopInv'
  BY <1>13a DEF Receive
<1>14. ASSUME NEW c \in Conns, Client(c) PROVE LoopInv'
  BY <1>14 DEF Client, ClientSends, ClientEnds
<1>15. CASE UNCHANGED vars
  BY <1>15 DEF vars
<1> HIDE <1>0 DEF IInv, LoopInv, TypeOK, ConnTypeOK, HandlerTypeOK, connVars, Halves,
      Loops
<1>16. CASE Collect
  BY <1>3, <1>4, <1>5, <1>6, <1>16 DEF Collect, CollectPoll, CollectDone,
     CollectPark, CollectNone, CollectWake, CollectCancelled, CollectTimeout
<1>17. ASSUME NEW c \in Conns, NEW result \in {"ok", "err"}, SendReturns(c, result)
       PROVE  LoopInv'
  BY <1>12, <1>17 DEF SendReturns, Halves
<1>18. ASSUME NEW c \in Conns, ReceiveLoop(c) PROVE LoopInv'
  BY <1>12, <1>13, <1>18, <1>13a DEF ReceiveLoop, ReceiveEof, ReceiveError, Drain, Halves
<1> QED
  BY <1>1, <1>2, <1>7, <1>8, <1>9, <1>10, <1>11, <1>14, <1>15, <1>16, <1>17, <1>18
     DEF Next, Finished

\* No handler before the collection task.
LEMMA PhaseStep == IInv /\ [Next]_vars => PhaseInv'
<1> SUFFICES ASSUME IInv, [Next]_vars PROVE PhaseInv'
  OBVIOUS
<1>0. test' = test /\ Loops' = Loops
  BY TestFixed
<1> USE <1>0 DEF IInv, testVars, PhaseInv, TypeOK, ConnTypeOK, LoopInv,
      HandlerTypeOK, connVars, collVars, Handled
<1>1. CASE AckFails
  BY <1>1 DEF AckFails, DropReceiver, remove_active_test
<1>2. CASE RunTest /\ ~AckFails
  <2>1. CASE Register
    BY <2>1, StreamsAssumption DEF Register
  <2>2. CASE SendAck
    BY <2>2, StreamsAssumption DEF SendAck
  <2>3. CASE SpawnCollection
    BY <2>3, StreamsAssumption DEF SpawnCollection
  <2>4. CASE DropOwnHandles
    BY <2>4, StreamsAssumption DEF DropOwnHandles
  <2>5. CASE CancelCommand
    BY <2>5, StreamsAssumption DEF CancelCommand
  <2>6. CASE ReportEnds
    BY <2>6, StreamsAssumption DEF ReportEnds
  <2>7. CASE ReportFails
    BY <2>7, StreamsAssumption DEF ReportFails, remove_active_test
  <2>8. CASE JoinHandlers
    BY <2>8, StreamsAssumption DEF JoinHandlers
  <2>9. CASE RemoveTest
    BY <2>9, StreamsAssumption DEF RemoveTest, remove_active_test
  <2> QED
    BY <1>2, <2>1, <2>2, <2>3, <2>4, <2>5, <2>6, <2>7, <2>8, <2>9 DEF RunTest
<1>3. CASE EndCollection /\ coll # "off"
  BY <1>3, StreamsAssumption DEF EndCollection, DropReceiver
<1>4. CASE CollectReject
  BY <1>4, HeadQueued DEF CollectReject, Closed
<1>5. CASE CollectTake
  BY <1>5, HeadQueued DEF CollectTake
<1>6. CASE CollectPoll \/ CollectPark \/ CollectWake
  BY <1>6 DEF CollectPoll, CollectPark, CollectWake
<1>7. ASSUME NEW c \in Conns, NEW i \in 0..MaxIndex, NEW k \in Kinds,
             Accept(c, i, k) \/ LegacyAccept(c, i, k)
      PROVE  PhaseInv'
  BY <1>7, StreamsAssumption DEF Accept, LegacyAccept, Opened, LowestFree, FdInUse
<1>8. ASSUME NEW i \in StreamIds, LegacyCancelled(i) PROVE PhaseInv'
  BY <1>8 DEF LegacyCancelled
<1>9. ASSUME NEW c \in Conns, Enqueue(c) PROVE PhaseInv'
  BY <1>9 DEF Enqueue
<1>10. ASSUME NEW c \in Conns, Route(c), ~Enqueue(c) PROVE PhaseInv'
  BY <1>10 DEF Route, FirstLineFails, DataHello, RouteDataHello, LegacyTurnAway, Enqueue,
     EnqueueFails, Closed
<1>11. ASSUME NEW c \in Conns, HandlerTask(c) PROVE PhaseInv'
  BY <1>11 DEF HandlerTask, HandlerStart, HandlerConfigureFails, HandlerStore,
     HandlerRelease, HandlerJoin, HandlerClear
<1>12. ASSUME NEW c \in Conns, NEW d \in Halves, NEW result \in {"ok", "err"},
              half[c][d] \in {"on", "drain"}, LoopReturns(c, d, result)
       PROVE  PhaseInv'
  BY <1>12 DEF LoopReturns
<1>13. ASSUME NEW c \in Conns, ReceiveCancelled(c) PROVE PhaseInv'
  BY <1>13 DEF ReceiveCancelled
<1>13a. ASSUME NEW c \in Conns, Receive(c) PROVE PhaseInv'
  BY <1>13a DEF Receive
<1>14. ASSUME NEW c \in Conns, Client(c) PROVE PhaseInv'
  BY <1>14 DEF Client, ClientSends, ClientEnds
<1>15. CASE UNCHANGED vars
  BY <1>15 DEF vars
<1> HIDE <1>0 DEF IInv, PhaseInv, TypeOK, ConnTypeOK, LoopInv, HandlerTypeOK,
      connVars, collVars, Handled
<1>16. CASE Collect
  BY <1>3, <1>4, <1>5, <1>6, <1>16 DEF Collect, CollectPoll, CollectDone,
     CollectPark, CollectNone, CollectWake, CollectCancelled, CollectTimeout
<1>17. ASSUME NEW c \in Conns, NEW result \in {"ok", "err"}, SendReturns(c, result)
       PROVE  PhaseInv'
  BY <1>12, <1>17 DEF SendReturns, Halves
<1>18. ASSUME NEW c \in Conns, ReceiveLoop(c) PROVE PhaseInv'
  BY <1>12, <1>13, <1>18, <1>13a DEF ReceiveLoop, ReceiveEof, ReceiveError, Drain, Halves
<1> QED
  BY <1>1, <1>2, <1>7, <1>8, <1>9, <1>10, <1>11, <1>14, <1>15, <1>16, <1>17, <1>18
     DEF Next, Finished

\* recv_done stays open while it must.
LEMMA RecvDoneStep == IInv /\ [Next]_vars => RecvDoneInv'
<1> SUFFICES ASSUME IInv, [Next]_vars PROVE RecvDoneInv'
  OBVIOUS
<1>0. test' = test /\ Loops' = Loops
  BY TestFixed
<1> USE <1>0 DEF IInv, testVars, RecvDoneInv, TypeOK, ConnTypeOK, HandlerTypeOK,
      CollTypeOK, LoopInv, PhaseInv, HoldsUntilOver, connVars, collVars, doneVars,
      Halves, Loops, Handled
<1>1. CASE AckFails
  <2>1. \A c \in Conns : ~Handled(c)
    BY <1>1 DEF AckFails
  <2>2. \A c \in Conns, h \in Halves : half[c][h] \notin {"on", "drain"}
    BY <2>1
  <2> QED
    BY <1>1, <2>1, <2>2 DEF AckFails, DropReceiver, remove_active_test
<1>2. CASE RunTest /\ ~AckFails
  <2>1. CASE Register
    BY <2>1, StreamsAssumption DEF Register
  <2>2. CASE SendAck
    BY <2>2, StreamsAssumption DEF SendAck
  <2>3. CASE SpawnCollection
    BY <2>3, StreamsAssumption DEF SpawnCollection
  <2>4. CASE DropOwnHandles
    BY <2>4, StreamsAssumption DEF DropOwnHandles
  <2>5. CASE CancelCommand
    BY <2>5, StreamsAssumption DEF CancelCommand
  <2>6. CASE ReportEnds
    BY <2>6, StreamsAssumption DEF ReportEnds
  <2>7. CASE ReportFails
    BY <2>7, StreamsAssumption DEF ReportFails, remove_active_test
  <2>8. CASE JoinHandlers
    BY <2>8, StreamsAssumption DEF JoinHandlers
  <2>9. CASE RemoveTest
    BY <2>9, StreamsAssumption DEF RemoveTest, remove_active_test
  <2> QED
    BY <1>2, <2>1, <2>2, <2>3, <2>4, <2>5, <2>6, <2>7, <2>8, <2>9 DEF RunTest
<1>3. CASE EndCollection /\ coll # "off"
  BY <1>3, StreamsAssumption DEF EndCollection, DropReceiver
<1>4. CASE CollectReject
  BY <1>4, HeadQueued DEF CollectReject, Closed
<1>5. CASE CollectTake
  BY <1>5, HeadQueued DEF CollectTake
<1>6. CASE CollectPoll \/ CollectPark \/ CollectWake
  BY <1>6 DEF CollectPoll, CollectPark, CollectWake
<1>7. ASSUME NEW c \in Conns, NEW i \in 0..MaxIndex, NEW k \in Kinds,
             Accept(c, i, k) \/ LegacyAccept(c, i, k)
      PROVE  RecvDoneInv'
  BY <1>7, StreamsAssumption DEF Accept, LegacyAccept, Opened, LowestFree, FdInUse
<1>8. ASSUME NEW i \in StreamIds, LegacyCancelled(i) PROVE RecvDoneInv'
  BY <1>8 DEF LegacyCancelled
<1>9. ASSUME NEW c \in Conns, Enqueue(c) PROVE RecvDoneInv'
  BY <1>9 DEF Enqueue
<1>10. ASSUME NEW c \in Conns, Route(c), ~Enqueue(c) PROVE RecvDoneInv'
  BY <1>10 DEF Route, FirstLineFails, DataHello, RouteDataHello, LegacyTurnAway, Enqueue,
     EnqueueFails, Closed
<1>11. ASSUME NEW c \in Conns, HandlerTask(c) PROVE RecvDoneInv'
  <2>1. CASE HandlerStart(c)
    BY <2>1, StreamsAssumption DEF HandlerStart
  <2>2. CASE HandlerConfigureFails(c)
    BY <2>2, StreamsAssumption DEF HandlerConfigureFails
  <2>3. CASE HandlerStore(c)
    BY <2>3, StreamsAssumption DEF HandlerStore
  <2>4. CASE HandlerRelease(c)
    BY <2>4, StreamsAssumption DEF HandlerRelease
  <2>5. CASE HandlerJoin(c)
    BY <2>5, StreamsAssumption DEF HandlerJoin
  <2>6. CASE HandlerClear(c)
    BY <2>6, StreamsAssumption DEF HandlerClear
  <2> QED
    BY <1>11, <2>1, <2>2, <2>3, <2>4, <2>5, <2>6 DEF HandlerTask
<1>12. ASSUME NEW c \in Conns, NEW d \in Halves, NEW result \in {"ok", "err"},
              half[c][d] \in {"on", "drain"}, LoopReturns(c, d, result)
       PROVE  RecvDoneInv'
  <2>0. test.direction \in {"upload", "download", "bidir"}
    BY StreamsAssumption DEF TestTypeOK, TestStart
  <2>1. CASE test.direction = "bidir"
    BY <1>12, <2>1, StreamsAssumption DEF LoopReturns
  <2>2. CASE test.direction # "bidir"
    BY <1>12, <2>0, <2>2 DEF LoopReturns
  <2> QED
    BY <2>1, <2>2
<1>13. ASSUME NEW c \in Conns, ReceiveCancelled(c) PROVE RecvDoneInv'
  BY <1>13 DEF ReceiveCancelled
<1>13a. ASSUME NEW c \in Conns, Receive(c) PROVE RecvDoneInv'
  BY <1>13a DEF Receive
<1>14. ASSUME NEW c \in Conns, Client(c) PROVE RecvDoneInv'
  BY <1>14 DEF Client, ClientSends, ClientEnds
<1>15. CASE UNCHANGED vars
  BY <1>15 DEF vars
<1> HIDE <1>0 DEF IInv, RecvDoneInv, TypeOK, ConnTypeOK, HandlerTypeOK, CollTypeOK,
      LoopInv, PhaseInv, HoldsUntilOver, connVars, collVars, doneVars, Halves, Loops,
      Handled
<1>16. CASE Collect
  BY <1>3, <1>4, <1>5, <1>6, <1>16 DEF Collect, CollectPoll, CollectDone,
     CollectPark, CollectNone, CollectWake, CollectCancelled, CollectTimeout
<1>17. ASSUME NEW c \in Conns, NEW result \in {"ok", "err"}, SendReturns(c, result)
       PROVE  RecvDoneInv'
  BY <1>12, <1>17 DEF SendReturns, Halves
<1>18. ASSUME NEW c \in Conns, ReceiveLoop(c) PROVE RecvDoneInv'
  BY <1>12, <1>13, <1>18, <1>13a DEF ReceiveLoop, ReceiveEof, ReceiveError, Drain, Halves
<1> QED
  BY <1>1, <1>2, <1>7, <1>8, <1>9, <1>10, <1>11, <1>14, <1>15, <1>16, <1>17, <1>18
     DEF Next, Finished

\* sending_done stays open while it must.
LEMMA SendDoneStep == IInv /\ [Next]_vars => SendDoneInv'
<1> SUFFICES ASSUME IInv, [Next]_vars PROVE SendDoneInv'
  OBVIOUS
<1>0. test' = test /\ Loops' = Loops
  BY TestFixed
<1> USE <1>0 DEF IInv, testVars, SendDoneInv, TypeOK, ConnTypeOK, HandlerTypeOK,
      CollTypeOK, LoopInv, PhaseInv, HoldsUntilOver, connVars, collVars, doneVars,
      Halves, Loops, Handled
<1>1. CASE AckFails
  <2>1. \A c \in Conns : ~Handled(c)
    BY <1>1 DEF AckFails
  <2>2. \A c \in Conns, h \in Halves : half[c][h] \notin {"on", "drain"}
    BY <2>1
  <2> QED
    BY <1>1, <2>1, <2>2 DEF AckFails, DropReceiver, remove_active_test
<1>2. CASE RunTest /\ ~AckFails
  <2>1. CASE Register
    BY <2>1, StreamsAssumption DEF Register
  <2>2. CASE SendAck
    BY <2>2, StreamsAssumption DEF SendAck
  <2>3. CASE SpawnCollection
    BY <2>3, StreamsAssumption DEF SpawnCollection
  <2>4. CASE DropOwnHandles
    BY <2>4, StreamsAssumption DEF DropOwnHandles
  <2>5. CASE CancelCommand
    BY <2>5, StreamsAssumption DEF CancelCommand
  <2>6. CASE ReportEnds
    BY <2>6, StreamsAssumption DEF ReportEnds
  <2>7. CASE ReportFails
    BY <2>7, StreamsAssumption DEF ReportFails, remove_active_test
  <2>8. CASE JoinHandlers
    BY <2>8, StreamsAssumption DEF JoinHandlers
  <2>9. CASE RemoveTest
    BY <2>9, StreamsAssumption DEF RemoveTest, remove_active_test
  <2> QED
    BY <1>2, <2>1, <2>2, <2>3, <2>4, <2>5, <2>6, <2>7, <2>8, <2>9 DEF RunTest
<1>3. CASE EndCollection /\ coll # "off"
  BY <1>3, StreamsAssumption DEF EndCollection, DropReceiver
<1>4. CASE CollectReject
  BY <1>4, HeadQueued DEF CollectReject, Closed
<1>5. CASE CollectTake
  BY <1>5, HeadQueued DEF CollectTake
<1>6. CASE CollectPoll \/ CollectPark \/ CollectWake
  BY <1>6 DEF CollectPoll, CollectPark, CollectWake
<1>7. ASSUME NEW c \in Conns, NEW i \in 0..MaxIndex, NEW k \in Kinds,
             Accept(c, i, k) \/ LegacyAccept(c, i, k)
      PROVE  SendDoneInv'
  BY <1>7, StreamsAssumption DEF Accept, LegacyAccept, Opened, LowestFree, FdInUse
<1>8. ASSUME NEW i \in StreamIds, LegacyCancelled(i) PROVE SendDoneInv'
  BY <1>8 DEF LegacyCancelled
<1>9. ASSUME NEW c \in Conns, Enqueue(c) PROVE SendDoneInv'
  BY <1>9 DEF Enqueue
<1>10. ASSUME NEW c \in Conns, Route(c), ~Enqueue(c) PROVE SendDoneInv'
  BY <1>10 DEF Route, FirstLineFails, DataHello, RouteDataHello, LegacyTurnAway, Enqueue,
     EnqueueFails, Closed
<1>11. ASSUME NEW c \in Conns, HandlerTask(c) PROVE SendDoneInv'
  <2>1. CASE HandlerStart(c)
    BY <2>1, StreamsAssumption DEF HandlerStart
  <2>2. CASE HandlerConfigureFails(c)
    BY <2>2, StreamsAssumption DEF HandlerConfigureFails
  <2>3. CASE HandlerStore(c)
    BY <2>3, StreamsAssumption DEF HandlerStore
  <2>4. CASE HandlerRelease(c)
    BY <2>4, StreamsAssumption DEF HandlerRelease
  <2>5. CASE HandlerJoin(c)
    BY <2>5, StreamsAssumption DEF HandlerJoin
  <2>6. CASE HandlerClear(c)
    BY <2>6, StreamsAssumption DEF HandlerClear
  <2> QED
    BY <1>11, <2>1, <2>2, <2>3, <2>4, <2>5, <2>6 DEF HandlerTask
<1>12. ASSUME NEW c \in Conns, NEW d \in Halves, NEW result \in {"ok", "err"},
              half[c][d] \in {"on", "drain"}, LoopReturns(c, d, result)
       PROVE  SendDoneInv'
  <2>0. test.direction \in {"upload", "download", "bidir"}
    BY StreamsAssumption DEF TestTypeOK, TestStart
  <2>1. CASE test.direction = "bidir"
    BY <1>12, <2>1, StreamsAssumption DEF LoopReturns
  <2>2. CASE test.direction # "bidir"
    BY <1>12, <2>0, <2>2 DEF LoopReturns
  <2> QED
    BY <2>1, <2>2
<1>13. ASSUME NEW c \in Conns, ReceiveCancelled(c) PROVE SendDoneInv'
  BY <1>13 DEF ReceiveCancelled
<1>13a. ASSUME NEW c \in Conns, Receive(c) PROVE SendDoneInv'
  BY <1>13a DEF Receive
<1>14. ASSUME NEW c \in Conns, Client(c) PROVE SendDoneInv'
  BY <1>14 DEF Client, ClientSends, ClientEnds
<1>15. CASE UNCHANGED vars
  BY <1>15 DEF vars
<1> HIDE <1>0 DEF IInv, SendDoneInv, TypeOK, ConnTypeOK, HandlerTypeOK, CollTypeOK,
      LoopInv, PhaseInv, HoldsUntilOver, connVars, collVars, doneVars, Halves, Loops,
      Handled
<1>16. CASE Collect
  BY <1>3, <1>4, <1>5, <1>6, <1>16 DEF Collect, CollectPoll, CollectDone,
     CollectPark, CollectNone, CollectWake, CollectCancelled, CollectTimeout
<1>17. ASSUME NEW c \in Conns, NEW result \in {"ok", "err"}, SendReturns(c, result)
       PROVE  SendDoneInv'
  BY <1>12, <1>17 DEF SendReturns, Halves
<1>18. ASSUME NEW c \in Conns, ReceiveLoop(c) PROVE SendDoneInv'
  BY <1>12, <1>13, <1>18, <1>13a DEF ReceiveLoop, ReceiveEof, ReceiveError, Drain, Halves
<1> QED
  BY <1>1, <1>2, <1>7, <1>8, <1>9, <1>10, <1>11, <1>14, <1>15, <1>16, <1>17, <1>18
     DEF Next, Finished

\* Final snapshots stay.
LEMMA FinalStep == IInv /\ [Next]_vars => FinalInv'
<1> SUFFICES ASSUME IInv, [Next]_vars PROVE FinalInv'
  OBVIOUS
<1>0. test' = test /\ Loops' = Loops
  BY TestFixed
<1> USE <1>0 DEF IInv, testVars, FinalInv, TypeOK, ConnTypeOK, HandlerTypeOK,
      StatsTypeOK, RouteInv, LoopInv, connVars, infoVars, Halves, Handled
<1>1. CASE AckFails
  BY <1>1 DEF AckFails, DropReceiver, remove_active_test
<1>2. CASE RunTest /\ ~AckFails
  BY <1>2 DEF RunTest, Register, SendAck, SpawnCollection, DropOwnHandles,
     CancelCommand, ReportEnds, ReportFails, JoinHandlers, RemoveTest, remove_active_test
<1>3. CASE EndCollection /\ coll # "off"
  BY <1>3, StreamsAssumption DEF EndCollection, DropReceiver
<1>4. CASE CollectReject
  BY <1>4, HeadQueued DEF CollectReject, Closed
<1>5. CASE CollectTake
  BY <1>5, HeadQueued DEF CollectTake
<1>6. CASE CollectPoll \/ CollectPark \/ CollectWake
  BY <1>6 DEF CollectPoll, CollectPark, CollectWake
<1>7. ASSUME NEW c \in Conns, NEW i \in 0..MaxIndex, NEW k \in Kinds,
             Accept(c, i, k) \/ LegacyAccept(c, i, k)
      PROVE  FinalInv'
  BY <1>7, StreamsAssumption DEF Accept, LegacyAccept, Opened, LowestFree, FdInUse
<1>8. ASSUME NEW i \in StreamIds, LegacyCancelled(i) PROVE FinalInv'
  BY <1>8 DEF LegacyCancelled
<1>9. ASSUME NEW c \in Conns, Enqueue(c) PROVE FinalInv'
  BY <1>9 DEF Enqueue
<1>10. ASSUME NEW c \in Conns, Route(c), ~Enqueue(c) PROVE FinalInv'
  BY <1>10 DEF Route, FirstLineFails, DataHello, RouteDataHello, LegacyTurnAway, Enqueue,
     EnqueueFails, Closed
<1>11. ASSUME NEW c \in Conns, HandlerTask(c) PROVE FinalInv'
  <2>1. CASE HandlerStart(c)
    BY <2>1, StreamsAssumption DEF HandlerStart
  <2>2. CASE HandlerConfigureFails(c)
    BY <2>2, StreamsAssumption DEF HandlerConfigureFails
  <2>3. CASE HandlerStore(c)
    <3> HIDE DEF FinalInv, RouteInv, LoopInv, Handled
    <3>1. /\ idx' = idx /\ half' = half
          /\ at[c] = "ended" /\ at' = [at EXCEPT ![c] = "stored"]
          /\ \A i \in StreamIds : i # idx[c] => final_tcp_info'[i] = final_tcp_info[i]
      BY <2>3 DEF HandlerStore
    <3>2. Handled(c) /\ idx[c] \in StreamIds
      BY <3>1 DEF Handled, RouteInv, CollTypeOK
    <3>3. (\E h \in Halves : half[c][h] = "ok") => final_tcp_info'[idx[c]] = c
      BY <2>3, <3>2 DEF HandlerStore, LoopInv
    <3>4. ASSUME NEW e \in Conns, e # c, at[e] \in {"stored", "released", "over"}
          PROVE  final_tcp_info'[idx[e]] = final_tcp_info[idx[e]]
      <4>1. Handled(e)
        BY <3>4 DEF Handled
      <4>2. idx[e] # idx[c] /\ idx[e] \in StreamIds
        BY <4>1, <3>2, <3>4 DEF RouteInv, CollTypeOK
      <4> QED
        BY <4>2, <3>1
    <3> QED
      BY <3>1, <3>3, <3>4 DEF FinalInv
  <2>4. CASE HandlerRelease(c)
    BY <2>4, StreamsAssumption DEF HandlerRelease
  <2>5. CASE HandlerJoin(c)
    BY <2>5, StreamsAssumption DEF HandlerJoin
  <2>6. CASE HandlerClear(c)
    BY <2>6, StreamsAssumption DEF HandlerClear
  <2> QED
    BY <1>11, <2>1, <2>2, <2>3, <2>4, <2>5, <2>6 DEF HandlerTask
<1>12. ASSUME NEW c \in Conns, NEW d \in Halves, NEW result \in {"ok", "err"},
              half[c][d] \in {"on", "drain"}, LoopReturns(c, d, result)
       PROVE  FinalInv'
  BY <1>12 DEF LoopReturns
<1>13. ASSUME NEW c \in Conns, ReceiveCancelled(c) PROVE FinalInv'
  BY <1>13 DEF ReceiveCancelled
<1>13a. ASSUME NEW c \in Conns, Receive(c) PROVE FinalInv'
  BY <1>13a DEF Receive
<1>14. ASSUME NEW c \in Conns, Client(c) PROVE FinalInv'
  BY <1>14 DEF Client, ClientSends, ClientEnds
<1>15. CASE UNCHANGED vars
  BY <1>15 DEF vars
<1> HIDE <1>0 DEF IInv, FinalInv, TypeOK, ConnTypeOK, HandlerTypeOK, StatsTypeOK,
      RouteInv, LoopInv, connVars, infoVars, Halves, Handled
<1>16. CASE Collect
  BY <1>3, <1>4, <1>5, <1>6, <1>16 DEF Collect, CollectPoll, CollectDone,
     CollectPark, CollectNone, CollectWake, CollectCancelled, CollectTimeout
<1>17. ASSUME NEW c \in Conns, NEW result \in {"ok", "err"}, SendReturns(c, result)
       PROVE  FinalInv'
  BY <1>12, <1>17 DEF SendReturns, Halves
<1>18. ASSUME NEW c \in Conns, ReceiveLoop(c) PROVE FinalInv'
  BY <1>12, <1>13, <1>18, <1>13a DEF ReceiveLoop, ReceiveEof, ReceiveError, Drain, Halves
<1> QED
  BY <1>1, <1>2, <1>7, <1>8, <1>9, <1>10, <1>11, <1>14, <1>15, <1>16, <1>17, <1>18
     DEF Next, Finished

-----------------------------------------------------------------------------
\* The initial states satisfy the invariant.
LEMMA InitInv == Init => IInv
<1> SUFFICES ASSUME Init PROVE IInv
  OBVIOUS
<1> USE StreamsAssumption DEF Init
<1>1. TestTypeOK
  BY DEF TestTypeOK
<1>1a. CollTypeOK
  BY DEF CollTypeOK
<1>2. ConnTypeOK
  BY DEF ConnTypeOK, NoFd
<1>3. HandlerTypeOK
  BY DEF HandlerTypeOK
<1>4. StatsTypeOK /\ ClientTypeOK
  BY DEF StatsTypeOK, ClientTypeOK
<1>5. QueueInv /\ RouteInv /\ PhaseInv
  BY DEF QueueInv, RouteInv, PhaseInv, Handled
<1>6. \A c \in Conns, h \in Halves : half[c][h] = "none"
  OBVIOUS
<1>7. FdInv /\ LoopInv /\ FinalInv
  BY <1>6 DEF FdInv, LoopInv, FinalInv
<1>8. RecvDoneInv /\ SendDoneInv
  BY <1>6 DEF RecvDoneInv, SendDoneInv, HoldsUntilOver, Halves
<1> QED
  BY <1>1, <1>1a, <1>2, <1>3, <1>4, <1>5, <1>7, <1>8 DEF IInv, TypeOK

\* IInv is an invariant of the data plane.
THEOREM Invariant == Spec => []IInv
<1>1. IInv /\ [Next]_vars => IInv'
  <2> SUFFICES ASSUME IInv, [Next]_vars PROVE IInv'
    OBVIOUS
  <2>1. TypeOK'
    BY TestTypeStep, ConnTypeStep, CollTypeStep, HandlerTypeStep, StatsTypeStep,
       ClientTypeStep DEF IInv, TypeOK
  <2> QED
    BY <2>1, QueueStep, RouteStep, FdStep, LoopStep, PhaseStep, RecvDoneStep,
       SendDoneStep, FinalStep DEF IInv
<1> QED
  BY InitInv, <1>1, PTL DEF Spec

\* Every state of the data plane is well typed.
THEOREM TypeCorrect == Spec => []TypeOK
BY Invariant, PTL DEF IInv

\* No stream of a test ever has two handlers, whatever the data connections claim.
THEOREM HandlersAreUnique == Spec => []OneHandlerPerStream
<1>1. IInv => OneHandlerPerStream
  BY DEF IInv, TypeOK, CollTypeOK, RouteInv, OneHandlerPerStream
<1> QED
  BY Invariant, <1>1, PTL

\* Nothing is held or running before it is started.
LEMMA FreshStep == IInv /\ FreshInv /\ [Next]_vars => FreshInv'
<1> SUFFICES ASSUME IInv, FreshInv, [Next]_vars PROVE FreshInv'
  OBVIOUS
<1>0. test' = test /\ Loops' = Loops
  BY TestFixed
<1> USE <1>0 DEF IInv, testVars, FreshInv, TypeOK, ConnTypeOK, HandlerTypeOK,
      CollTypeOK, LoopInv, PhaseInv, connVars, collVars, doneVars, Halves, Loops,
      Handled
<1>1. CASE AckFails
  <2>1. \A c \in Conns : ~Handled(c)
    BY <1>1 DEF AckFails
  <2>2. \A c \in Conns, h \in Halves : half[c][h] \notin {"on", "drain"}
    BY <2>1
  <2> QED
    BY <1>1, <2>1, <2>2 DEF AckFails, DropReceiver, remove_active_test
<1>2. CASE RunTest /\ ~AckFails
  <2>1. CASE Register
    BY <2>1, StreamsAssumption DEF Register
  <2>2. CASE SendAck
    BY <2>2, StreamsAssumption DEF SendAck
  <2>3. CASE SpawnCollection
    BY <2>3, StreamsAssumption DEF SpawnCollection
  <2>4. CASE DropOwnHandles
    BY <2>4, StreamsAssumption DEF DropOwnHandles
  <2>5. CASE CancelCommand
    BY <2>5, StreamsAssumption DEF CancelCommand
  <2>6. CASE ReportEnds
    BY <2>6, StreamsAssumption DEF ReportEnds
  <2>7. CASE ReportFails
    BY <2>7, StreamsAssumption DEF ReportFails, remove_active_test
  <2>8. CASE JoinHandlers
    BY <2>8, StreamsAssumption DEF JoinHandlers
  <2>9. CASE RemoveTest
    BY <2>9, StreamsAssumption DEF RemoveTest, remove_active_test
  <2> QED
    BY <1>2, <2>1, <2>2, <2>3, <2>4, <2>5, <2>6, <2>7, <2>8, <2>9 DEF RunTest
<1>3. CASE EndCollection /\ coll # "off"
  BY <1>3, StreamsAssumption DEF EndCollection, DropReceiver
<1>4. CASE CollectReject
  BY <1>4, HeadQueued DEF CollectReject, Closed
<1>5. CASE CollectTake
  BY <1>5, HeadQueued DEF CollectTake
<1>6. CASE CollectPoll \/ CollectPark \/ CollectWake
  BY <1>6 DEF CollectPoll, CollectPark, CollectWake
<1>7. ASSUME NEW c \in Conns, NEW i \in 0..MaxIndex, NEW k \in Kinds,
             Accept(c, i, k) \/ LegacyAccept(c, i, k)
      PROVE  FreshInv'
  <2>1. /\ at[c] = "idle"
        /\ \E w \in {"hello", "routing", "turned"} : at' = [at EXCEPT ![c] = w]
        /\ UNCHANGED <<main, coll, half, sending_done, recv_done>>
    BY <1>7 DEF Accept, LegacyAccept, Opened
  <2>2. \A e \in Conns : Handled(e)' = Handled(e) /\ (Handled(e) => at'[e] = at[e])
    BY <2>1
  <2> QED
    BY <2>1, <2>2
<1>8. ASSUME NEW i \in StreamIds, LegacyCancelled(i) PROVE FreshInv'
  BY <1>8 DEF LegacyCancelled
<1>9. ASSUME NEW c \in Conns, Enqueue(c) PROVE FreshInv'
  BY <1>9 DEF Enqueue
<1>10. ASSUME NEW c \in Conns, Route(c), ~Enqueue(c) PROVE FreshInv'
  <2>1. /\ ~Handled(c)
        /\ \E w \in {"unread", "known", "routing", "closed"} : at' = [at EXCEPT ![c] = w]
        /\ UNCHANGED <<main, coll, half, sending_done, recv_done>>
    BY <1>10 DEF Route, FirstLineFails, DataHello, RouteDataHello, LegacyTurnAway,
       EnqueueFails, Closed
  <2>2. \A e \in Conns : Handled(e)' = Handled(e) /\ (Handled(e) => at'[e] = at[e])
    BY <2>1
  <2> QED
    BY <2>1, <2>2
<1>11. ASSUME NEW c \in Conns, HandlerTask(c) PROVE FreshInv'
  <2>1. CASE HandlerStart(c)
    BY <2>1, StreamsAssumption DEF HandlerStart
  <2>2. CASE HandlerConfigureFails(c)
    BY <2>2, StreamsAssumption DEF HandlerConfigureFails
  <2>3. CASE HandlerStore(c)
    BY <2>3, StreamsAssumption DEF HandlerStore
  <2>4. CASE HandlerRelease(c)
    BY <2>4, StreamsAssumption DEF HandlerRelease
  <2>5. CASE HandlerJoin(c)
    BY <2>5, StreamsAssumption DEF HandlerJoin
  <2>6. CASE HandlerClear(c)
    BY <2>6, StreamsAssumption DEF HandlerClear
  <2> QED
    BY <1>11, <2>1, <2>2, <2>3, <2>4, <2>5, <2>6 DEF HandlerTask
<1>12. ASSUME NEW c \in Conns, NEW d \in Halves, NEW result \in {"ok", "err"},
              half[c][d] \in {"on", "drain"}, LoopReturns(c, d, result)
       PROVE  FreshInv'
  <2>0. test.direction \in {"upload", "download", "bidir"}
    BY StreamsAssumption DEF TestTypeOK, TestStart
  <2>1. CASE test.direction = "bidir"
    BY <1>12, <2>1, StreamsAssumption DEF LoopReturns
  <2>2. CASE test.direction # "bidir"
    BY <1>12, <2>0, <2>2 DEF LoopReturns
  <2> QED
    BY <2>1, <2>2
<1>13. ASSUME NEW c \in Conns, ReceiveCancelled(c) PROVE FreshInv'
  BY <1>13 DEF ReceiveCancelled
<1>13a. ASSUME NEW c \in Conns, Receive(c) PROVE FreshInv'
  BY <1>13a DEF Receive
<1>14. ASSUME NEW c \in Conns, Client(c) PROVE FreshInv'
  BY <1>14 DEF Client, ClientSends, ClientEnds
<1>15. CASE UNCHANGED vars
  BY <1>15 DEF vars
<1> HIDE <1>0 DEF IInv, FreshInv, TypeOK, ConnTypeOK, HandlerTypeOK, CollTypeOK,
      LoopInv, PhaseInv, connVars, collVars, doneVars, Halves, Loops, Handled
<1>16. CASE Collect
  BY <1>3, <1>4, <1>5, <1>6, <1>16 DEF Collect, CollectPoll, CollectDone,
     CollectPark, CollectNone, CollectWake, CollectCancelled, CollectTimeout
<1>17. ASSUME NEW c \in Conns, NEW result \in {"ok", "err"}, SendReturns(c, result)
       PROVE  FreshInv'
  BY <1>12, <1>17 DEF SendReturns, Halves
<1>18. ASSUME NEW c \in Conns, ReceiveLoop(c) PROVE FreshInv'
  BY <1>12, <1>13, <1>18, <1>13a DEF ReceiveLoop, ReceiveEof, ReceiveError, Drain, Halves
<1> QED
  BY <1>1, <1>2, <1>7, <1>8, <1>9, <1>10, <1>11, <1>14, <1>15, <1>16, <1>17, <1>18
     DEF Next, Finished

\* Whoever holds a sender of sending_done still has a reason to.
LEMMA SendHeldStep == IInv /\ HolderInv /\ [Next]_vars => Held(sending_done, "send")'
<1> SUFFICES ASSUME IInv, HolderInv, [Next]_vars PROVE Held(sending_done, "send")'
  OBVIOUS
<1>0. test' = test /\ Loops' = Loops
  BY TestFixed
<1> USE <1>0 DEF IInv, testVars, HolderInv, FreshInv, Held, Holder, TypeOK, ConnTypeOK,
      HandlerTypeOK, CollTypeOK, PhaseInv, LoopInv, connVars, collVars, doneVars, Halves,
      Loops, Handled
<1>1. CASE AckFails
  <2>1. \A c \in Conns : ~Handled(c)
    BY <1>1 DEF AckFails
  <2>2. \A c \in Conns, h \in Halves : half[c][h] \notin {"on", "drain"}
    BY <2>1
  <2> QED
    BY <1>1, <2>1, <2>2 DEF AckFails, DropReceiver, remove_active_test
<1>2. CASE RunTest /\ ~AckFails
  <2>1. CASE Register
    BY <2>1, StreamsAssumption DEF Register
  <2>2. CASE SendAck
    BY <2>2, StreamsAssumption DEF SendAck
  <2>3. CASE SpawnCollection
    BY <2>3, StreamsAssumption DEF SpawnCollection
  <2>4. CASE DropOwnHandles
    BY <2>4, StreamsAssumption DEF DropOwnHandles
  <2>5. CASE CancelCommand
    BY <2>5, StreamsAssumption DEF CancelCommand
  <2>6. CASE ReportEnds
    BY <2>6, StreamsAssumption DEF ReportEnds
  <2>7. CASE ReportFails
    BY <2>7, StreamsAssumption DEF ReportFails, remove_active_test
  <2>8. CASE JoinHandlers
    BY <2>8, StreamsAssumption DEF JoinHandlers
  <2>9. CASE RemoveTest
    BY <2>9, StreamsAssumption DEF RemoveTest, remove_active_test
  <2> QED
    BY <1>2, <2>1, <2>2, <2>3, <2>4, <2>5, <2>6, <2>7, <2>8, <2>9 DEF RunTest
<1>3. CASE EndCollection /\ coll # "off"
  BY <1>3, StreamsAssumption DEF EndCollection, DropReceiver
<1>4. CASE CollectReject
  BY <1>4, HeadQueued DEF CollectReject, Closed
<1>5. CASE CollectTake
  BY <1>5, HeadQueued DEF CollectTake
<1>6. CASE CollectPoll \/ CollectPark \/ CollectWake
  BY <1>6 DEF CollectPoll, CollectPark, CollectWake
<1>7. ASSUME NEW c \in Conns, NEW i \in 0..MaxIndex, NEW k \in Kinds,
             Accept(c, i, k) \/ LegacyAccept(c, i, k)
      PROVE  Held(sending_done, "send")'
  <2>1. /\ at[c] = "idle"
        /\ \E w \in {"hello", "routing", "turned"} : at' = [at EXCEPT ![c] = w]
        /\ UNCHANGED <<main, coll, half, sending_done, recv_done>>
    BY <1>7 DEF Accept, LegacyAccept, Opened
  <2>2. \A e \in Conns : Handled(e)' = Handled(e) /\ (Handled(e) => at'[e] = at[e])
    BY <2>1
  <2> QED
    BY <2>1, <2>2
<1>8. ASSUME NEW i \in StreamIds, LegacyCancelled(i) PROVE Held(sending_done, "send")'
  BY <1>8 DEF LegacyCancelled
<1>9. ASSUME NEW c \in Conns, Enqueue(c) PROVE Held(sending_done, "send")'
  BY <1>9 DEF Enqueue
<1>10. ASSUME NEW c \in Conns, Route(c), ~Enqueue(c) PROVE Held(sending_done, "send")'
  <2>1. /\ ~Handled(c)
        /\ \E w \in {"unread", "known", "routing", "closed"} : at' = [at EXCEPT ![c] = w]
        /\ UNCHANGED <<main, coll, half, sending_done, recv_done>>
    BY <1>10 DEF Route, FirstLineFails, DataHello, RouteDataHello, LegacyTurnAway,
       EnqueueFails, Closed
  <2>2. \A e \in Conns : Handled(e)' = Handled(e) /\ (Handled(e) => at'[e] = at[e])
    BY <2>1
  <2> QED
    BY <2>1, <2>2
<1>11. ASSUME NEW c \in Conns, HandlerTask(c) PROVE Held(sending_done, "send")'
  <2>1. CASE HandlerStart(c)
    BY <2>1, StreamsAssumption DEF HandlerStart
  <2>2. CASE HandlerConfigureFails(c)
    BY <2>2, StreamsAssumption DEF HandlerConfigureFails
  <2>3. CASE HandlerStore(c)
    BY <2>3, StreamsAssumption DEF HandlerStore
  <2>4. CASE HandlerRelease(c)
    BY <2>4, StreamsAssumption DEF HandlerRelease
  <2>5. CASE HandlerJoin(c)
    BY <2>5, StreamsAssumption DEF HandlerJoin
  <2>6. CASE HandlerClear(c)
    BY <2>6, StreamsAssumption DEF HandlerClear
  <2> QED
    BY <1>11, <2>1, <2>2, <2>3, <2>4, <2>5, <2>6 DEF HandlerTask
<1>12. ASSUME NEW c \in Conns, NEW d \in Halves, NEW result \in {"ok", "err"},
              half[c][d] \in {"on", "drain"}, LoopReturns(c, d, result)
       PROVE  Held(sending_done, "send")'
  <2>0. test.direction \in {"upload", "download", "bidir"}
    BY StreamsAssumption DEF TestTypeOK, TestStart
  <2>1. CASE test.direction = "bidir"
    BY <1>12, <2>1, StreamsAssumption DEF LoopReturns
  <2>2. CASE test.direction # "bidir"
    BY <1>12, <2>0, <2>2 DEF LoopReturns
  <2> QED
    BY <2>1, <2>2
<1>13. ASSUME NEW c \in Conns, ReceiveCancelled(c) PROVE Held(sending_done, "send")'
  BY <1>13 DEF ReceiveCancelled
<1>13a. ASSUME NEW c \in Conns, Receive(c) PROVE Held(sending_done, "send")'
  BY <1>13a DEF Receive
<1>14. ASSUME NEW c \in Conns, Client(c) PROVE Held(sending_done, "send")'
  BY <1>14 DEF Client, ClientSends, ClientEnds
<1>15. CASE UNCHANGED vars
  BY <1>15 DEF vars
<1> HIDE <1>0 DEF IInv, HolderInv, FreshInv, Held, Holder, TypeOK, ConnTypeOK,
      HandlerTypeOK, CollTypeOK, PhaseInv, LoopInv, connVars, collVars, doneVars, Halves,
      Loops, Handled
<1>16. CASE Collect
  BY <1>3, <1>4, <1>5, <1>6, <1>16 DEF Collect, CollectPoll, CollectDone,
     CollectPark, CollectNone, CollectWake, CollectCancelled, CollectTimeout
<1>17. ASSUME NEW c \in Conns, NEW result \in {"ok", "err"}, SendReturns(c, result)
       PROVE  Held(sending_done, "send")'
  BY <1>12, <1>17 DEF SendReturns, Halves
<1>18. ASSUME NEW c \in Conns, ReceiveLoop(c) PROVE Held(sending_done, "send")'
  BY <1>12, <1>13, <1>18, <1>13a DEF ReceiveLoop, ReceiveEof, ReceiveError, Drain, Halves
<1> QED
  BY <1>1, <1>2, <1>7, <1>8, <1>9, <1>10, <1>11, <1>14, <1>15, <1>16, <1>17, <1>18
     DEF Next, Finished

\* Whoever holds a sender of recv_done still has a reason to.
LEMMA RecvHeldStep == IInv /\ HolderInv /\ [Next]_vars => Held(recv_done, "recv")'
<1> SUFFICES ASSUME IInv, HolderInv, [Next]_vars PROVE Held(recv_done, "recv")'
  OBVIOUS
<1>0. test' = test /\ Loops' = Loops
  BY TestFixed
<1> USE <1>0 DEF IInv, testVars, HolderInv, FreshInv, Held, Holder, TypeOK, ConnTypeOK,
      HandlerTypeOK, CollTypeOK, PhaseInv, LoopInv, connVars, collVars, doneVars, Halves,
      Loops, Handled
<1>1. CASE AckFails
  <2>1. \A c \in Conns : ~Handled(c)
    BY <1>1 DEF AckFails
  <2>2. \A c \in Conns, h \in Halves : half[c][h] \notin {"on", "drain"}
    BY <2>1
  <2> QED
    BY <1>1, <2>1, <2>2 DEF AckFails, DropReceiver, remove_active_test
<1>2. CASE RunTest /\ ~AckFails
  <2>1. CASE Register
    BY <2>1, StreamsAssumption DEF Register
  <2>2. CASE SendAck
    BY <2>2, StreamsAssumption DEF SendAck
  <2>3. CASE SpawnCollection
    BY <2>3, StreamsAssumption DEF SpawnCollection
  <2>4. CASE DropOwnHandles
    BY <2>4, StreamsAssumption DEF DropOwnHandles
  <2>5. CASE CancelCommand
    BY <2>5, StreamsAssumption DEF CancelCommand
  <2>6. CASE ReportEnds
    BY <2>6, StreamsAssumption DEF ReportEnds
  <2>7. CASE ReportFails
    BY <2>7, StreamsAssumption DEF ReportFails, remove_active_test
  <2>8. CASE JoinHandlers
    BY <2>8, StreamsAssumption DEF JoinHandlers
  <2>9. CASE RemoveTest
    BY <2>9, StreamsAssumption DEF RemoveTest, remove_active_test
  <2> QED
    BY <1>2, <2>1, <2>2, <2>3, <2>4, <2>5, <2>6, <2>7, <2>8, <2>9 DEF RunTest
<1>3. CASE EndCollection /\ coll # "off"
  BY <1>3, StreamsAssumption DEF EndCollection, DropReceiver
<1>4. CASE CollectReject
  BY <1>4, HeadQueued DEF CollectReject, Closed
<1>5. CASE CollectTake
  <2> DEFINE c == Head(queue)
  <2>1. c \in Conns /\ at[c] = "queued"
    BY <1>5, HeadQueued DEF CollectTake
  <2>2. at' = [at EXCEPT ![c] = "taken"] /\ UNCHANGED <<main, half>>
    BY <1>5 DEF CollectTake
  <2>3. coll # "over" /\ coll' # "over"
    BY <1>5 DEF CollectTake
  <2>4. recv_done' \subseteq recv_done \cup {c}
    BY <1>5 DEF CollectTake
  <2> QED
    BY <2>1, <2>2, <2>3, <2>4
<1>6. CASE CollectPoll \/ CollectPark \/ CollectWake
  BY <1>6 DEF CollectPoll, CollectPark, CollectWake
<1>7. ASSUME NEW c \in Conns, NEW i \in 0..MaxIndex, NEW k \in Kinds,
             Accept(c, i, k) \/ LegacyAccept(c, i, k)
      PROVE  Held(recv_done, "recv")'
  <2>1. /\ at[c] = "idle"
        /\ \E w \in {"hello", "routing", "turned"} : at' = [at EXCEPT ![c] = w]
        /\ UNCHANGED <<main, coll, half, sending_done, recv_done>>
    BY <1>7 DEF Accept, LegacyAccept, Opened
  <2>2. \A e \in Conns : Handled(e)' = Handled(e) /\ (Handled(e) => at'[e] = at[e])
    BY <2>1
  <2> QED
    BY <2>1, <2>2
<1>8. ASSUME NEW i \in StreamIds, LegacyCancelled(i) PROVE Held(recv_done, "recv")'
  BY <1>8 DEF LegacyCancelled
<1>9. ASSUME NEW c \in Conns, Enqueue(c) PROVE Held(recv_done, "recv")'
  BY <1>9 DEF Enqueue
<1>10. ASSUME NEW c \in Conns, Route(c), ~Enqueue(c) PROVE Held(recv_done, "recv")'
  <2>1. /\ ~Handled(c)
        /\ \E w \in {"unread", "known", "routing", "closed"} : at' = [at EXCEPT ![c] = w]
        /\ UNCHANGED <<main, coll, half, sending_done, recv_done>>
    BY <1>10 DEF Route, FirstLineFails, DataHello, RouteDataHello, LegacyTurnAway,
       EnqueueFails, Closed
  <2>2. \A e \in Conns : Handled(e)' = Handled(e) /\ (Handled(e) => at'[e] = at[e])
    BY <2>1
  <2> QED
    BY <2>1, <2>2
<1>11. ASSUME NEW c \in Conns, HandlerTask(c) PROVE Held(recv_done, "recv")'
  <2>1. CASE HandlerStart(c)
    BY <2>1, StreamsAssumption DEF HandlerStart
  <2>2. CASE HandlerConfigureFails(c)
    BY <2>2, StreamsAssumption DEF HandlerConfigureFails
  <2>3. CASE HandlerStore(c)
    BY <2>3, StreamsAssumption DEF HandlerStore
  <2>4. CASE HandlerRelease(c)
    BY <2>4, StreamsAssumption DEF HandlerRelease
  <2>5. CASE HandlerJoin(c)
    BY <2>5, StreamsAssumption DEF HandlerJoin
  <2>6. CASE HandlerClear(c)
    BY <2>6, StreamsAssumption DEF HandlerClear
  <2> QED
    BY <1>11, <2>1, <2>2, <2>3, <2>4, <2>5, <2>6 DEF HandlerTask
<1>12. ASSUME NEW c \in Conns, NEW d \in Halves, NEW result \in {"ok", "err"},
              half[c][d] \in {"on", "drain"}, LoopReturns(c, d, result)
       PROVE  Held(recv_done, "recv")'
  <2>0. test.direction \in {"upload", "download", "bidir"}
    BY StreamsAssumption DEF TestTypeOK, TestStart
  <2>1. CASE test.direction = "bidir"
    BY <1>12, <2>1, StreamsAssumption DEF LoopReturns
  <2>2. CASE test.direction # "bidir"
    BY <1>12, <2>0, <2>2 DEF LoopReturns
  <2> QED
    BY <2>1, <2>2
<1>13. ASSUME NEW c \in Conns, ReceiveCancelled(c) PROVE Held(recv_done, "recv")'
  BY <1>13 DEF ReceiveCancelled
<1>13a. ASSUME NEW c \in Conns, Receive(c) PROVE Held(recv_done, "recv")'
  BY <1>13a DEF Receive
<1>14. ASSUME NEW c \in Conns, Client(c) PROVE Held(recv_done, "recv")'
  BY <1>14 DEF Client, ClientSends, ClientEnds
<1>15. CASE UNCHANGED vars
  BY <1>15 DEF vars
<1> HIDE <1>0 DEF IInv, HolderInv, FreshInv, Held, Holder, TypeOK, ConnTypeOK,
      HandlerTypeOK, CollTypeOK, PhaseInv, LoopInv, connVars, collVars, doneVars, Halves,
      Loops, Handled
<1>16. CASE Collect
  BY <1>3, <1>4, <1>5, <1>6, <1>16 DEF Collect, CollectPoll, CollectDone,
     CollectPark, CollectNone, CollectWake, CollectCancelled, CollectTimeout
<1>17. ASSUME NEW c \in Conns, NEW result \in {"ok", "err"}, SendReturns(c, result)
       PROVE  Held(recv_done, "recv")'
  BY <1>12, <1>17 DEF SendReturns, Halves
<1>18. ASSUME NEW c \in Conns, ReceiveLoop(c) PROVE Held(recv_done, "recv")'
  BY <1>12, <1>13, <1>18, <1>13a DEF ReceiveLoop, ReceiveEof, ReceiveError, Drain, Halves
<1> QED
  BY <1>1, <1>2, <1>7, <1>8, <1>9, <1>10, <1>11, <1>14, <1>15, <1>16, <1>17, <1>18
     DEF Next, Finished

\* The holders of the done handles are what HolderInv says.
LEMMA HoldersStayAlive == Spec => []HolderInv
<1>1. Init => HolderInv
  BY DEF Init, HolderInv, FreshInv, Held
<1>2. IInv /\ HolderInv /\ [Next]_vars => HolderInv'
  BY FreshStep, SendHeldStep, RecvHeldStep DEF HolderInv
<1> QED
  BY Invariant, <1>1, <1>2, PTL DEF Spec

(***************************************************************************)
(* A done channel that is closed means that every transfer of its          *)
(* direction is over; and while the report loop waits, every handle that   *)
(* keeps one open belongs to a task that is not over (run_test drops its   *)
(* own ones before).                                                       *)
(***************************************************************************)
THEOREM ClosedMeansOver == Spec => []DoneMeansOver
<1>1. ASSUME IInv, main = "reporting", test.budget, NEW d \in Halves,
             IF d = "send" THEN sending_done = {} /\ "send" \in Loops
                           ELSE recv_done = {}
      PROVE  /\ coll = "over"
             /\ \A c \in Conns : Handled(c) =>
                  /\ at[c] # "taken"
                  /\ half[c][d] \notin {"on", "drain"}
                  /\ (test.direction # "bidir" /\ half[c][d] = "ok")
                       => final_tcp_info[idx[c]] = c
  <2>1. HoldsUntilOver({}, d)
    <3>1. CASE d = "send"
      BY <1>1, <3>1 DEF IInv, SendDoneInv
    <3>2. CASE d = "recv"
      BY <1>1, <3>2 DEF IInv, RecvDoneInv
    <3> QED
      BY <3>1, <3>2 DEF Halves
  <2>2. coll = "over"
    BY <1>1, <2>1 DEF HoldsUntilOver, IInv, PhaseInv
  <2>3. ASSUME NEW c \in Conns, Handled(c)
        PROVE  at[c] # "taken" /\ half[c][d] \notin {"on", "drain"}
    BY <2>1, <2>3 DEF HoldsUntilOver
  <2>4. ASSUME NEW c \in Conns, test.direction # "bidir", half[c][d] = "ok"
        PROVE  final_tcp_info[idx[c]] = c
    BY <1>1, <2>1, <2>4 DEF HoldsUntilOver, IInv, LoopInv, FinalInv
  <2> QED
    BY <2>2, <2>3, <2>4
<1>2. ASSUME HolderInv, main = "reporting"
      PROVE  /\ \A h \in sending_done : Holder(h, "send")
             /\ \A h \in recv_done : Holder(h, "recv")
  BY <1>2 DEF HolderInv, Held
<1>3. IInv /\ HolderInv => DoneMeansOver
  BY <1>1, <1>2 DEF DoneMeansOver
<1> QED
  BY Invariant, HoldersStayAlive, <1>3, PTL

-----------------------------------------------------------------------------
(* Every data stream is accounted for.                                       *)

\* the client connects only after the TestAck, when the test is registered, and the
\* test is removed only with the cancel
LookupInv ==
    /\ active_test = "absent" => main = "setup"
    /\ active_test = "removed" => cancel
    /\ \A c \in Conns :
         /\ at[c] # "idle" /\ kind[c] = "own" => main \notin {"setup", "registered"}
         /\ at[c] = "turned" => kind[c] # "own"

\* the final snapshot of a stream is that of its handler, and only after the loops
SnapshotInv ==
    \A c \in Conns :
        /\ at[c] \in {"moving", "ended"} => final_tcp_info[idx[c]] = NoConn
        /\ at[c] \in {"stored", "released", "over"} =>
             final_tcp_info[idx[c]] = IF \A d \in Loops : half[c][d] = "ok" THEN c ELSE NoConn
        /\ test.direction = "bidir" => at[c] \notin {"ended", "stored"}

\* only a handler that is not over leaves a descriptor in the statistics
PolledInv ==
    \A i \in StreamIds : tcp_info_fd[i] # NoFd =>
        \E c \in Conns : at[c] \in {"moving", "ended", "stored", "released"} /\ idx[c] = i

\* after the join no handler is left, and none can start
JoinedInv ==
    main = "joined" => coll = "over" /\ \A c \in Conns : Handled(c) => at[c] = "over"

\* until the cancel, what the client sent is in the socket or counted once; a
\* receiver that ended well on a byte budget saw the end of the stream
UnitsInv ==
    /\ \A i \in StreamIds \ received : counted[i] = 0
    /\ \A c \in Conns :
         /\ ~Handled(c) => avail[c] = sent[c]
         /\ ~cancel /\ Handled(c) => counted[idx[c]] + avail[c] = sent[c]
         /\ half[c]["recv"] = "drain" => cancel
         /\ test.budget /\ ~cancel /\ half[c]["recv"] = "ok" => avail[c] = 0 /\ fin[c] = "eof"
         /\ Handled(c) /\ at[c] # "taken" /\ "recv" \in Loops => half[c]["recv"] # "none"

AccountInv == LookupInv /\ NoStreamLost /\ SnapshotInv /\ PolledInv /\ JoinedInv /\ UnitsInv

\* The test stays registered for the client, and its removal cancels it.
LEMMA LookupStep == IInv /\ AccountInv /\ [Next]_vars => LookupInv'
<1> SUFFICES ASSUME IInv, AccountInv, [Next]_vars PROVE LookupInv'
  OBVIOUS
<1>0. test' = test /\ Loops' = Loops
  BY TestFixed
<1> USE <1>0 DEF IInv, AccountInv, testVars, TypeOK, ConnTypeOK, connVars, PhaseInv,
      TestTypeOK, LookupInv
<1>1. CASE AckFails
  BY <1>1 DEF AckFails, DropReceiver, remove_active_test
<1>2. CASE RunTest /\ ~AckFails
  BY <1>2 DEF RunTest, Register, SendAck, SpawnCollection, DropOwnHandles,
     CancelCommand, ReportEnds, ReportFails, JoinHandlers, RemoveTest, remove_active_test
<1>3. CASE EndCollection /\ coll # "off"
  BY <1>3 DEF EndCollection, DropReceiver
<1>4. CASE CollectReject
  BY <1>4, HeadQueued DEF CollectReject, Closed
<1>5. CASE CollectTake
  BY <1>5, HeadQueued DEF CollectTake
<1>6. CASE CollectPoll \/ CollectPark \/ CollectWake
  BY <1>6 DEF CollectPoll, CollectPark, CollectWake
<1>7. ASSUME NEW c \in Conns, NEW i \in 0..MaxIndex, NEW k \in Kinds,
             Accept(c, i, k) \/ LegacyAccept(c, i, k)
      PROVE  LookupInv'
  BY <1>7, StreamsAssumption DEF Accept, LegacyAccept, Opened, MayConnect
<1>8. ASSUME NEW i \in StreamIds, LegacyCancelled(i) PROVE LookupInv'
  BY <1>8 DEF LegacyCancelled
<1>9. ASSUME NEW c \in Conns, Route(c) PROVE LookupInv'
  BY <1>9 DEF Route, FirstLineFails, DataHello, RouteDataHello, LegacyTurnAway, Enqueue,
     EnqueueFails, Closed
<1>10. ASSUME NEW c \in Conns, HandlerTask(c) PROVE LookupInv'
  BY <1>10 DEF HandlerTask, HandlerStart, HandlerConfigureFails, HandlerStore,
     HandlerRelease, HandlerJoin, HandlerClear
<1>11. ASSUME NEW c \in Conns, NEW result \in {"ok", "err"}, SendReturns(c, result)
       PROVE  LookupInv'
  BY <1>11 DEF SendReturns, LoopReturns, LoopInv, Halves
<1>12. ASSUME NEW c \in Conns, ReceiveLoop(c) PROVE LookupInv'
  BY <1>12 DEF ReceiveLoop, Receive, ReceiveEof, ReceiveError, ReceiveCancelled,
     Drain, LoopReturns, LoopInv, Halves
<1>13. ASSUME NEW c \in Conns, Client(c) PROVE LookupInv'
  BY <1>13 DEF Client, ClientSends, ClientEnds
<1>14. CASE UNCHANGED vars
  BY <1>14 DEF vars
<1> HIDE <1>0 DEF IInv, AccountInv, testVars, TypeOK, ConnTypeOK, connVars, PhaseInv,
      TestTypeOK, LookupInv
<1>15. CASE Collect
  BY <1>3, <1>4, <1>5, <1>6, <1>15 DEF Collect, CollectPoll, CollectDone,
     CollectPark, CollectNone, CollectWake, CollectCancelled, CollectTimeout
<1> QED
  BY <1>1, <1>2, <1>7, <1>8, <1>9, <1>10, <1>11, <1>12, <1>13, <1>14, <1>15
     DEF Next, Finished

\* No connection of the client is dropped without a reason.
LEMMA LostStep == IInv /\ AccountInv /\ [Next]_vars => NoStreamLost'
<1> SUFFICES ASSUME IInv, AccountInv, [Next]_vars PROVE NoStreamLost'
  OBVIOUS
<1>0. test' = test /\ Loops' = Loops
  BY TestFixed
<1> USE <1>0 DEF IInv, AccountInv, testVars, TypeOK, ConnTypeOK, connVars, PhaseInv,
      TestTypeOK, LookupInv, NoStreamLost, collVars, CollTypeOK
<1>1. CASE AckFails
  BY <1>1 DEF AckFails, DropReceiver, remove_active_test
<1>2. CASE RunTest /\ ~AckFails
  BY <1>2 DEF RunTest, Register, SendAck, SpawnCollection, DropOwnHandles,
     CancelCommand, ReportEnds, ReportFails, JoinHandlers, RemoveTest, remove_active_test
<1>3. CASE EndCollection /\ coll # "off"
  BY <1>3 DEF EndCollection, DropReceiver
<1>4. CASE CollectReject
  BY <1>4, HeadQueued DEF CollectReject, Closed
<1>5. CASE CollectTake
  BY <1>5, HeadQueued DEF CollectTake
<1>6. CASE CollectPoll \/ CollectPark \/ CollectWake
  BY <1>6 DEF CollectPoll, CollectPark, CollectWake
<1>7. ASSUME NEW c \in Conns, NEW i \in 0..MaxIndex, NEW k \in Kinds,
             Accept(c, i, k) \/ LegacyAccept(c, i, k)
      PROVE  NoStreamLost'
  <2>1. /\ at[c] = "idle" /\ UNCHANGED <<received, cancel, coll>>
        /\ \E w \in {"hello", "routing", "turned"} : at' = [at EXCEPT ![c] = w]
        /\ idx' = [idx EXCEPT ![c] = i] /\ kind' = [kind EXCEPT ![c] = k]
    BY <1>7 DEF Accept, LegacyAccept, Opened
  <2> QED
    BY <2>1
<1>8. ASSUME NEW i \in StreamIds, LegacyCancelled(i) PROVE NoStreamLost'
  BY <1>8 DEF LegacyCancelled
<1>9. ASSUME NEW c \in Conns, Route(c) PROVE NoStreamLost'
  BY <1>9 DEF Route, FirstLineFails, DataHello, RouteDataHello, LegacyTurnAway, Enqueue,
     EnqueueFails, Closed
<1>10. ASSUME NEW c \in Conns, HandlerTask(c) PROVE NoStreamLost'
  BY <1>10 DEF HandlerTask, HandlerStart, HandlerConfigureFails, HandlerStore,
     HandlerRelease, HandlerJoin, HandlerClear
<1>11. ASSUME NEW c \in Conns, NEW result \in {"ok", "err"}, SendReturns(c, result)
       PROVE  NoStreamLost'
  BY <1>11 DEF SendReturns, LoopReturns
<1>12. ASSUME NEW c \in Conns, ReceiveLoop(c) PROVE NoStreamLost'
  BY <1>12 DEF ReceiveLoop, Receive, ReceiveEof, ReceiveError, ReceiveCancelled,
     Drain, LoopReturns
<1>13. ASSUME NEW c \in Conns, Client(c) PROVE NoStreamLost'
  BY <1>13 DEF Client, ClientSends, ClientEnds
<1>14. CASE UNCHANGED vars
  BY <1>14 DEF vars
<1> HIDE <1>0 DEF IInv, AccountInv, testVars, TypeOK, ConnTypeOK, connVars, PhaseInv,
      TestTypeOK, LookupInv, NoStreamLost, collVars, CollTypeOK
<1>15. CASE Collect
  BY <1>3, <1>4, <1>5, <1>6, <1>15 DEF Collect, CollectPoll, CollectDone,
     CollectPark, CollectNone, CollectWake, CollectCancelled, CollectTimeout
<1> QED
  BY <1>1, <1>2, <1>7, <1>8, <1>9, <1>10, <1>11, <1>12, <1>13, <1>14, <1>15
     DEF Next, Finished

\* The snapshot stays that of the handler.
LEMMA SnapshotStep == IInv /\ AccountInv /\ [Next]_vars => SnapshotInv'
<1> SUFFICES ASSUME IInv, AccountInv, [Next]_vars PROVE SnapshotInv'
  OBVIOUS
<1>0. test' = test /\ Loops' = Loops
  BY TestFixed
<1> USE <1>0 DEF IInv, AccountInv, testVars, TypeOK, ConnTypeOK, connVars, TestTypeOK,
      LoopInv, RouteInv, SnapshotInv, Handled, CollTypeOK, HandlerTypeOK,
      StatsTypeOK, infoVars, Halves, Loops
<1>1. CASE AckFails
  BY <1>1 DEF AckFails, DropReceiver, remove_active_test
<1>2. CASE RunTest /\ ~AckFails
  <2>1. UNCHANGED <<at, idx, half, final_tcp_info>>
    BY <1>2 DEF RunTest, Register, SendAck, SpawnCollection, DropOwnHandles,
       CancelCommand, ReportEnds, ReportFails, JoinHandlers, RemoveTest
  <2> QED
    BY <2>1
<1>3. CASE EndCollection /\ coll # "off"
  BY <1>3 DEF EndCollection, DropReceiver
<1>4. CASE CollectReject
  BY <1>4, HeadQueued DEF CollectReject, Closed
<1>5. CASE CollectTake
  BY <1>5, HeadQueued DEF CollectTake
<1>6. CASE CollectPoll \/ CollectPark \/ CollectWake
  <2>1. UNCHANGED <<at, idx, half, final_tcp_info>>
    BY <1>6 DEF CollectPoll, CollectPark, CollectWake
  <2> QED
    BY <2>1
<1>7. ASSUME NEW c \in Conns, NEW i \in 0..MaxIndex, NEW k \in Kinds,
             Accept(c, i, k) \/ LegacyAccept(c, i, k)
      PROVE  SnapshotInv'
  <2>1. /\ at[c] = "idle"
        /\ \E w \in {"hello", "routing", "turned"} : at' = [at EXCEPT ![c] = w]
        /\ idx' = [idx EXCEPT ![c] = i]
        /\ UNCHANGED <<half, final_tcp_info>>
    BY <1>7 DEF Accept, LegacyAccept, Opened
  <2> QED
    BY <2>1
<1>8. ASSUME NEW i \in StreamIds, LegacyCancelled(i) PROVE SnapshotInv'
  BY <1>8 DEF LegacyCancelled
<1>9. ASSUME NEW c \in Conns, Route(c) PROVE SnapshotInv'
  BY <1>9 DEF Route, FirstLineFails, DataHello, RouteDataHello, LegacyTurnAway, Enqueue,
     EnqueueFails, Closed
<1>10. ASSUME NEW c \in Conns, HandlerTask(c) PROVE SnapshotInv'
  <2>1. CASE HandlerStart(c)
    BY <1>10, <2>1 DEF HandlerStart
  <2>2. CASE HandlerConfigureFails(c)
    <3>1. /\ at' = [at EXCEPT ![c] = "over"] /\ idx' = idx /\ "recv" \in Loops
          /\ half' = [half EXCEPT ![c] = [d \in Halves |-> "err"]]
          /\ final_tcp_info' = [final_tcp_info EXCEPT ![idx[c]] = NoConn] /\ Handled(c)
      BY <2>2 DEF HandlerConfigureFails
    <3>2. half'[c]["recv"] = "err" /\ final_tcp_info'[idx[c]] = NoConn
      BY <3>1
    <3>3. ASSUME NEW e \in Conns \ {c}
          PROVE  /\ at'[e] = at[e] /\ half'[e] = half[e]
                 /\ Handled(e) => final_tcp_info'[idx[e]] = final_tcp_info[idx[e]]
      BY <3>1
    <3>4. ~\A d \in Loops : half'[c][d] = "ok"
      BY <3>1, <3>2
    <3> HIDE DEF Loops
    <3> QED
      BY <3>1, <3>2, <3>3, <3>4
  <2>3. CASE HandlerStore(c)
    <3>1. /\ at[c] = "ended" /\ at' = [at EXCEPT ![c] = "stored"] /\ UNCHANGED <<idx, half>>
          /\ final_tcp_info' = IF \E d \in Loops : half[c][d] = "ok"
                                 THEN [final_tcp_info EXCEPT ![idx[c]] = c]
                                 ELSE final_tcp_info
      BY <2>3 DEF HandlerStore
    <3>2. PICK h \in Halves : Loops = {h}
      BY <3>1, StreamsAssumption DEF TestStart
    <3>3. ASSUME NEW e \in Conns \ {c}
          PROVE  /\ at'[e] = at[e]
                 /\ Handled(e) => final_tcp_info'[idx[e]] = final_tcp_info[idx[e]]
      BY <3>1
    <3>4. final_tcp_info'[idx[c]] = IF half[c][h] = "ok" THEN c ELSE NoConn
      BY <3>1, <3>2
    <3> HIDE DEF Loops
    <3>5. final_tcp_info'[idx[c]] = IF \A d \in Loops : half[c][d] = "ok" THEN c ELSE NoConn
      BY <3>2, <3>4
    <3> QED
      BY <3>1, <3>3, <3>5
  <2>4. CASE HandlerRelease(c)
    BY <1>10, <2>4 DEF HandlerRelease
  <2>5. CASE HandlerJoin(c)
    BY <1>10, <2>5 DEF HandlerJoin
  <2>6. CASE HandlerClear(c)
    BY <1>10, <2>6 DEF HandlerClear
  <2> QED
    BY <1>10, <2>1, <2>2, <2>3, <2>4, <2>5, <2>6 DEF HandlerTask
<1>11. ASSUME NEW c \in Conns, NEW result \in {"ok", "err"}, SendReturns(c, result)
       PROVE  SnapshotInv'
  BY <1>11 DEF SendReturns, LoopReturns
<1>12. ASSUME NEW c \in Conns, ReceiveLoop(c) PROVE SnapshotInv'
  BY <1>12 DEF ReceiveLoop, Receive, ReceiveEof, ReceiveError, ReceiveCancelled,
     Drain, LoopReturns
<1>13. ASSUME NEW c \in Conns, Client(c) PROVE SnapshotInv'
  BY <1>13 DEF Client, ClientSends, ClientEnds
<1>14. CASE UNCHANGED vars
  BY <1>14 DEF vars
<1> HIDE <1>0 DEF IInv, AccountInv, testVars, TypeOK, ConnTypeOK, connVars, TestTypeOK,
      LoopInv, RouteInv, SnapshotInv, Handled, CollTypeOK, HandlerTypeOK,
      StatsTypeOK, infoVars, Halves, Loops
<1>15. CASE Collect
  BY <1>3, <1>4, <1>5, <1>6, <1>15 DEF Collect, CollectPoll, CollectDone,
     CollectPark, CollectNone, CollectWake, CollectCancelled, CollectTimeout
<1> QED
  BY <1>1, <1>2, <1>7, <1>8, <1>9, <1>10, <1>11, <1>12, <1>13, <1>14, <1>15
     DEF Next, Finished

\* A descriptor in the statistics has a handler that is not over.
LEMMA PolledStep == IInv /\ AccountInv /\ [Next]_vars => PolledInv'
<1> SUFFICES ASSUME IInv, AccountInv, [Next]_vars PROVE PolledInv'
  OBVIOUS
<1>0. test' = test /\ Loops' = Loops
  BY TestFixed
<1> USE <1>0 DEF IInv, AccountInv, testVars, TypeOK, ConnTypeOK, connVars, TestTypeOK,
      LoopInv, RouteInv, PolledInv, Handled, CollTypeOK, StatsTypeOK, infoVars,
      Halves
<1>1. CASE AckFails
  BY <1>1 DEF AckFails, DropReceiver, remove_active_test
<1>2. CASE RunTest /\ ~AckFails
  BY <1>2 DEF RunTest, Register, SendAck, SpawnCollection, DropOwnHandles,
     CancelCommand, ReportEnds, ReportFails, JoinHandlers, RemoveTest, remove_active_test
<1>3. CASE EndCollection /\ coll # "off"
  BY <1>3 DEF EndCollection, DropReceiver
<1>4. CASE CollectReject
  BY <1>4, HeadQueued DEF CollectReject, Closed
<1>5. CASE CollectTake
  BY <1>5, HeadQueued DEF CollectTake
<1>6. CASE CollectPoll \/ CollectPark \/ CollectWake
  BY <1>6 DEF CollectPoll, CollectPark, CollectWake
<1>7. ASSUME NEW c \in Conns, NEW i \in 0..MaxIndex, NEW k \in Kinds,
             Accept(c, i, k) \/ LegacyAccept(c, i, k)
      PROVE  PolledInv'
  <2>1. /\ at[c] = "idle"
        /\ \E w \in {"hello", "routing", "turned"} : at' = [at EXCEPT ![c] = w]
        /\ idx' = [idx EXCEPT ![c] = i]
        /\ UNCHANGED <<tcp_info_fd>>
    BY <1>7 DEF Accept, LegacyAccept, Opened
  <2> QED
    BY <2>1
<1>8. ASSUME NEW i \in StreamIds, LegacyCancelled(i) PROVE PolledInv'
  BY <1>8 DEF LegacyCancelled
<1>9. ASSUME NEW c \in Conns, Route(c) PROVE PolledInv'
  BY <1>9 DEF Route, FirstLineFails, DataHello, RouteDataHello, LegacyTurnAway, Enqueue,
     EnqueueFails, Closed
<1>10. ASSUME NEW c \in Conns, HandlerTask(c) PROVE PolledInv'
  <2>1. CASE HandlerStart(c)
    BY <1>10, <2>1 DEF HandlerStart
  <2>2. CASE HandlerConfigureFails(c)
    BY <1>10, <2>2 DEF HandlerConfigureFails
  <2>3. CASE HandlerStore(c)
    BY <1>10, <2>3 DEF HandlerStore
  <2>4. CASE HandlerRelease(c)
    BY <1>10, <2>4 DEF HandlerRelease
  <2>5. CASE HandlerJoin(c)
    BY <1>10, <2>5 DEF HandlerJoin
  <2>6. CASE HandlerClear(c)
    BY <1>10, <2>6 DEF HandlerClear
  <2> QED
    BY <1>10, <2>1, <2>2, <2>3, <2>4, <2>5, <2>6 DEF HandlerTask
<1>11. ASSUME NEW c \in Conns, NEW result \in {"ok", "err"}, SendReturns(c, result)
       PROVE  PolledInv'
  BY <1>11 DEF SendReturns, LoopReturns
<1>12. ASSUME NEW c \in Conns, ReceiveLoop(c) PROVE PolledInv'
  BY <1>12 DEF ReceiveLoop, Receive, ReceiveEof, ReceiveError, ReceiveCancelled,
     Drain, LoopReturns
<1>13. ASSUME NEW c \in Conns, Client(c) PROVE PolledInv'
  BY <1>13 DEF Client, ClientSends, ClientEnds
<1>14. CASE UNCHANGED vars
  BY <1>14 DEF vars
<1> HIDE <1>0 DEF IInv, AccountInv, testVars, TypeOK, ConnTypeOK, connVars, TestTypeOK,
      LoopInv, RouteInv, PolledInv, Handled, CollTypeOK, StatsTypeOK, infoVars,
      Halves
<1>15. CASE Collect
  BY <1>3, <1>4, <1>5, <1>6, <1>15 DEF Collect, CollectPoll, CollectDone,
     CollectPark, CollectNone, CollectWake, CollectCancelled, CollectTimeout
<1> QED
  BY <1>1, <1>2, <1>7, <1>8, <1>9, <1>10, <1>11, <1>12, <1>13, <1>14, <1>15
     DEF Next, Finished

\* After the join nothing starts.
LEMMA JoinedStep == IInv /\ AccountInv /\ [Next]_vars => JoinedInv'
<1> SUFFICES ASSUME IInv, AccountInv, [Next]_vars PROVE JoinedInv'
  OBVIOUS
<1>0. test' = test /\ Loops' = Loops
  BY TestFixed
<1> USE <1>0 DEF IInv, AccountInv, testVars, TypeOK, ConnTypeOK, connVars, PhaseInv,
      TestTypeOK, LoopInv, JoinedInv, Handled, collVars, CollTypeOK, Halves
<1>1. CASE AckFails
  BY <1>1 DEF AckFails, DropReceiver, remove_active_test
<1>2. CASE RunTest /\ ~AckFails
  BY <1>2 DEF RunTest, Register, SendAck, SpawnCollection, DropOwnHandles,
     CancelCommand, ReportEnds, ReportFails, JoinHandlers, RemoveTest, remove_active_test
<1>3. CASE EndCollection /\ coll # "off"
  BY <1>3 DEF EndCollection, DropReceiver
<1>4. CASE CollectReject
  BY <1>4, HeadQueued DEF CollectReject, Closed
<1>5. CASE CollectTake
  BY <1>5, HeadQueued DEF CollectTake
<1>6. CASE CollectPoll \/ CollectPark \/ CollectWake
  BY <1>6 DEF CollectPoll, CollectPark, CollectWake
<1>7. ASSUME NEW c \in Conns, NEW i \in 0..MaxIndex, NEW k \in Kinds,
             Accept(c, i, k) \/ LegacyAccept(c, i, k)
      PROVE  JoinedInv'
  <2>1. /\ at[c] = "idle" /\ UNCHANGED <<main, coll>>
        /\ \E w \in {"hello", "routing", "turned"} : at' = [at EXCEPT ![c] = w]
    BY <1>7 DEF Accept, LegacyAccept, Opened
  <2> QED
    BY <2>1
<1>8. ASSUME NEW i \in StreamIds, LegacyCancelled(i) PROVE JoinedInv'
  BY <1>8 DEF LegacyCancelled
<1>9. ASSUME NEW c \in Conns, Route(c) PROVE JoinedInv'
  BY <1>9 DEF Route, FirstLineFails, DataHello, RouteDataHello, LegacyTurnAway, Enqueue,
     EnqueueFails, Closed
<1>10. ASSUME NEW c \in Conns, HandlerTask(c) PROVE JoinedInv'
  BY <1>10 DEF HandlerTask, HandlerStart, HandlerConfigureFails, HandlerStore,
     HandlerRelease, HandlerJoin, HandlerClear
<1>11. ASSUME NEW c \in Conns, NEW result \in {"ok", "err"}, SendReturns(c, result)
       PROVE  JoinedInv'
  BY <1>11 DEF SendReturns, LoopReturns
<1>12. ASSUME NEW c \in Conns, ReceiveLoop(c) PROVE JoinedInv'
  BY <1>12 DEF ReceiveLoop, Receive, ReceiveEof, ReceiveError, ReceiveCancelled,
     Drain, LoopReturns
<1>13. ASSUME NEW c \in Conns, Client(c) PROVE JoinedInv'
  BY <1>13 DEF Client, ClientSends, ClientEnds
<1>14. CASE UNCHANGED vars
  BY <1>14 DEF vars
<1> HIDE <1>0 DEF IInv, AccountInv, testVars, TypeOK, ConnTypeOK, connVars, PhaseInv,
      TestTypeOK, LoopInv, JoinedInv, Handled, collVars, CollTypeOK, Halves
<1>15. CASE Collect
  BY <1>3, <1>4, <1>5, <1>6, <1>15 DEF Collect, CollectPoll, CollectDone,
     CollectPark, CollectNone, CollectWake, CollectCancelled, CollectTimeout
<1> QED
  BY <1>1, <1>2, <1>7, <1>8, <1>9, <1>10, <1>11, <1>12, <1>13, <1>14, <1>15
     DEF Next, Finished

\* Every unit is in the socket or counted once.
LEMMA UnitsStep == IInv /\ AccountInv /\ [Next]_vars => UnitsInv'
<1> SUFFICES ASSUME IInv, AccountInv, [Next]_vars PROVE UnitsInv'
  OBVIOUS
<1>0. test' = test /\ Loops' = Loops
  BY TestFixed
<1> USE <1>0 DEF IInv, AccountInv, testVars, TypeOK, ConnTypeOK, connVars, TestTypeOK,
      LoopInv, RouteInv, UnitsInv, Handled, CollTypeOK, HandlerTypeOK,
      StatsTypeOK, ClientTypeOK, collVars, dataVars, Halves, Loops
<1>1. CASE AckFails
  BY <1>1 DEF AckFails, DropReceiver, remove_active_test
<1>2. CASE RunTest /\ ~AckFails
  BY <1>2 DEF RunTest, Register, SendAck, SpawnCollection, DropOwnHandles,
     CancelCommand, ReportEnds, ReportFails, JoinHandlers, RemoveTest, remove_active_test
<1>3. CASE EndCollection /\ coll # "off"
  <2>1. /\ \A c \in Conns : at'[c] = IF at[c] = "queued" THEN "closed" ELSE at[c]
        /\ UNCHANGED <<idx, received, half, dataVars, cancel>>
    BY <1>3 DEF EndCollection, DropReceiver
  <2> QED
    BY <2>1
<1>4. CASE CollectReject
  <2>1. Head(queue) \in Conns /\ at[Head(queue)] = "queued"
    BY <1>4, HeadQueued DEF CollectReject
  <2>2. at' = [at EXCEPT ![Head(queue)] = "closed"]
        /\ UNCHANGED <<idx, received, half, dataVars, cancel>>
    BY <1>4 DEF CollectReject, Closed
  <2> QED
    BY <2>1, <2>2
<1>5. CASE CollectTake
  <2> DEFINE c == Head(queue)
  <2>1. c \in Conns /\ at[c] = "queued" /\ half[c]["recv"] \in {"none", "err"}
    BY <1>5, HeadQueued DEF CollectTake
  <2>2. /\ idx[c] \in StreamIds \ received /\ received' = received \cup {idx[c]}
        /\ at' = [at EXCEPT ![c] = "taken"]
        /\ UNCHANGED <<idx, half, dataVars, cancel>>
    BY <1>5 DEF CollectTake
  <2> HIDE DEF c
  <2> QED
    BY <2>1, <2>2
<1>6. CASE CollectPoll \/ CollectPark \/ CollectWake
  BY <1>6 DEF CollectPoll, CollectPark, CollectWake
<1>7. ASSUME NEW c \in Conns, NEW i \in 0..MaxIndex, NEW k \in Kinds,
             Accept(c, i, k) \/ LegacyAccept(c, i, k)
      PROVE  UnitsInv'
  <2>1. /\ at[c] = "idle" /\ UNCHANGED <<collVars, half, dataVars, cancel>>
        /\ \E w \in {"hello", "routing", "turned"} : at' = [at EXCEPT ![c] = w]
        /\ idx' = [idx EXCEPT ![c] = i]
    BY <1>7 DEF Accept, LegacyAccept, Opened
  <2> QED
    BY <2>1
<1>8. ASSUME NEW i \in StreamIds, LegacyCancelled(i) PROVE UnitsInv'
  BY <1>8 DEF LegacyCancelled
<1>9. ASSUME NEW c \in Conns, Route(c) PROVE UnitsInv'
  <2>1. /\ ~Handled(c)
        /\ \E w \in {"unread", "known", "routing", "queued", "closed"} :
             at' = [at EXCEPT ![c] = w]
        /\ UNCHANGED <<idx, received, half, dataVars, cancel>>
    BY <1>9 DEF Route, FirstLineFails, DataHello, RouteDataHello, LegacyTurnAway, Enqueue,
       EnqueueFails, Closed
  <2> QED
    BY <2>1
<1>10. ASSUME NEW c \in Conns, HandlerTask(c) PROVE UnitsInv'
  <2>1. CASE HandlerStart(c)
    BY <1>10, <2>1 DEF HandlerStart
  <2>2. CASE HandlerConfigureFails(c)
    BY <1>10, <2>2 DEF HandlerConfigureFails
  <2>3. CASE HandlerStore(c)
    BY <1>10, <2>3 DEF HandlerStore
  <2>4. CASE HandlerRelease(c)
    BY <1>10, <2>4 DEF HandlerRelease
  <2>5. CASE HandlerJoin(c)
    BY <1>10, <2>5 DEF HandlerJoin
  <2>6. CASE HandlerClear(c)
    BY <1>10, <2>6 DEF HandlerClear
  <2> QED
    BY <1>10, <2>1, <2>2, <2>3, <2>4, <2>5, <2>6 DEF HandlerTask
<1>11. ASSUME NEW c \in Conns, NEW result \in {"ok", "err"}, SendReturns(c, result)
       PROVE  UnitsInv'
  <2>1. /\ half' = [half EXCEPT ![c]["send"] = result]
        /\ UNCHANGED <<idx, received, dataVars, cancel>>
        /\ at' = at \/ at' = [at EXCEPT ![c] = "ended"]
    BY <1>11 DEF SendReturns, LoopReturns
  <2>2. at[c] = "moving"
    BY <1>11 DEF SendReturns
  <2> QED
    BY <2>1, <2>2
<1>12. ASSUME NEW c \in Conns, ReceiveLoop(c) PROVE UnitsInv'
  <2>1. CASE Receive(c)
    BY <2>1 DEF Receive
  <2>2. CASE ReceiveEof(c)
    <3>1. /\ half' = [half EXCEPT ![c]["recv"] = "ok"]
          /\ UNCHANGED <<idx, received, dataVars, cancel>>
          /\ at' = at \/ at' = [at EXCEPT ![c] = "ended"]
      BY <2>2 DEF ReceiveEof, LoopReturns
    <3>2. at[c] = "moving" /\ avail[c] = 0 /\ fin[c] = "eof"
      BY <2>2 DEF ReceiveEof
    <3> QED
      BY <3>1, <3>2
  <2>3. CASE \E result \in {"ok", "err"} : ReceiveError(c, result)
    BY <2>3 DEF ReceiveError, LoopReturns
  <2>4. CASE ReceiveCancelled(c)
    BY <2>4 DEF ReceiveCancelled
  <2>5. CASE Drain(c)
    <3>1. /\ half' = [half EXCEPT ![c]["recv"] = "ok"]
          /\ UNCHANGED <<idx, received, cancel, fin, sent, counted>>
          /\ at' = at \/ at' = [at EXCEPT ![c] = "ended"]
          /\ \A d \in Conns \ {c} : avail'[d] = avail[d]
      BY <2>5 DEF Drain, LoopReturns
    <3>2. at[c] = "moving" /\ cancel
      BY <2>5 DEF Drain
    <3> QED
      BY <3>1, <3>2
  <2> QED
    BY <1>12, <2>1, <2>2, <2>3, <2>4, <2>5 DEF ReceiveLoop
<1>13. ASSUME NEW c \in Conns, Client(c) PROVE UnitsInv'
  <2>1. CASE ClientSends(c)
    BY <2>1 DEF ClientSends
  <2>2. CASE \E how \in {"eof", "reset"} : ClientEnds(c, how)
    BY <2>2 DEF ClientEnds
  <2> QED
    BY <1>13, <2>1, <2>2 DEF Client
<1>14. CASE UNCHANGED vars
  BY <1>14 DEF vars
<1> HIDE <1>0 DEF IInv, AccountInv, testVars, TypeOK, ConnTypeOK, connVars, TestTypeOK,
      LoopInv, RouteInv, UnitsInv, Handled, CollTypeOK, HandlerTypeOK,
      StatsTypeOK, ClientTypeOK, collVars, dataVars, Halves, Loops
<1>15. CASE Collect
  BY <1>3, <1>4, <1>5, <1>6, <1>15 DEF Collect, CollectPoll, CollectDone,
     CollectPark, CollectNone, CollectWake, CollectCancelled, CollectTimeout
<1> QED
  BY <1>1, <1>2, <1>7, <1>8, <1>9, <1>10, <1>11, <1>12, <1>13, <1>14, <1>15
     DEF Next, Finished

LEMMA InitAccount == Init => AccountInv
<1> SUFFICES ASSUME Init PROVE AccountInv
  OBVIOUS
<1>1. \A c \in Conns : /\ at[c] = "idle" /\ ~Handled(c) /\ avail[c] = 0 /\ sent[c] = 0
                       /\ half[c]["recv"] = "none"
  BY DEF Init, Handled, Halves
<1>2. LookupInv /\ NoStreamLost /\ SnapshotInv
  BY <1>1 DEF Init, LookupInv, NoStreamLost, SnapshotInv
<1>3. PolledInv /\ JoinedInv
  BY <1>1 DEF Init, PolledInv, JoinedInv
<1>4. UnitsInv
  BY <1>1 DEF Init, UnitsInv
<1> QED
  BY <1>2, <1>3, <1>4 DEF AccountInv

\* AccountInv is an invariant of the data plane, together with IInv.
THEOREM AccountInvariant == Spec => []AccountInv
<1>1. IInv /\ AccountInv /\ [Next]_vars => AccountInv'
  BY LookupStep, LostStep, SnapshotStep, PolledStep, JoinedStep, UnitsStep DEF AccountInv
<1> QED
  BY InitAccount, Invariant, <1>1, PTL DEF Spec

\* While a stream is transferring, its TCP_INFO descriptor is its own socket's; and no
\* descriptor outlives its handler in the statistics (serve.rs:3560).
THEOREM DescriptorsAreLive == Spec => []LiveDescriptorOwn
<1>1. IInv /\ AccountInv => LiveDescriptorOwn
  <2> SUFFICES ASSUME IInv, AccountInv PROVE LiveDescriptorOwn
    OBVIOUS
  <2>1. \A i \in StreamIds : tcp_info_fd[i] # NoFd =>
          \E c \in Conns : idx[c] = i /\ at[c] \in {"moving", "ended", "stored", "released"}
    BY DEF AccountInv, PolledInv
  <2> QED
    BY <2>1 DEF IInv, FdInv, LiveDescriptorOwn
<1> QED
  BY Invariant, AccountInvariant, <1>1, PTL

(***************************************************************************)
(* Every data stream of a test is accounted for, for any number of streams *)
(* and connections: no connection of the client is turned away without a   *)
(* reason (route_data_hello), a byte-budget upload that ends by itself has *)
(* counted every unit (receive_data), and the Result is built from settled *)
(* statistics (run_test, the join of the handlers).                        *)
(***************************************************************************)
THEOREM AllAccounted == Spec => []StreamsAccounted
<1>1. IInv /\ AccountInv => StreamsAccounted
  <2> SUFFICES ASSUME IInv, AccountInv PROVE StreamsAccounted
    OBVIOUS
  <2>1. NoStreamLost
    BY DEF AccountInv
  <2>2. RecvCountsAll
    <3> SUFFICES ASSUME main = "reporting", test.budget, "recv" \in Loops, recv_done = {},
                        ~cancel, \A c \in Conns : half[c]["recv"] # "err",
                        NEW c \in Conns, Handled(c)
                 PROVE  counted[idx[c]] = sent[c]
      BY DEF RecvCountsAll
    <3>1. HoldsUntilOver({}, "recv")
      BY DEF IInv, RecvDoneInv
    <3>2. at[c] # "taken" /\ half[c]["recv"] \notin {"on", "drain"}
      BY <3>1 DEF HoldsUntilOver
    <3>3. half[c]["recv"] \in {"none", "on", "drain", "ok", "err"}
      BY DEF IInv, TypeOK, HandlerTypeOK, Halves
    <3>4. half[c]["recv"] # "none"
      BY <3>2 DEF AccountInv, UnitsInv
    <3>5. avail[c] = 0 /\ counted[idx[c]] + avail[c] = sent[c]
      BY <3>2, <3>3, <3>4 DEF AccountInv, UnitsInv
    <3>6. counted[idx[c]] \in Nat
      BY DEF IInv, TypeOK, StatsTypeOK, CollTypeOK, RouteInv
    <3> QED
      BY <3>5, <3>6
  <2>3. ResultIsStable
    <3> SUFFICES ASSUME main = "joined", NEW i \in StreamIds
                 PROVE  /\ tcp_info_fd[i] = NoFd
                        /\ \A c \in Conns : (Handled(c) /\ idx[c] = i) =>
                             /\ at[c] = "over"
                             /\ final_tcp_info[i] = IF \A d \in Loops : half[c][d] = "ok"
                                                      THEN c ELSE NoConn
      BY DEF ResultIsStable
    <3>1. \A c \in Conns : Handled(c) => at[c] = "over"
      BY DEF AccountInv, JoinedInv
    <3>2. tcp_info_fd[i] = NoFd
      BY <3>1 DEF AccountInv, PolledInv, Handled
    <3> QED
      BY <3>1, <3>2 DEF AccountInv, SnapshotInv
  <2> QED
    BY <2>1, <2>2, <2>3 DEF StreamsAccounted
<1> QED
  BY <1>1, Invariant, AccountInvariant, PTL
=============================================================================
