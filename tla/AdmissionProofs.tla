-------------------------- MODULE AdmissionProofs --------------------------
(***************************************************************************)
(* The limits of the server hold for any number of connections, addresses  *)
(* and permits: slots and permits are conserved, so neither max_concurrent *)
(* nor max_per_ip is ever exceeded, and only a panicking QUIC handler     *)
(* loses a slot.  And a server stops only for a signal or a completed      *)
(* one-off test.                                                           *)
(***************************************************************************)
EXTENDS Admission, FiniteSetTheorems, TLAPS

USE DEF limiterVars, serverVars

\* A connection is counted by the limiter while it has its slot, and for ever if it leaked it.
Counted(c) == HasSlot(c) \/ Leaked(c)
Slots(i) == {c \in Conns : ip[c] = i /\ Counted(c)}
Permits == {c \in Conns : HasPermit(c)}
ConnPermits == {c \in Conns : HasConnPermit(c)}

\* Which transport a connection uses while it is in which part of the code.
SlotPath == \A c \in Conns : pc[c] = "slot" => via[c] # "tcp"
PathInv ==
    /\ SlotPath
    /\ \A c \in Conns :
        /\ pc[c] \in {"first", "permit"} => via[c] = "tcp"
        /\ pc[c] = "freed" => one_off
        /\ c \in panicked => pc[c] \in {"unslotted", "freed", "closed"}

IInv == TypeOK /\ PathInv /\ SlotsMatch /\ PermitsMatch

One(b) == IF b THEN 1 ELSE 0

-----------------------------------------------------------------------------
(* Counting *)

\* The size of a finite set after one element went in or out.
LEMMA CardStep ==
    ASSUME NEW S, IsFiniteSet(S), NEW T, NEW c,
           \/ T = S \cup {c}
           \/ T = S \ {c}
    PROVE  /\ Cardinality(S) \in Nat
           /\ Cardinality(T) = Cardinality(S) + One(c \in T) - One(c \in S)
<1>1. Cardinality(S) \in Nat
  BY FS_CardinalityType
<1>2. CASE T = S \cup {c} /\ c \notin S
  BY <1>1, <1>2, FS_AddElement DEF One
<1>3. CASE T = S \ {c} /\ c \in S
  BY <1>1, <1>3, FS_RemoveElement DEF One
<1>4. CASE T = S /\ (c \in T <=> c \in S)
  BY <1>1, <1>4 DEF One
<1>5. \/ T = S \cup {c} /\ c \notin S
      \/ T = S \ {c} /\ c \in S
      \/ T = S /\ (c \in T <=> c \in S)
  OBVIOUS
<1> QED
  BY <1>2, <1>3, <1>4, <1>5, <1>1

LEMMA Finite ==
    /\ \A i \in Ips : IsFiniteSet(Slots(i))
    /\ IsFiniteSet(Permits) /\ IsFiniteSet(ConnPermits)
<1>1. IsFiniteSet(Conns)
  BY AdmissionAssumption DEF AdmissionAssumption
<1>2. /\ \A i \in Ips : Slots(i) \subseteq Conns
      /\ Permits \subseteq Conns /\ ConnPermits \subseteq Conns
  BY DEF Slots, Permits, ConnPermits
<1> QED
  BY <1>1, <1>2, FS_Subset

\* What the move of one connection does to the three sums.
LEMMA MoveCounts ==
    ASSUME TypeOK, NEW c \in Conns, NEW l \in Labels, Goto(c, l), UNCHANGED <<one_off, ip, via>>,
           panicked' \in {panicked, panicked \cup {c}}
    PROVE  /\ \A i \in Ips :
                /\ Cardinality(Slots(i)) \in Nat
                /\ Cardinality(Slots(i)') = Cardinality(Slots(i))
                     + (IF i = ip[c] THEN One(Counted(c)') - One(Counted(c)) ELSE 0)
           /\ Cardinality(Permits) \in Nat
           /\ Cardinality(Permits') =
                Cardinality(Permits) + One(HasPermit(c)') - One(HasPermit(c))
           /\ Cardinality(ConnPermits) \in Nat
           /\ Cardinality(ConnPermits') =
                Cardinality(ConnPermits) + One(HasConnPermit(c)') - One(HasConnPermit(c))
<1>1. /\ pc' \in [Conns -> Labels] /\ pc'[c] = l
      /\ \A d \in Conns \ {c} : pc'[d] = pc[d]
  BY DEF Goto, TypeOK
<1>2. Permits' = Permits \cup {c} \/ Permits' = Permits \ {c}
  BY <1>1 DEF Permits, HasPermit
<1>3. ConnPermits' = ConnPermits \cup {c} \/ ConnPermits' = ConnPermits \ {c}
  BY <1>1 DEF ConnPermits, HasConnPermit
<1>4. /\ c \in Permits <=> HasPermit(c)
      /\ c \in Permits' <=> HasPermit(c)'
      /\ c \in ConnPermits <=> HasConnPermit(c)
      /\ c \in ConnPermits' <=> HasConnPermit(c)'
  BY DEF Permits, ConnPermits
<1>5. /\ Cardinality(Permits) \in Nat
      /\ Cardinality(Permits') =
           Cardinality(Permits) + One(HasPermit(c)') - One(HasPermit(c))
  <2>1. IsFiniteSet(Permits) /\ Cardinality(Permits) \in Nat
    BY Finite, FS_CardinalityType
  <2>2. Cardinality(Permits') =
          Cardinality(Permits) + One(c \in Permits') - One(c \in Permits)
    BY <1>2, <2>1, CardStep
  <2> QED
    BY <1>4, <2>1, <2>2 DEF One
<1>6. /\ Cardinality(ConnPermits) \in Nat
      /\ Cardinality(ConnPermits') =
           Cardinality(ConnPermits) + One(HasConnPermit(c)') - One(HasConnPermit(c))
  <2>1. IsFiniteSet(ConnPermits) /\ Cardinality(ConnPermits) \in Nat
    BY Finite, FS_CardinalityType
  <2>2. Cardinality(ConnPermits') =
          Cardinality(ConnPermits) + One(c \in ConnPermits') - One(c \in ConnPermits)
    BY <1>3, <2>1, CardStep
  <2> QED
    BY <1>4, <2>1, <2>2 DEF One
<1>7. ASSUME NEW i \in Ips
      PROVE  /\ Cardinality(Slots(i)) \in Nat
             /\ Cardinality(Slots(i)') = Cardinality(Slots(i))
                  + (IF i = ip[c] THEN One(Counted(c)') - One(Counted(c)) ELSE 0)
  <2>0. IsFiniteSet(Slots(i)) /\ Cardinality(Slots(i)) \in Nat
    BY Finite, FS_CardinalityType
  <2>1. CASE i = ip[c]
    <3>1. Slots(i)' = Slots(i) \cup {c} \/ Slots(i)' = Slots(i) \ {c}
      BY <1>1, <2>1 DEF Slots, Counted, HasSlot, Leaked
    <3>2. /\ c \in Slots(i) <=> Counted(c)
          /\ c \in Slots(i)' <=> Counted(c)'
      BY <2>1 DEF Slots
    <3>3. Cardinality(Slots(i)') =
            Cardinality(Slots(i)) + One(c \in Slots(i)') - One(c \in Slots(i))
      BY <2>0, <3>1, CardStep
    <3>4. /\ One(c \in Slots(i)') = One(Counted(c)')
          /\ One(c \in Slots(i)) = One(Counted(c))
      BY <3>2 DEF One
    <3>5. One(Counted(c)') \in Int /\ One(Counted(c)) \in Int
      BY DEF One
    <3> QED
      BY <2>0, <2>1, <3>3, <3>4, <3>5
  <2>2. CASE i # ip[c]
    <3>1. Slots(i)' = Slots(i)
      BY <1>1, <2>2 DEF Slots, Counted, HasSlot, Leaked
    <3> QED
      BY <2>0, <2>2, <3>1
  <2> QED
    BY <2>1, <2>2
<1> QED
  BY <1>5, <1>6, <1>7

-----------------------------------------------------------------------------
(* The invariant *)

LEMMA InitIInv == Init => IInv
<1> SUFFICES ASSUME Init PROVE IInv
  OBVIOUS
<1>0. MaxConcurrent \in Nat /\ MaxPerIp \in Nat /\ ConnLimit \in Nat
  BY AdmissionAssumption DEF AdmissionAssumption, ConnLimit
<1>1. TypeOK
  <2>0. ip \in [Conns -> Ips] /\ via \in [Conns -> Transports]
    <3>1. PICK who \in Clients : /\ ip = [c \in Conns |-> who[c].ip]
                                /\ via = [c \in Conns |-> who[c].via]
      BY DEF Init
    <3>2. \A c \in Conns : who[c] \in [ip : Ips, via : Transports]
      BY AdmissionAssumption DEF AdmissionAssumption
    <3>3. \A c \in Conns : who[c].ip \in Ips /\ who[c].via \in Transports
      BY <3>2
    <3> QED
      BY <3>1, <3>3
  <2>1. pc \in [Conns -> Labels] /\ count \in [Ips -> 0..MaxPerIp]
    BY <1>0 DEF Init, Labels
  <2>2. connFree \in 0..ConnLimit /\ handlerFree \in 0..MaxConcurrent
    BY <1>0 DEF Init
  <2> QED
    BY <2>0, <2>1, <2>2 DEF Init, TypeOK
<1>2. PathInv
  BY DEF Init, PathInv, SlotPath
<1>3. /\ \A i \in Ips : {c \in Conns : ip[c] = i /\ (HasSlot(c) \/ Leaked(c))} = {}
      /\ {c \in Conns : HasPermit(c)} = {}
      /\ {c \in Conns : HasConnPermit(c)} = {}
  BY DEF Init, HasSlot, Leaked, HasPermit, HasConnPermit
<1>4. Cardinality({}) = 0
  BY FS_EmptySet
<1>5. SlotsMatch
  BY <1>3, <1>4 DEF Init, SlotsMatch, Held
<1>6. PermitsMatch
  <2>1. connFree = ConnLimit /\ handlerFree = MaxConcurrent
    BY DEF Init
  <2>2. /\ Cardinality({c \in Conns : HasPermit(c)}) = 0
        /\ Cardinality({c \in Conns : HasConnPermit(c)}) = 0
    BY <1>3, <1>4, Zenon
  <2>3. handlerFree + 0 = MaxConcurrent /\ connFree + 0 = ConnLimit
    BY <1>0, <2>1
  <2> QED
    BY <2>2, <2>3, Zenon DEF PermitsMatch
<1> QED
  BY <1>1, <1>2, <1>5, <1>6 DEF IInv

\* A step that moves one connection keeps the invariant if the limiter and
\* the semaphores change by as much as the connection's holdings.
LEMMA MoveStep ==
    ASSUME IInv, NEW c \in Conns, NEW l \in Labels, Goto(c, l), UNCHANGED <<one_off, ip, via>>,
           entries' \subseteq Ips, count' \in [Ips -> 0..MaxPerIp],
           passed' \subseteq Conns, shutdown' \in BOOLEAN,
           panicked' \in {panicked, panicked \cup {c}},
           c \in panicked' => l \in {"unslotted", "freed", "closed"},
           UNCHANGED <<signalled, tcpUp, quicUp>>,
           l \in {"first", "permit"} => via[c] = "tcp",
           l = "freed" => one_off, l = "slot" => via[c] # "tcp",
           \A i \in Ips : Held(i)' = Held(i) +
               (IF i = ip[c] THEN One(Counted(c)') - One(Counted(c)) ELSE 0),
           handlerFree' = handlerFree - One(HasPermit(c)') + One(HasPermit(c)),
           connFree' = connFree - One(HasConnPermit(c)') + One(HasConnPermit(c)),
           handlerFree' >= 0, connFree' >= 0
    PROVE  IInv'
<1> USE DEF IInv
<1>0. MaxConcurrent \in Nat /\ MaxPerIp \in Nat /\ ConnLimit \in Nat
  BY AdmissionAssumption DEF AdmissionAssumption, ConnLimit
<1>1. pc' \in [Conns -> Labels] /\ \A d \in Conns : pc'[d] = IF d = c THEN l ELSE pc[d]
  BY DEF Goto, TypeOK
<1>2. /\ \A i \in Ips :
           /\ Cardinality(Slots(i)) \in Nat
           /\ Cardinality(Slots(i)') = Cardinality(Slots(i))
                + (IF i = ip[c] THEN One(Counted(c)') - One(Counted(c)) ELSE 0)
      /\ Cardinality(Permits) \in Nat
      /\ Cardinality(Permits') =
           Cardinality(Permits) + One(HasPermit(c)') - One(HasPermit(c))
      /\ Cardinality(ConnPermits) \in Nat
      /\ Cardinality(ConnPermits') =
           Cardinality(ConnPermits) + One(HasConnPermit(c)') - One(HasConnPermit(c))
  BY MoveCounts
<1>3. PathInv'
  BY <1>1 DEF PathInv, SlotPath
<1>4. SlotsMatch'
  <2>1. \A i \in Ips : Held(i) = Cardinality(Slots(i))
    BY DEF SlotsMatch, Slots, Counted
  <2>2. \A i \in Ips : Held(i)' = Cardinality(Slots(i)')
    BY <1>2, <2>1
  <2> QED
    BY <2>2 DEF SlotsMatch, Slots, Counted
<1>5. /\ handlerFree' + Cardinality(Permits') = MaxConcurrent
      /\ connFree' + Cardinality(ConnPermits') = ConnLimit
  <2>1. /\ handlerFree + Cardinality(Permits) = MaxConcurrent
        /\ connFree + Cardinality(ConnPermits) = ConnLimit
    BY DEF PermitsMatch, Permits, ConnPermits
  <2>2. handlerFree \in Int /\ connFree \in Int
    BY <1>0 DEF TypeOK
  <2>3. /\ One(HasPermit(c)) \in Int /\ One(HasPermit(c)') \in Int
        /\ One(HasConnPermit(c)) \in Int /\ One(HasConnPermit(c)') \in Int
    BY DEF One
  <2> QED
    BY <1>0, <1>2, <2>1, <2>2, <2>3
<1>6. PermitsMatch'
  BY <1>5 DEF PermitsMatch, Permits, ConnPermits, ConnLimit
<1>7. handlerFree' \in 0..MaxConcurrent /\ connFree' \in 0..ConnLimit
  <2>1. Cardinality(Permits') \in Nat /\ Cardinality(ConnPermits') \in Nat
    <3>1. Permits' \subseteq Conns /\ ConnPermits' \subseteq Conns /\ IsFiniteSet(Conns)
      BY AdmissionAssumption DEF Permits, ConnPermits, AdmissionAssumption
    <3> QED
      BY <3>1, FS_Subset, FS_CardinalityType
  <2>2. handlerFree' \in Int /\ connFree' \in Int
    <3>1. /\ One(HasPermit(c)) \in Int /\ One(HasPermit(c)') \in Int
          /\ One(HasConnPermit(c)) \in Int /\ One(HasConnPermit(c)') \in Int
      BY DEF One
    <3>2. handlerFree \in Int /\ connFree \in Int
      BY <1>0 DEF TypeOK
    <3> QED
      BY <3>1, <3>2
  <2> QED
    BY <1>0, <1>5, <2>1, <2>2
<1>8. TypeOK'
  BY <1>1, <1>7 DEF TypeOK, ConnLimit
<1> QED
  BY <1>3, <1>4, <1>6, <1>8

\* The three outcomes of the limiter, as changes of what it holds.
LEMMA AdmitHeld ==
    ASSUME IInv, NEW j \in Ips, Admit(j)
    PROVE  /\ entries' \subseteq Ips /\ count' \in [Ips -> 0..MaxPerIp]
           /\ \A i \in Ips : Held(i)' = Held(i) + (IF i = j THEN 1 ELSE 0)
<1>1. MaxPerIp \in Nat
  BY AdmissionAssumption DEF AdmissionAssumption
<1>2. entries \subseteq Ips /\ count \in [Ips -> 0..MaxPerIp]
  BY DEF IInv, TypeOK
<1>3. \A i \in Ips : Held(i) \in 0..MaxPerIp
  BY <1>1, <1>2 DEF Held
<1> QED
  BY <1>1, <1>2, <1>3 DEF Admit, Held

LEMMA RefuseHeld ==
    ASSUME IInv, NEW j \in Ips, Refuse(j)
    PROVE  /\ entries' \subseteq Ips /\ count' \in [Ips -> 0..MaxPerIp]
           /\ \A i \in Ips : Held(i)' = Held(i) /\ Held(i) \in Nat
<1>1. MaxPerIp \in Nat
  BY AdmissionAssumption DEF AdmissionAssumption
<1>2. entries \subseteq Ips /\ count \in [Ips -> 0..MaxPerIp]
  BY DEF IInv, TypeOK
<1>3. \A i \in Ips : Held(i) \in 0..MaxPerIp
  BY <1>1, <1>2 DEF Held
<1> QED
  BY <1>1, <1>2, <1>3 DEF Refuse, Held

\* A connection that holds a slot is counted, so its release is never lost.
LEMMA ReleaseHeld ==
    ASSUME IInv, NEW c \in Conns, HasSlot(c), Release(ip[c])
    PROVE  /\ entries' \subseteq Ips /\ count' \in [Ips -> 0..MaxPerIp]
           /\ \A i \in Ips : Held(i)' = Held(i) - (IF i = ip[c] THEN 1 ELSE 0)
<1>1. MaxPerIp \in Nat
  BY AdmissionAssumption DEF AdmissionAssumption
<1>2. entries \subseteq Ips /\ count \in [Ips -> 0..MaxPerIp] /\ ip[c] \in Ips
  BY DEF IInv, TypeOK
<1>3. Held(ip[c]) > 0
  <2>1. c \in Slots(ip[c]) /\ IsFiniteSet(Slots(ip[c]))
    BY <1>2, Finite DEF Slots, Counted
  <2>2. Cardinality(Slots(ip[c])) # 0 /\ Cardinality(Slots(ip[c])) \in Nat
    BY <2>1, FS_EmptySet, FS_CardinalityType
  <2>3. Held(ip[c]) = Cardinality(Slots(ip[c]))
    BY <1>2 DEF IInv, SlotsMatch, Slots, Counted
  <2> QED
    BY <2>2, <2>3
<1>4. ip[c] \in entries /\ count[ip[c]] > 0
  BY <1>3 DEF Held
<1>5. count' = [count EXCEPT ![ip[c]] = @ - 1] /\ entries' = entries
  BY <1>4 DEF Release
<1> QED
  BY <1>1, <1>2, <1>4, <1>5 DEF Held

-----------------------------------------------------------------------------
(* One lemma per group of steps *)

\* Steps that leave the limiter alone.
LEMMA QuietMoves ==
    ASSUME IInv, NEW c \in Conns,
           TcpAccept(c) \/ NoHello(c) \/ QuicAccept(c) \/ DropPermit(c) \/ Notify(c)
    PROVE  IInv'
<1>1. /\ entries \subseteq Ips /\ count \in [Ips -> 0..MaxPerIp]
      /\ passed \subseteq Conns /\ shutdown \in BOOLEAN
      /\ pc \in [Conns -> Labels]
  BY DEF IInv, TypeOK
<1>2. /\ pc[c] \in {"first", "permit"} => via[c] = "tcp"
      /\ pc[c] = "freed" => one_off
      /\ c \in panicked => pc[c] \in {"unslotted", "freed", "closed"}
  BY DEF IInv, PathInv
<1>3. \A i \in Ips : Held(i) \in Int
  <2>1. MaxPerIp \in Nat
    BY AdmissionAssumption DEF AdmissionAssumption
  <2> QED
    BY <1>1, <2>1 DEF Held
<1>4. handlerFree \in Nat /\ connFree \in Nat
  <2>1. MaxConcurrent \in Nat /\ ConnLimit \in Nat
    BY AdmissionAssumption DEF AdmissionAssumption, ConnLimit
  <2> QED
    BY <2>1 DEF IInv, TypeOK
<1>5. PICK l \in Labels :
        /\ Goto(c, l) /\ pc'[c] = l /\ UNCHANGED <<ip, via, entries, count, passed, panicked>>
        /\ UNCHANGED <<one_off, signalled, tcpUp, quicUp>>
        /\ l \in {"first", "permit"} => via[c] = "tcp"
        /\ l = "freed" => one_off
        /\ l = "slot" => via[c] # "tcp"
        /\ l \notin {"permit", "run"} /\ pc[c] \notin {"permit", "run"}
        /\ c \in panicked => l \in {"freed", "closed"}
  BY <1>1, <1>2 DEF TcpAccept, NoHello, QuicAccept, DropPermit, Notify, Goto, Labels
<1>6. shutdown' \in BOOLEAN
  BY <1>1 DEF TcpAccept, NoHello, QuicAccept, DropPermit, Notify
<1>7. \A i \in Ips : Held(i)' = Held(i) +
               (IF i = ip[c] THEN One(Counted(c)') - One(Counted(c)) ELSE 0)
  <2>1. Counted(c)' <=> Counted(c)
    BY <1>5 DEF Counted, HasSlot, Leaked
  <2>2. One(Counted(c)') = One(Counted(c)) /\ One(Counted(c)) \in Int
    BY <2>1 DEF One
  <2> QED
    BY <1>3, <1>5, <2>2 DEF Held
<1>8. /\ handlerFree' = handlerFree - One(HasPermit(c)') + One(HasPermit(c))
      /\ connFree' = connFree - One(HasConnPermit(c)') + One(HasConnPermit(c))
  <2> USE <1>1, <1>2, <1>4, <1>5 DEF One, HasPermit, HasConnPermit, Goto
  <2>1. CASE TcpAccept(c)
    BY <2>1 DEF TcpAccept
  <2>2. CASE NoHello(c)
    BY <2>2 DEF NoHello
  <2>3. CASE QuicAccept(c)
    BY <2>3 DEF QuicAccept
  <2>4. CASE DropPermit(c)
    BY <2>4 DEF DropPermit
  <2>5. CASE Notify(c)
    BY <2>5 DEF Notify
  <2> QED
    BY <2>1, <2>2, <2>3, <2>4, <2>5
<1>9. handlerFree' >= 0 /\ connFree' >= 0
  BY <1>4 DEF TcpAccept, NoHello, QuicAccept, DropPermit, Notify
<1> QED
  BY <1>1, <1>5, <1>6, <1>7, <1>8, <1>9, MoveStep

\* What the steps that use the limiter need of the state.
LEMMA Facts ==
    ASSUME IInv, NEW c \in Conns
    PROVE  /\ entries \subseteq Ips /\ count \in [Ips -> 0..MaxPerIp]
           /\ passed \subseteq Conns /\ shutdown \in BOOLEAN
           /\ pc \in [Conns -> Labels] /\ ip[c] \in Ips /\ via[c] \in {"tcp", "quic"}
           /\ pc[c] \in {"first", "permit"} => via[c] = "tcp"
           /\ pc[c] = "freed" => one_off
           /\ c \in panicked => pc[c] \in {"unslotted", "freed", "closed"}
           /\ handlerFree \in Nat /\ connFree \in Nat
           /\ \A i \in Ips : Held(i) \in Int
<1>1. MaxConcurrent \in Nat /\ ConnLimit \in Nat /\ MaxPerIp \in Nat
  BY AdmissionAssumption DEF AdmissionAssumption, ConnLimit
<1>2. TypeOK
  BY DEF IInv
<1>3. \A i \in Ips : Held(i) \in Int
  BY <1>1, <1>2 DEF TypeOK, Held
<1>4. handlerFree \in Nat /\ connFree \in Nat
  BY <1>1, <1>2 DEF TypeOK
<1>5. via[c] \in {"tcp", "quic"}
  BY <1>2, AdmissionAssumption DEF TypeOK, AdmissionAssumption
<1> QED
  BY <1>2, <1>3, <1>4, <1>5 DEF IInv, TypeOK, PathInv

\* A Hello or a QUIC connection asks the limiter.
LEMMA CheckMoves ==
    ASSUME IInv, NEW c \in Conns, Hello(c) \/ QuicCheck(c)
    PROVE  IInv'
<1>1. /\ entries \subseteq Ips /\ count \in [Ips -> 0..MaxPerIp]
      /\ passed \subseteq Conns /\ shutdown \in BOOLEAN
      /\ pc \in [Conns -> Labels] /\ ip[c] \in Ips
      /\ pc[c] \in {"first", "permit"} => via[c] = "tcp"
      /\ c \in panicked => pc[c] \in {"unslotted", "freed", "closed"}
      /\ handlerFree \in Nat /\ connFree \in Nat
      /\ \A i \in Ips : Held(i) \in Int
  BY Facts
<1>2. /\ UNCHANGED <<ip, via, passed, panicked, serverVars>>
      /\ pc[c] \in {"first", "slot"} /\ c \notin panicked
  BY <1>1 DEF Hello, QuicCheck
<1>3. CASE Admit(ip[c]) /\ UNCHANGED <<handlerFree, connFree>>
           /\ Goto(c, IF pc[c] = "first" THEN "permit" ELSE "run")
  <2> DEFINE l == IF pc[c] = "first" THEN "permit" ELSE "run"
  <2>1. l \in Labels /\ Goto(c, l) /\ pc'[c] = l
    BY <1>1, <1>3 DEF Goto, Labels
  <2>2. /\ One(Counted(c)') = 1 /\ One(Counted(c)) = 0
        /\ One(HasPermit(c)') = One(HasPermit(c))
    BY <1>2, <2>1 DEF One, Counted, HasSlot, Leaked, HasPermit
  <2>3. One(HasConnPermit(c)') = One(HasConnPermit(c))
    <3>1. CASE pc[c] = "first"
      BY <2>1, <3>1 DEF One, HasConnPermit
    <3>2. CASE pc[c] = "slot" /\ via[c] # "tcp"
      BY <1>2, <2>1, <3>2 DEF One, HasConnPermit
    <3>3. pc[c] = "slot" => via[c] # "tcp"
      BY DEF IInv, PathInv, SlotPath
    <3> QED
      BY <1>2, <3>1, <3>2, <3>3
  <2>4. /\ entries' \subseteq Ips /\ count' \in [Ips -> 0..MaxPerIp]
        /\ \A i \in Ips : Held(i)' = Held(i) + (IF i = ip[c] THEN 1 ELSE 0)
    BY <1>1, <1>3, AdmitHeld
  <2>5. One(HasPermit(c)) \in Int /\ One(HasConnPermit(c)) \in Int
    BY DEF One
  <2> QED
    BY <1>1, <1>2, <1>3, <2>1, <2>2, <2>3, <2>4, <2>5, MoveStep
<1>4. CASE /\ Refuse(ip[c]) /\ Goto(c, "closed")
           /\ handlerFree' = IF pc[c] = "slot" THEN handlerFree + 1 ELSE handlerFree
           /\ connFree' = IF pc[c] = "first" THEN connFree + 1 ELSE connFree
  <2>1. "closed" \in Labels /\ pc'[c] = "closed"
    BY <1>1, <1>4 DEF Goto, Labels
  <2>2. /\ One(Counted(c)') = 0 /\ One(Counted(c)) = 0
        /\ One(HasPermit(c)') = 0 /\ One(HasConnPermit(c)') = 0
        /\ One(HasPermit(c)) = (IF pc[c] = "slot" THEN 1 ELSE 0)
        /\ One(HasConnPermit(c)) = (IF pc[c] = "first" THEN 1 ELSE 0)
    BY <1>2, <2>1 DEF One, Counted, HasSlot, Leaked, HasPermit, HasConnPermit
  <2>3. /\ entries' \subseteq Ips /\ count' \in [Ips -> 0..MaxPerIp]
        /\ \A i \in Ips : Held(i)' = Held(i)
    BY <1>1, <1>4, RefuseHeld
  <2> QED
    BY <1>1, <1>2, <1>4, <2>1, <2>2, <2>3, MoveStep
<1> QED
  BY <1>2, <1>3, <1>4 DEF Hello, QuicCheck

\* A Hello with a slot asks for a handler permit.
LEMMA PermitMove == ASSUME IInv, NEW c \in Conns, TakePermit(c) PROVE IInv'
<1>1. /\ entries \subseteq Ips /\ count \in [Ips -> 0..MaxPerIp]
      /\ passed \subseteq Conns /\ shutdown \in BOOLEAN
      /\ pc \in [Conns -> Labels] /\ ip[c] \in Ips
      /\ via[c] = "tcp" /\ pc[c] = "permit" /\ c \notin panicked
      /\ handlerFree \in Nat /\ connFree \in Nat
      /\ \A i \in Ips : Held(i) \in Int
  BY Facts DEF TakePermit
<1>2. UNCHANGED <<ip, via, passed, panicked, serverVars>>
  BY DEF TakePermit
<1>3. One(Counted(c)) = 1 /\ One(HasPermit(c)) = 0 /\ One(HasConnPermit(c)) = 1
  BY <1>1 DEF One, Counted, HasSlot, HasPermit, HasConnPermit
<1>4. CASE handlerFree > 0
  <2>1. /\ Goto(c, "run") /\ "run" \in Labels /\ pc'[c] = "run"
        /\ UNCHANGED <<entries, count>> /\ handlerFree' = handlerFree - 1
        /\ connFree' = IF one_off THEN connFree ELSE connFree + 1
    BY <1>1, <1>4 DEF TakePermit, Goto, Labels
  <2>2. /\ One(Counted(c)') = 1 /\ One(HasPermit(c)') = 1
        /\ One(HasConnPermit(c)') = (IF one_off THEN 1 ELSE 0)
    BY <1>1, <1>2, <2>1 DEF One, Counted, HasSlot, HasPermit, HasConnPermit
  <2>3. \A i \in Ips : Held(i)' = Held(i)
    BY <2>1 DEF Held
  <2> QED
    BY <1>1, <1>2, <1>3, <1>4, <2>1, <2>2, <2>3, MoveStep
<1>5. CASE ~(handlerFree > 0)
  <2>1. /\ Goto(c, "closed") /\ "closed" \in Labels /\ pc'[c] = "closed"
        /\ Release(ip[c]) /\ handlerFree' = handlerFree
        /\ connFree' = connFree + 1
    BY <1>1, <1>5 DEF TakePermit, Goto, Labels
  <2>2. One(Counted(c)') = 0 /\ One(HasPermit(c)') = 0 /\ One(HasConnPermit(c)') = 0
    BY <1>1, <1>2, <2>1 DEF One, Counted, HasSlot, Leaked, HasPermit, HasConnPermit
  <2>3. /\ entries' \subseteq Ips /\ count' \in [Ips -> 0..MaxPerIp]
        /\ \A i \in Ips : Held(i)' = Held(i) - (IF i = ip[c] THEN 1 ELSE 0)
    <3>1. HasSlot(c)
      BY <1>1 DEF HasSlot
    <3> QED
      BY <2>1, <3>1, ReleaseHeld
  <2>4. \A i \in Ips : Held(i)' = Held(i) + (IF i = ip[c] THEN 0 - 1 ELSE 0)
    BY <1>1, <2>3
  <2> QED
    BY <1>1, <1>2, <1>3, <2>1, <2>2, <2>3, <2>4, MoveStep
<1> QED
  BY <1>4, <1>5

\* A handler ends or panics: either way the slot is released, or the connection leaks
\* it and stays counted.
LEMMA ServeMoves ==
    ASSUME IInv, NEW c \in Conns, ServeEnds(c) \/ ServePanics(c)
    PROVE  IInv'
<1>1. /\ entries \subseteq Ips /\ count \in [Ips -> 0..MaxPerIp]
      /\ passed \subseteq Conns /\ shutdown \in BOOLEAN
      /\ pc \in [Conns -> Labels] /\ ip[c] \in Ips /\ via[c] \in {"tcp", "quic"}
      /\ c \in panicked => pc[c] \in {"unslotted", "freed", "closed"}
      /\ handlerFree \in Nat /\ connFree \in Nat
      /\ \A i \in Ips : Held(i) \in Int
  BY Facts
<1>2. /\ UNCHANGED <<ip, via, connFree, handlerFree, serverVars>>
      /\ pc[c] = "run" /\ Goto(c, "unslotted") /\ passed' \subseteq Conns
      /\ panicked' \in {panicked, panicked \cup {c}} /\ c \notin panicked
  BY <1>1 DEF ServeEnds, ServePanics
<1>3. \/ Release(ip[c]) /\ ~(via[c] = "quic" /\ c \in panicked')
      \/ UNCHANGED <<entries, count>> /\ via[c] = "quic" /\ c \in panicked'
  BY <1>1, <1>2 DEF ServeEnds, ServePanics
<1>4. "unslotted" \in Labels /\ pc'[c] = "unslotted"
  BY <1>1, <1>2 DEF Goto, Labels
<1>5. /\ One(Counted(c)) = 1
      /\ One(HasPermit(c)') = 1 /\ One(HasPermit(c)) = 1
      /\ One(HasConnPermit(c)') = One(HasConnPermit(c))
      /\ One(HasConnPermit(c)) \in Int
  BY <1>2, <1>4 DEF One, Counted, HasSlot, HasPermit, HasConnPermit
<1>6. /\ entries' \subseteq Ips /\ count' \in [Ips -> 0..MaxPerIp]
      /\ \A i \in Ips : Held(i)' = Held(i) +
             (IF i = ip[c] THEN One(Counted(c)') - One(Counted(c)) ELSE 0)
  <2>1. CASE Release(ip[c]) /\ ~(via[c] = "quic" /\ c \in panicked')
    <3>1. HasSlot(c)
      BY <1>2 DEF HasSlot
    <3>2. One(Counted(c)') = 0
      BY <1>2, <1>4, <2>1 DEF One, Counted, HasSlot, Leaked
    <3>3. /\ entries' \subseteq Ips /\ count' \in [Ips -> 0..MaxPerIp]
          /\ \A i \in Ips : Held(i)' = Held(i) - (IF i = ip[c] THEN 1 ELSE 0)
      BY <2>1, <3>1, ReleaseHeld
    <3> QED
      BY <1>1, <1>5, <3>2, <3>3
  <2>2. CASE UNCHANGED <<entries, count>> /\ via[c] = "quic" /\ c \in panicked'
    <3>1. One(Counted(c)') = 1
      BY <1>2, <2>2 DEF One, Counted, Leaked
    <3>2. \A i \in Ips : Held(i)' = Held(i)
      BY <2>2 DEF Held
    <3> QED
      BY <1>1, <1>5, <2>2, <3>1, <3>2
  <2> QED
    BY <1>3, <2>1, <2>2
<1> QED
  BY <1>1, <1>2, <1>4, <1>5, <1>6, MoveStep

\* Steps that move no connection.
LEMMA ServerMoves ==
    ASSUME IInv,
           \/ \E i \in Ips : Cleanup(i)
           \/ Sigterm \/ TcpStops \/ QuicStops \/ UNCHANGED vars
    PROVE  IInv'
<1> USE DEF IInv
<1>1. /\ UNCHANGED <<one_off, pc, ip, via, connFree, handlerFree, count, passed, panicked>>
      /\ entries' \subseteq entries
      /\ \A i \in Ips : Held(i)' = Held(i)
  BY DEF Cleanup, Sigterm, TcpStops, QuicStops, vars, Held
<1>2. /\ shutdown' \in BOOLEAN /\ signalled' \in BOOLEAN
      /\ tcpUp' \in BOOLEAN /\ quicUp' \in BOOLEAN
  BY DEF Cleanup, Sigterm, TcpStops, QuicStops, vars, TypeOK
<1>3. TypeOK'
  BY <1>1, <1>2 DEF TypeOK, ConnLimit
<1>4. PathInv'
  BY <1>1 DEF PathInv, SlotPath
<1>5. SlotsMatch'
  BY <1>1 DEF SlotsMatch, HasSlot, Leaked
<1>6. PermitsMatch'
  BY <1>1 DEF PermitsMatch, HasPermit, HasConnPermit, ConnLimit
<1> QED
  BY <1>3, <1>4, <1>5, <1>6

LEMMA NextIInv == IInv /\ [Next]_vars => IInv'
<1> SUFFICES ASSUME IInv, [Next]_vars PROVE IInv'
  OBVIOUS
<1>1. CASE \E c \in Conns : ConnStep(c)
  BY <1>1, QuietMoves, CheckMoves, PermitMove, ServeMoves DEF ConnStep
<1>2. CASE \/ \E i \in Ips : Cleanup(i)
           \/ Sigterm \/ TcpStops \/ QuicStops \/ UNCHANGED vars
  BY <1>2, ServerMoves
<1> QED
  BY <1>1, <1>2 DEF Next, Finished

-----------------------------------------------------------------------------

\* The limiter and both semaphores account for exactly the connections that hold
\* something of theirs, whatever handlers panic.
THEOREM Invariance == Spec => []IInv
<1>1. Init => IInv
  BY InitIInv
<1>2. IInv /\ [Next]_vars => IInv'
  BY NextIInv
<1> QED
  BY <1>1, <1>2, PTL DEF Spec

\* No slot of an address is given out twice, and none is lost but by a QUIC handler
\* that panics before its release() (serve.rs:850).
THEOREM SlotsExact == Spec => []SlotsMatch
<1>1. IInv => SlotsMatch
  BY DEF IInv
<1> QED
  BY <1>1, Invariance, PTL

\* No permit of either semaphore is lost, whatever way a connection ends, a panic of
\* its handler included (serve.rs:837, 1077).
THEOREM PermitsExact == Spec => []PermitsMatch
<1>1. IInv => PermitsMatch
  BY DEF IInv
<1> QED
  BY <1>1, Invariance, PTL

\* Slots and permits bound the tests that run.
LEMMA Bounded == IInv => LimitsHold
<1> SUFFICES ASSUME IInv PROVE LimitsHold
  OBVIOUS
<1>1. /\ MaxConcurrent \in Nat /\ MaxPerIp \in Nat
      /\ handlerFree \in 0..MaxConcurrent
      /\ entries \subseteq Ips /\ count \in [Ips -> 0..MaxPerIp]
  BY AdmissionAssumption DEF AdmissionAssumption, IInv, TypeOK
<1>2. Cardinality({c \in Conns : pc[c] = "run"}) <= MaxConcurrent
  <2>1. {c \in Conns : pc[c] = "run"} \subseteq Permits /\ IsFiniteSet(Permits)
    BY Finite DEF Permits, HasPermit
  <2>2. /\ Cardinality({c \in Conns : pc[c] = "run"}) <= Cardinality(Permits)
        /\ Cardinality({c \in Conns : pc[c] = "run"}) \in Nat
        /\ Cardinality(Permits) \in Nat
    BY <2>1, FS_Subset, FS_CardinalityType
  <2>3. handlerFree + Cardinality(Permits) = MaxConcurrent
    BY DEF IInv, PermitsMatch, Permits
  <2> QED
    BY <1>1, <2>2, <2>3
<1>3. ASSUME NEW i \in Ips
      PROVE  Cardinality({c \in Conns : pc[c] = "run" /\ ip[c] = i}) <= MaxPerIp
  <2> DEFINE R == {c \in Conns : pc[c] = "run" /\ ip[c] = i}
  <2>1. R \subseteq Slots(i) /\ IsFiniteSet(Slots(i))
    BY Finite DEF Slots, Counted, HasSlot
  <2> HIDE DEF R
  <2>2. /\ Cardinality(R) <= Cardinality(Slots(i))
        /\ Cardinality(R) \in Nat /\ Cardinality(Slots(i)) \in Nat
    BY <2>1, FS_Subset, FS_CardinalityType
  <2>3. Held(i) = Cardinality(Slots(i)) /\ Held(i) <= MaxPerIp
    BY <1>1 DEF IInv, SlotsMatch, Slots, Counted, Held
  <2>4. Cardinality(R) <= MaxPerIp
    BY <1>1, <2>2, <2>3
  <2> QED
    BY <2>4 DEF R
<1>4. connFree + Cardinality({c \in Conns : HasConnPermit(c) /\ ~HasPermit(c)})
        >= 3 * MaxConcurrent
  <2> DEFINE W == {c \in Conns : HasConnPermit(c) /\ ~HasPermit(c)}
  <2>1. IsFiniteSet(W) /\ IsFiniteSet(Permits) /\ IsFiniteSet(W \cup Permits)
    <3>1. W \in SUBSET Conns /\ Permits \in SUBSET Conns /\ W \cup Permits \in SUBSET Conns
      BY DEF Permits
    <3> QED
      BY <3>1, AdmissionAssumption, FS_Subset DEF AdmissionAssumption
  <2>2. ConnPermits \in SUBSET (W \cup Permits) /\ W \cap Permits = {}
    <3>1. ASSUME NEW c \in Conns PROVE c \in W \cap Permits => FALSE
      BY ZenonT(30) DEF Permits
    <3>2. ASSUME NEW c \in ConnPermits PROVE c \in W \cup Permits
      BY <3>2, ZenonT(30) DEF ConnPermits, Permits
    <3>3. W \subseteq Conns
      OBVIOUS
    <3> QED
      BY <3>1, <3>2, <3>3
  <2> HIDE DEF W
  <2>3. Cardinality(ConnPermits) <= Cardinality(W) + Cardinality(Permits)
    <3>1. Cardinality(W \cup Permits) = Cardinality(W) + Cardinality(Permits)
      <4>1. Cardinality(W \cup Permits)
              = Cardinality(W) + Cardinality(Permits) - Cardinality(W \cap Permits)
        BY <2>1, FS_Union
      <4>2. Cardinality(W \cap Permits) = 0
        BY <2>2, FS_EmptySet
      <4>3. Cardinality(W) \in Nat /\ Cardinality(Permits) \in Nat
        BY <2>1, FS_CardinalityType
      <4> QED
        BY <4>1, <4>2, <4>3
    <3> QED
      BY <2>1, <2>2, <3>1, FS_Subset
  <2>4. /\ Cardinality(W) \in Nat /\ Cardinality(Permits) \in Nat
        /\ Cardinality(ConnPermits) \in Nat
    BY <2>1, <2>2, FS_Subset, FS_CardinalityType
  <2>5. /\ handlerFree + Cardinality(Permits) = MaxConcurrent
        /\ connFree + Cardinality(ConnPermits) = 4 * MaxConcurrent
    BY DEF IInv, PermitsMatch, Permits, ConnPermits, ConnLimit
  <2>6. connFree \in Nat
    BY <1>1 DEF IInv, TypeOK, ConnLimit
  <2>7. connFree + Cardinality(W) >= 3 * MaxConcurrent
    BY <1>1, <2>3, <2>4, <2>5, <2>6
  <2> QED
    BY <2>7 DEF W
<1> QED
  BY <1>2, <1>3, <1>4 DEF LimitsHold

\* Never more than max_concurrent tests in all, nor max_per_ip of an address, in whatever
\* order the two transports take slot and permit (serve.rs:806, 1050) and whatever panics:
\* a slot that leaked can only lower the number of tests of its address.  Nor do the tests
\* of a one-off server take more than a quarter of the pre-handshake permits.
THEOREM Limits == Spec => []LimitsHold
<1>1. IInv => LimitsHold
  BY Bounded
<1> QED
  BY <1>1, Invariance, PTL

-----------------------------------------------------------------------------
(* Why a server stops.  This needs nothing of the handlers: any may panic. *)

\* The watcher a finished handler tells is that of a one-off server, and only a
\* signal or a completed test reaches the shutdown channel.
StopInv ==
    /\ pc \in [Conns -> Labels]
    /\ \A c \in Conns : pc[c] = "freed" => one_off
    /\ shutdown => signalled \/ (one_off /\ passed # {})

LEMMA NextStop == StopInv /\ [Next]_vars => StopInv'
<1> SUFFICES ASSUME StopInv, [Next]_vars PROVE StopInv'
  OBVIOUS
<1>1. ASSUME NEW c \in Conns, ConnStep(c) PROVE StopInv'
  <2>1. /\ one_off' = one_off /\ signalled' = signalled /\ passed \subseteq passed'
        /\ shutdown' => shutdown \/ (pc[c] = "freed" /\ c \in passed)
    <3>1. CASE Notify(c)
      BY <3>1 DEF Notify
    <3>2. CASE ServeEnds(c)
      BY <3>2 DEF ServeEnds
    <3> QED
      BY <1>1, <3>1, <3>2 DEF ConnStep, TcpAccept, NoHello, Hello, TakePermit, QuicAccept, QuicCheck,
         ServePanics, DropPermit
  <2>2. \E l \in Labels : pc' = [pc EXCEPT ![c] = l] /\ (l = "freed" => one_off)
    BY <1>1 DEF ConnStep, TcpAccept, NoHello, Hello, TakePermit, QuicAccept, QuicCheck, ServeEnds,
       ServePanics, DropPermit, Notify, Goto, Labels
  <2> QED
    BY <2>1, <2>2 DEF StopInv
<1>2. CASE \/ \E i \in Ips : Cleanup(i)
           \/ Sigterm \/ TcpStops \/ QuicStops \/ UNCHANGED vars
  BY <1>2 DEF Cleanup, Sigterm, TcpStops, QuicStops, vars, StopInv
<1> QED
  BY <1>1, <1>2 DEF Next, Finished

\* For any number of connections, limits and failures: a server stops accepting only
\* for a signal, or in one-off mode for a completed test, whatever handshakes and
\* tests failed, ended or panicked before.  This is the safety half of OneOffEnds.
THEOREM StopsForAReason == Spec => [](shutdown => signalled \/ (one_off /\ passed # {}))
<1>1. Init => StopInv
  BY DEF Init, StopInv, Labels
<1>2. StopInv => (shutdown => signalled \/ (one_off /\ passed # {}))
  BY DEF StopInv
<1> QED
  BY <1>1, <1>2, NextStop, PTL DEF Spec
=============================================================================
