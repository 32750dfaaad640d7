-------------------------- MODULE SendLoopsProofs --------------------------
(***************************************************************************)
(* Safety of the shared byte budget, for every number of streams, budget   *)
(* and chunk size, and the loops together as one Transfer of that budget.  *)
(***************************************************************************)
EXTENDS SendLoops, FiniteSetTheorems, TLAPS

-----------------------------------------------------------------------------
(* Sums over streams.  Total(f) counts the pairs <<s, i>> with i <= f[s],  *)
(* so changing f at one stream replaces one column of pairs.               *)

\* A column of k pairs has k elements.
LEMMA ColumnSize ==
    ASSUME NEW s, NEW k \in Nat
    PROVE  /\ IsFiniteSet({s} \X (1..k))
           /\ Cardinality({s} \X (1..k)) = k
<1> DEFINE col == {s} \X (1..k)
           f == [i \in 1..k |-> <<s, i>>]
<1>1. IsFiniteSet(1..k) /\ Cardinality(1..k) = k
  BY FS_Interval
<1>2. f \in Bijection(1..k, col)
  <2>1. f \in [1..k -> col]
    OBVIOUS
  <2>2. \A i, j \in 1..k : f[i] = f[j] => i = j
    OBVIOUS
  <2>3. \A p \in col : \E i \in 1..k : f[i] = p
    OBVIOUS
  <2> QED
    BY <2>1, <2>2, <2>3 DEF Bijection, Injection, Surjection, IsInjective
<1>3. ExistsBijection(1..k, col)
  BY <1>2 DEF ExistsBijection
<1> HIDE DEF col, f
<1>4. IsFiniteSet(col) /\ Cardinality(col) = k
  BY <1>1, <1>3, FS_Bijection
<1> QED
  BY <1>4 DEF col

\* Changing one stream's bytes changes the total by the difference.
LEMMA TotalUpdate ==
    ASSUME NEW S, NEW f \in [S -> Nat], NEW s \in S, NEW v \in Nat,
           IsFiniteSet(Units(f))
    PROVE  /\ IsFiniteSet(Units([f EXCEPT ![s] = v]))
           /\ Total([f EXCEPT ![s] = v]) = Total(f) - f[s] + v
           /\ Total(f) \in Nat /\ f[s] <= Total(f)
<1> DEFINE g == [f EXCEPT ![s] = v]
           old == {s} \X (1..f[s])
           new == {s} \X (1..v)
           rest == Units(f) \ old
<1>1. f[s] \in Nat
  OBVIOUS
<1>2. /\ IsFiniteSet(old) /\ Cardinality(old) = f[s]
      /\ IsFiniteSet(new) /\ Cardinality(new) = v
  BY <1>1, ColumnSize
<1>3. old \subseteq Units(f)
  BY DEF Units
<1>4. /\ IsFiniteSet(rest)
      /\ Cardinality(rest) = Cardinality(Units(f)) - f[s]
  <2>1. Units(f) \cap old = old
    BY <1>3
  <2>2. IsFiniteSet(Units(f))
    OBVIOUS
  <2> HIDE DEF old
  <2>3. /\ IsFiniteSet(Units(f) \ old)
        /\ Cardinality(Units(f) \ old)
             = Cardinality(Units(f)) - Cardinality(Units(f) \cap old)
    BY <2>2, FS_Difference
  <2> QED
    BY <1>2, <2>1, <2>3
<1>5. rest \cap new = {}
  BY DEF Units
<1>6. Units(g) = rest \cup new
  <2>1. ASSUME NEW p \in Units(g) PROVE p \in rest \cup new
    <3>1. PICK t \in S : p \in {t} \X (1..g[t])
      BY DEF Units
    <3>2. CASE t = s
      BY <3>1, <3>2
    <3>3. CASE t # s
      BY <3>1, <3>3 DEF Units
    <3> QED
      BY <3>2, <3>3
  <2>2. ASSUME NEW p \in rest PROVE p \in Units(g)
    <3>1. PICK t \in S : p \in {t} \X (1..f[t])
      BY <2>2 DEF Units
    <3>2. t # s
      BY <2>2, <3>1
    <3> QED
      BY <3>1, <3>2 DEF Units
  <2>3. ASSUME NEW p \in new PROVE p \in Units(g)
    BY <2>3 DEF Units
  <2> QED
    BY <2>1, <2>2, <2>3
<1>7. /\ IsFiniteSet(Units(g))
      /\ Cardinality(Units(g)) = Cardinality(rest) + v
  <2> HIDE DEF rest, new, g
  <2>1. Cardinality({}) = 0
    BY FS_EmptySet
  <2>2. /\ IsFiniteSet(rest \cup new)
        /\ Cardinality(rest \cup new) = Cardinality(rest) + Cardinality(new)
                                          - Cardinality(rest \cap new)
    BY <1>2, <1>4, FS_Union
  <2>3. Cardinality(rest) \in Nat
    BY <1>4, FS_CardinalityType
  <2>4. Cardinality(rest \cup new) = Cardinality(rest) + v
    <3>1. Cardinality(rest \cap new) = 0
      BY <1>5, <2>1, Zenon
    <3>2. Cardinality(new) = v
      BY <1>2
    <3> QED
      BY <2>2, <2>3, <3>1, <3>2
  <2> QED
    BY <1>6, <2>2, <2>4
<1>8. /\ Cardinality(Units(f)) \in Nat /\ Cardinality(rest) \in Nat
      /\ Cardinality(Units(g)) \in Nat
  BY <1>4, <1>7, FS_CardinalityType
<1> HIDE DEF rest, new, old, g
<1>9. /\ IsFiniteSet(Units(g))
      /\ Total(g) = Total(f) - f[s] + v
      /\ Total(f) \in Nat /\ f[s] <= Total(f)
  BY <1>1, <1>4, <1>7, <1>8 DEF Total
<1> QED
  BY <1>9 DEF g
-----------------------------------------------------------------------------
(* The inductive invariant.                                                *)

\* What each loop's local state says about where it is.
LoopInv(s) ==
    /\ claim[s] > 0 => pc[s] \in {"write", "refund"}
    /\ wrote[s] > 0 => pc[s] \in {"refund", "count"}
    /\ exit[s] # "none" => pc[s] \in {"refund", "close", "done"}
    /\ exit[s] # "none" => wrote[s] = 0
    /\ exit[s] = "spent" => pc[s] \in {"close", "done"}
    /\ sent[s] + wrote[s] <= out[s]
    /\ exit[s] # "error" => sent[s] + wrote[s] = out[s]

Sums == IsFiniteSet(Units(claim)) /\ IsFiniteSet(Units(out))

IInv ==
    /\ TypeOK
    /\ Sums
    /\ BudgetConserved
    /\ UnclaimedHasTaker
    /\ \A s \in Streams : LoopInv(s)

\* With no bytes anywhere the sums are empty.
LEMMA EmptyTotal ==
    ASSUME NEW S, NEW f \in [S -> Nat], \A s \in S : f[s] = 0
    PROVE  IsFiniteSet(Units(f)) /\ Total(f) = 0
<1>1. Units(f) = {}
  BY DEF Units
<1> QED
  BY <1>1, FS_EmptySet DEF Total

LEMMA InitIInv == Init => IInv
<1> SUFFICES ASSUME Init PROVE IInv
  OBVIOUS
<1>1. TypeOK
  <2>1. 0 \in 0..(Chunk - 1)
    BY ConstAssumption DEF ConstAssumption
  <2> QED
    BY <2>1, ConstAssumption DEF Init, TypeOK, Labels, Exits, ConstAssumption
<1>2. /\ IsFiniteSet(Units(claim)) /\ Total(claim) = 0
      /\ IsFiniteSet(Units(out)) /\ Total(out) = 0
  <2>1. /\ claim \in [Streams -> Nat] /\ \A s \in Streams : claim[s] = 0
        /\ out \in [Streams -> Nat] /\ \A s \in Streams : out[s] = 0
    BY DEF Init
  <2> QED
    BY <2>1, EmptyTotal
<1>3. Sums /\ BudgetConserved
  BY <1>2, ConstAssumption DEF Init, Sums, BudgetConserved, ConstAssumption
<1>4. UnclaimedHasTaker
  BY ConstAssumption DEF Init, UnclaimedHasTaker, GaveUp, ConstAssumption
<1>5. \A s \in Streams : LoopInv(s)
  BY DEF Init, LoopInv
<1> QED
  BY <1>1, <1>3, <1>4, <1>5 DEF IInv

-----------------------------------------------------------------------------
(* Steps that leave the bytes where they are.                              *)

\* The sums only depend on the budget, the claims and the bytes sent out.
LEMMA BudgetFrame ==
    ASSUME IInv, UNCHANGED <<remaining, dropped, claim, out>>
    PROVE  Sums' /\ BudgetConserved'
BY DEF IInv, Sums, BudgetConserved, Total, Units

\* A taker stays a taker unless it gives up.
LEMMA TakerFrame ==
    ASSUME IInv, UNCHANGED remaining,
           \A s \in Streams : GaveUp(s)' => GaveUp(s)
    PROVE  UnclaimedHasTaker'
BY DEF IInv, UnclaimedHasTaker

\* The signals leave every loop alone.
LEMMA SignalStep ==
    ASSUME IInv, TogglePause \/ RequestCancel \/ DropSenders \/ DeadlinePasses
    PROVE  IInv'
<1>1. UNCHANGED <<test, remaining, dropped, loopVars>>
  BY DEF TogglePause, RequestCancel, DropSenders, DeadlinePasses, loopVars
<1>2. TypeOK'
  <2>1. TypeOK
    BY DEF IInv
  <2>2. /\ cancel' \in BOOLEAN /\ paused' \in BOOLEAN /\ open' \in BOOLEAN
        /\ expired' \in BOOLEAN
    BY <2>1, Zenon DEF TypeOK, TogglePause, RequestCancel, DropSenders,
       DeadlinePasses
  <2>3. pauseVer' \in Nat
    BY <2>1 DEF TypeOK, TogglePause, RequestCancel, DropSenders, DeadlinePasses
  <2> QED
    BY <1>1, <2>1, <2>2, <2>3 DEF TypeOK, loopVars
<1>3. Sums' /\ BudgetConserved'
  BY <1>1, BudgetFrame DEF loopVars
<1>4. UnclaimedHasTaker'
  BY <1>1, TakerFrame DEF loopVars, GaveUp, Granted, Want
<1>5. \A s \in Streams : LoopInv(s)'
  BY <1>1 DEF IInv, LoopInv, loopVars
<1> QED
  BY <1>2, <1>3, <1>4, <1>5 DEF IInv

\* Head, wait, interrupted and failed writes, counting, pacing and closing
\* neither move bytes nor end a loop as spent.
LEMMA QuietStep ==
    ASSUME IInv, NEW s \in Streams,
           \/ Head(s) \/ Wait(s) \/ WriteInterrupted(s) \/ WriteError(s)
           \/ Count(s) \/ Pace(s) \/ Close(s)
    PROVE  IInv'
<1> USE DEF IInv
<1>t. TypeOK
  OBVIOUS
<1>1. TypeOK'
  <2>1. CASE Head(s)
    BY <1>t, <2>1 DEF TypeOK, Head, Leave, readVars, Labels, Exits
  <2>2. CASE Wait(s)
    BY <1>t, <2>2 DEF TypeOK, Wait, Leave, readVars, Labels, Exits
  <2>3. CASE WriteInterrupted(s)
    BY <1>t, <2>3 DEF TypeOK, WriteInterrupted, readVars, Labels, Exits
  <2>4. CASE WriteError(s)
    BY <1>t, <2>4 DEF TypeOK, WriteError, readVars, Labels, Exits
  <2>5. CASE Count(s)
    <3>1. ASSUME test.proto = "tcp", off[s] + wrote[s] < Chunk
          PROVE  off[s] + wrote[s] \in 0..(Chunk - 1)
      BY <1>t, <3>1, ConstAssumption DEF TypeOK, ConstAssumption
    <3>2. 0 \in 0..(Chunk - 1)
      BY ConstAssumption DEF ConstAssumption
    <3> QED
      BY <1>t, <2>5, <3>1, <3>2 DEF TypeOK, Count, readVars, Labels, Exits
  <2>6. CASE Pace(s)
    BY <1>t, <2>6 DEF TypeOK, Pace, Leave, readVars, Labels, Exits
  <2>7. CASE Close(s)
    BY <1>t, <2>7 DEF TypeOK, Close, readVars, Labels, Exits
  <2> QED
    BY <2>1, <2>2, <2>3, <2>4, <2>5, <2>6, <2>7
<1>2. UNCHANGED <<remaining, dropped, claim, out>>
  BY DEF Head, Wait, WriteInterrupted, WriteError, Count, Pace, Close
<1>3. Sums' /\ BudgetConserved'
  BY <1>2, BudgetFrame
<1>4. UnclaimedHasTaker'
  <2>1. \A r \in Streams : GaveUp(r)' => GaveUp(r)
    BY <1>t DEF Head, Wait, WriteInterrupted, WriteError, Count, Pace, Close,
       Leave, GaveUp, Granted, Want, TypeOK, readVars
  <2> QED
    BY <1>2, <2>1, TakerFrame
<1>5. \A r \in Streams : LoopInv(r)'
  <2> SUFFICES ASSUME NEW r \in Streams PROVE LoopInv(r)'
    OBVIOUS
  <2>1. LoopInv(r) /\ LoopInv(s)
    OBVIOUS
  <2>2. CASE Head(s)
    BY <1>t, <2>1, <2>2 DEF TypeOK, Head, Leave, LoopInv
  <2>3. CASE Wait(s)
    BY <1>t, <2>1, <2>3 DEF TypeOK, Wait, Leave, LoopInv
  <2>4. CASE WriteInterrupted(s)
    BY <1>t, <2>1, <2>4 DEF TypeOK, WriteInterrupted, LoopInv
  <2>5. CASE WriteError(s)
    BY <1>t, <2>1, <2>5 DEF TypeOK, WriteError, LoopInv
  <2>6. CASE Count(s)
    BY <1>t, <2>1, <2>6 DEF TypeOK, Count, LoopInv
  <2>7. CASE Pace(s)
    BY <1>t, <2>1, <2>7 DEF TypeOK, Pace, Leave, LoopInv
  <2>8. CASE Close(s)
    BY <1>t, <2>1, <2>8 DEF TypeOK, Close, LoopInv
  <2> QED
    BY <2>2, <2>3, <2>4, <2>5, <2>6, <2>7, <2>8
<1> QED
  BY <1>1, <1>3, <1>4, <1>5

-----------------------------------------------------------------------------
(* The steps of a claim.                                                   *)

\* A loop always asks for at least one byte.
LEMMA WantPositive ==
    ASSUME TypeOK, NEW s \in Streams
    PROVE  Want(s) \in Nat /\ Want(s) > 0 /\ Granted(s) \in Nat
           /\ Granted(s) <= cur[s] /\ Granted(s) <= Want(s)
           /\ (Granted(s) = 0 <=> cur[s] = 0)
<1>1. Want(s) \in Nat /\ Want(s) > 0
  BY ConstAssumption DEF TypeOK, Want, ConstAssumption
<1> QED
  BY <1>1 DEF TypeOK, Granted

\* Reading the counter: a loop that reads a positive value is a taker.
LEMMA ReadStep ==
    ASSUME IInv, NEW s \in Streams, ClaimLoad(s) \/ ClaimRetry(s)
    PROVE  IInv'
<1> USE DEF IInv
<1>1. TypeOK'
  BY DEF TypeOK, ClaimLoad, ClaimRetry, readVars, Labels, Exits
<1>2. Sums' /\ BudgetConserved'
  BY BudgetFrame DEF ClaimLoad, ClaimRetry
<1>3. UnclaimedHasTaker'
  <2>1. SUFFICES ASSUME remaining' > 0 PROVE ~GaveUp(s)'
    BY DEF UnclaimedHasTaker
  <2>2. exit'[s] # "spent"
    BY DEF LoopInv, ClaimLoad, ClaimRetry
  <2>3. cur'[s] = remaining' /\ Want(s)' > 0 /\ Want(s)' \in Nat
    <3>1. Want(s)' = Want(s)
      BY DEF Want, ClaimLoad, ClaimRetry, readVars
    <3> QED
      BY <3>1, WantPositive DEF TypeOK, ClaimLoad, ClaimRetry
  <2>4. Granted(s)' # 0
    BY <1>1, <2>1, <2>3 DEF Granted, TypeOK
  <2> QED
    BY <2>2, <2>4 DEF GaveUp
<1>4. \A r \in Streams : LoopInv(r)'
  BY DEF LoopInv, ClaimLoad, ClaimRetry, TypeOK
<1> QED
  BY <1>1, <1>2, <1>3, <1>4

\* Leaving empty-handed: this loop had given up already.
LEMMA NothingStep ==
    ASSUME IInv, NEW s \in Streams, ClaimNothing(s)
    PROVE  IInv'
<1> USE DEF IInv
<1>1. TypeOK'
  BY DEF TypeOK, ClaimNothing, Leave, readVars, Labels, Exits
<1>2. Sums' /\ BudgetConserved'
  BY BudgetFrame DEF ClaimNothing
<1>3. UnclaimedHasTaker'
  <2>1. \A r \in Streams : GaveUp(r)' => GaveUp(r)
    BY DEF ClaimNothing, Leave, GaveUp, Granted, Want, TypeOK, readVars
  <2> QED
    BY <2>1, TakerFrame DEF ClaimNothing
<1>4. \A r \in Streams : LoopInv(r)'
  BY DEF LoopInv, ClaimNothing, Leave, TypeOK
<1> QED
  BY <1>1, <1>2, <1>3, <1>4

\* A successful exchange moves bytes from the counter to the claim.
LEMMA SwapStep ==
    ASSUME IInv, NEW s \in Streams, ClaimSwap(s)
    PROVE  IInv'
<1> USE DEF IInv
<1> DEFINE g == Granted(s)
<1>0. /\ g \in Nat /\ g > 0 /\ g <= remaining /\ cur[s] = remaining
      /\ remaining' = remaining - g /\ pc[s] = "cas"
      /\ claim[s] = 0 /\ exit[s] = "none" /\ wrote[s] = 0
  BY WantPositive DEF ClaimSwap, TypeOK, LoopInv, Exits
<1>1. CASE test.proto = "udp" /\ g < Header
  <2>1. g = remaining
    <3>1. Want(s) = Chunk /\ Header <= Chunk /\ Chunk \in Nat /\ Header \in Nat
      BY <1>1, ConstAssumption DEF Want, ConstAssumption
    <3> QED
      BY <1>0, <1>1, <3>1 DEF Granted, TypeOK
  <2>2. remaining' = 0 /\ dropped' = dropped + remaining
    BY <1>0, <1>1, <2>1 DEF ClaimSwap, TypeOK
  <2>3. UNCHANGED <<claim, out, wrote, sent, readVars, seen, off>>
        /\ pc' = [pc EXCEPT ![s] = "close"]
        /\ exit' = [exit EXCEPT ![s] = "spent"]
        /\ cur' = [cur EXCEPT ![s] = 0]
    BY <1>1 DEF ClaimSwap, Leave
  <2>4. TypeOK'
    BY <2>2, <2>3 DEF TypeOK, readVars, Labels, Exits
  <2>5. Sums' /\ BudgetConserved'
    <3>1. Total(claim)' = Total(claim) /\ Total(out)' = Total(out) /\ Sums'
      BY <2>3 DEF Total, Units, Sums
    <3>2. Total(claim) \in Nat /\ Total(out) \in Nat
      BY FS_CardinalityType DEF Total, Sums
    <3> QED
      BY <2>2, <3>1, <3>2 DEF BudgetConserved, TypeOK
  <2>6. UnclaimedHasTaker'
    BY <2>2 DEF UnclaimedHasTaker
  <2>7. \A r \in Streams : LoopInv(r)'
    BY <1>0, <2>3 DEF LoopInv, TypeOK
  <2> QED
    BY <2>4, <2>5, <2>6, <2>7
<1>2. CASE ~(test.proto = "udp" /\ g < Header)
  <2>1. /\ claim' = [claim EXCEPT ![s] = g]
        /\ pc' = [pc EXCEPT ![s] = "write"]
        /\ cur' = [cur EXCEPT ![s] = 0]
        /\ UNCHANGED <<dropped, exit, readVars, seen, off, wrote, out, sent>>
    BY <1>2 DEF ClaimSwap
  <2>2. TypeOK'
    BY <1>0, <2>1 DEF TypeOK, readVars, Labels, Exits
  <2>3. Sums' /\ BudgetConserved'
    <3> HIDE DEF g
    <3>1. /\ IsFiniteSet(Units(claim')) /\ Total(claim') = Total(claim) + g
          /\ Total(claim) \in Nat
      <4>1. /\ claim \in [Streams -> Nat] /\ g \in Nat /\ claim[s] = 0
            /\ IsFiniteSet(Units(claim)) /\ claim' = [claim EXCEPT ![s] = g]
        BY <1>0, <2>1 DEF TypeOK, Sums
      <4>2. /\ IsFiniteSet(Units([claim EXCEPT ![s] = g]))
            /\ Total([claim EXCEPT ![s] = g]) = Total(claim) - claim[s] + g
            /\ Total(claim) \in Nat
        BY <4>1, TotalUpdate
      <4> QED
        BY <4>1, <4>2
    <3>2. Total(out)' = Total(out) /\ IsFiniteSet(Units(out)')
      BY <2>1 DEF Total, Units, Sums
    <3>3. Total(out) \in Nat
      BY FS_CardinalityType DEF Total, Sums
    <3>4. Total(claim)' = Total(claim') /\ Units(claim)' = Units(claim')
      BY DEF Total, Units
    <3> QED
      BY <1>0, <2>1, <3>1, <3>2, <3>3, <3>4 DEF BudgetConserved, Sums, TypeOK
  <2>4. UnclaimedHasTaker'
    <3>1. ~GaveUp(s)'
      BY <1>0, <2>1 DEF GaveUp, TypeOK
    <3> QED
      BY <3>1 DEF UnclaimedHasTaker
  <2>5. \A r \in Streams : LoopInv(r)'
    BY <1>0, <2>1 DEF LoopInv, TypeOK
  <2> QED
    BY <2>2, <2>3, <2>4, <2>5
<1> QED
  BY <1>1, <1>2

-----------------------------------------------------------------------------
(* Bytes leave, or come back.                                              *)

\* A write moves n bytes from the claim to the network.
LEMMA WriteStep ==
    ASSUME IInv, NEW s \in Streams, Write(s)
    PROVE  IInv'
<1> USE DEF IInv
<1>1. PICK n \in 0..claim[s] : WriteOk(s, n)
  BY DEF Write
<1>2. /\ n \in Nat /\ n <= claim[s] /\ claim[s] \in Nat /\ out[s] \in Nat
      /\ pc[s] = "write" /\ exit[s] = "none" /\ wrote[s] = 0
      /\ claim[s] - n \in Nat /\ out[s] + n \in Nat
  BY <1>1 DEF WriteOk, TypeOK, LoopInv, Exits
<1>3. /\ out' = [out EXCEPT ![s] = out[s] + n]
      /\ claim' = [claim EXCEPT ![s] = claim[s] - n]
      /\ wrote' = [wrote EXCEPT ![s] = n]
      /\ pc' = [pc EXCEPT ![s] = "refund"]
      /\ UNCHANGED <<remaining, dropped, readVars, seen, cur, off, sent, exit>>
  BY <1>1 DEF WriteOk
<1>4. TypeOK'
  BY <1>2, <1>3 DEF TypeOK, readVars, Labels, Exits
<1>5. Sums' /\ BudgetConserved'
  <2>1. /\ claim \in [Streams -> Nat] /\ IsFiniteSet(Units(claim))
        /\ out \in [Streams -> Nat] /\ IsFiniteSet(Units(out))
    BY DEF TypeOK, Sums
  <2>2. /\ IsFiniteSet(Units([claim EXCEPT ![s] = claim[s] - n]))
        /\ Total([claim EXCEPT ![s] = claim[s] - n])
             = Total(claim) - claim[s] + (claim[s] - n)
        /\ Total(claim) \in Nat
    BY <1>2, <2>1, TotalUpdate
  <2>3. /\ IsFiniteSet(Units([out EXCEPT ![s] = out[s] + n]))
        /\ Total([out EXCEPT ![s] = out[s] + n]) = Total(out) - out[s] + (out[s] + n)
        /\ Total(out) \in Nat
    BY <1>2, <2>1, TotalUpdate
  <2>4. /\ Total(claim)' = Total(claim') /\ Units(claim)' = Units(claim')
        /\ Total(out)' = Total(out') /\ Units(out)' = Units(out')
    BY DEF Total, Units
  <2>5. Sums'
    BY <1>3, <2>2, <2>3, <2>4 DEF Sums
  <2>6. Total(claim)' = Total(claim) - n /\ Total(out)' = Total(out) + n
    BY <1>2, <1>3, <2>2, <2>3, <2>4
  <2> QED
    BY <1>2, <1>3, <2>2, <2>3, <2>5, <2>6 DEF BudgetConserved, TypeOK
<1>6. UnclaimedHasTaker'
  <2>1. ~GaveUp(s)'
    BY <1>2, <1>3 DEF GaveUp, TypeOK
  <2> QED
    BY <2>1 DEF UnclaimedHasTaker
<1>7. \A r \in Streams : LoopInv(r)'
  BY <1>2, <1>3 DEF LoopInv, TypeOK
<1> QED
  BY <1>4, <1>5, <1>6, <1>7

\* A refund moves the claim back to the counter; its loop is a taker.
LEMMA RefundStep ==
    ASSUME IInv, NEW s \in Streams, Refund(s)
    PROVE  IInv'
<1> USE DEF IInv
<1>1. /\ claim[s] \in Nat /\ pc[s] = "refund" /\ exit[s] # "spent"
      /\ remaining' = remaining + claim[s]
      /\ claim' = [claim EXCEPT ![s] = 0]
      /\ UNCHANGED <<dropped, readVars, seen, cur, off, wrote, out, sent, exit>>
  BY DEF Refund, TypeOK, LoopInv
<1>2. TypeOK'
  BY DEF Refund, TypeOK, readVars, Labels, Exits
<1>3. Sums' /\ BudgetConserved'
  <2>1. claim \in [Streams -> Nat] /\ IsFiniteSet(Units(claim))
    BY DEF TypeOK, Sums
  <2>2. /\ IsFiniteSet(Units([claim EXCEPT ![s] = 0]))
        /\ Total([claim EXCEPT ![s] = 0]) = Total(claim) - claim[s] + 0
        /\ Total(claim) \in Nat
    <3>1. 0 \in Nat
      OBVIOUS
    <3> QED
      BY <2>1, <3>1, TotalUpdate
  <2>3. /\ Total(claim)' = Total(claim') /\ Units(claim)' = Units(claim')
        /\ Total(out)' = Total(out) /\ Units(out)' = Units(out)
    BY <1>1 DEF Total, Units
  <2>4. Total(out) \in Nat
    BY FS_CardinalityType DEF Total, Sums
  <2>5. Sums'
    BY <1>1, <2>2, <2>3 DEF Sums
  <2> QED
    BY <1>1, <2>2, <2>3, <2>4, <2>5 DEF BudgetConserved, TypeOK
<1>4. UnclaimedHasTaker'
  <2>1. ~GaveUp(s)'
    BY <1>1 DEF Refund, GaveUp, TypeOK
  <2> QED
    BY <2>1 DEF UnclaimedHasTaker
<1>5. \A r \in Streams : LoopInv(r)'
  BY DEF Refund, LoopInv, TypeOK, Exits
<1> QED
  BY <1>2, <1>3, <1>4, <1>5

-----------------------------------------------------------------------------

LEMMA NextIInv == IInv /\ [Next]_vars => IInv'
<1> SUFFICES ASSUME IInv, [Next]_vars PROVE IInv'
  OBVIOUS
<1>1. CASE TogglePause \/ RequestCancel \/ DropSenders \/ DeadlinePasses
  BY <1>1, SignalStep
<1>2. ASSUME NEW s \in Streams, LoopStep(s) PROVE IInv'
  BY <1>2, QuietStep, ReadStep, NothingStep, SwapStep, WriteStep, RefundStep
     DEF LoopStep
<1>3. CASE UNCHANGED vars
  <2>1. Sums' /\ BudgetConserved'
    BY <1>3, BudgetFrame DEF vars, loopVars
  <2>2. TypeOK'
    BY <1>3 DEF IInv, TypeOK, vars, readVars, loopVars
  <2>3. UnclaimedHasTaker'
    BY <1>3, TakerFrame DEF vars, readVars, loopVars, GaveUp, Granted, Want
  <2>4. \A s \in Streams : LoopInv(s)'
    BY <1>3 DEF IInv, LoopInv, vars, loopVars
  <2> QED
    BY <2>1, <2>2, <2>3, <2>4 DEF IInv
<1> QED
  BY <1>1, <1>2, <1>3 DEF Next, Finished

\* When every loop has left because the budget was spent there is no claim
\* and no unclaimed byte left, so the conserved total is all on the network.
LEMMA IInvDelivered == IInv => SpentMeansDelivered
<1> SUFFICES ASSUME IInv, AllDone, \A s \in Streams : exit[s] = "spent"
             PROVE  Total(out) = Budget - dropped /\ sent = out
  BY DEF SpentMeansDelivered
<1> USE DEF IInv
<1>1. remaining = 0
  BY DEF UnclaimedHasTaker, GaveUp, TypeOK
<1>2. Total(claim) = 0
  <2>1. claim \in [Streams -> Nat] /\ \A s \in Streams : claim[s] = 0
    BY DEF TypeOK, LoopInv, AllDone
  <2> QED
    BY <2>1, EmptyTotal
<1>3. Total(out) \in Nat
  BY FS_CardinalityType DEF Sums, Total
<1>4. Total(out) = Budget - dropped
  BY <1>1, <1>2, <1>3 DEF BudgetConserved, TypeOK
<1>5. sent = out
  <2>1. \A s \in Streams : sent[s] = out[s]
    BY DEF LoopInv, AllDone, TypeOK
  <2> QED
    BY <2>1 DEF TypeOK
<1> QED
  BY <1>4, <1>5

\* IInv holds throughout every behaviour.
THEOREM Invariance == Spec => []IInv
BY InitIInv, NextIInv, PTL DEF Spec

\* Every variable keeps its type.
THEOREM TypeCorrect == Spec => []TypeOK
<1>1. IInv => TypeOK
  BY DEF IInv
<1> QED
  BY <1>1, Invariance, PTL

\* For any number of streams, budget and chunk size, no interleaving of
\* claims, short writes and refunds creates or loses a byte of the budget.
THEOREM Conservation == Spec => []BudgetConserved
<1>1. IInv => BudgetConserved
  BY DEF IInv
<1> QED
  BY <1>1, Invariance, PTL

\* A `-n` test whose loops all end as spent has sent and counted all of it.
THEOREM ExactDelivery == Spec => []SpentMeansDelivered
BY IInvDelivered, Invariance, PTL

\* Unclaimed bytes always have a stream that will come back for them.
THEOREM TakerRemains == Spec => []UnclaimedHasTaker
<1>1. IInv => UnclaimedHasTaker
  BY DEF IInv
<1> QED
  BY <1>1, Invariance, PTL

\* No stream's byte count runs ahead of its writes.
THEOREM CountSound == Spec => []CountNeverAhead
<1>1. IInv => CountNeverAhead
  BY DEF IInv, LoopInv, CountNeverAhead
<1> QED
  BY <1>1, Invariance, PTL

-----------------------------------------------------------------------------
(* The loops implement the abstract transfer.                               *)
(*                                                                         *)
(* What a UDP test may leave behind is the tail of its budget, and only if *)
(* it is shorter than a header.  So the tail must be in one place at any   *)
(* time: the counter, one claim, the network, or what was dropped.         *)

Leftover == Budget % Chunk

\* A tail too short for a datagram is in the counter or was dropped.
ShortTail ==
    /\ (remaining % Chunk) + dropped = Leftover
    /\ \A s \in Streams : claim[s] \in {0, Chunk}

\* A longer one is in the counter, in one claim, or was sent.
LongTail ==
    /\ dropped = 0
    /\ remaining % Chunk \in {0, Leftover}
    /\ \A s \in Streams : claim[s] \in {0, Chunk, Leftover}
    /\ remaining % Chunk = Leftover => \A s \in Streams : claim[s] \in {0, Chunk}
    /\ \A r, s \in Streams : claim[r] = Leftover /\ claim[s] = Leftover => r = s

TailInv ==
    IF test.proto # "udp" THEN dropped = 0
    ELSE IF Leftover < Header THEN ShortTail ELSE LongTail

\* One chunk more leaves the same remainder.
LEMMA AddChunk ==
    ASSUME NEW c \in Nat \ {0}, NEW r \in Nat
    PROVE  (r + c) % c = r % c
<1> DEFINE q == r \div c
           m == r % c
           p == (r + c) \div c
           k == (r + c) % c
<1>1. /\ q \in Nat /\ m \in 0 .. c - 1 /\ r = c * q + m
      /\ p \in Nat /\ k \in 0 .. c - 1 /\ r + c = c * p + k
  OBVIOUS
<1> HIDE DEF q, m, p, k
<1>2. c * (q + 1) = c * q + c /\ c * q \in Nat /\ c * p \in Nat
  BY <1>1
<1>3. ~(p < q + 1)
  <2>1. p < q + 1 => c * p <= c * q
    BY <1>1
  <2> QED
    BY <1>1, <1>2, <2>1
<1>4. ~(q + 1 < p)
  <2>1. q + 2 <= p => c * (q + 2) <= c * p
    BY <1>1
  <2>2. c * (q + 2) = c * q + c + c
    BY <1>1
  <2> QED
    BY <1>1, <1>2, <2>1, <2>2
<1>5. p = q + 1
  BY <1>1, <1>3, <1>4
<1>6. k = m
  BY <1>1, <1>2, <1>5
<1> QED
  BY <1>6 DEF k, m

LEMMA AddLess ==
    ASSUME NEW c \in Nat \ {0}, NEW r \in Nat, NEW t \in Nat, t < c, r % c = 0
    PROVE  (r + t) % c = t
  OBVIOUS

\* The remainders of the counter's values.
LEMMA Remainders ==
    ASSUME NEW r \in Nat
    PROVE  /\ Chunk \in Nat \ {0} /\ Header \in Nat \ {0} /\ Header <= Chunk
           /\ Leftover \in Nat /\ Leftover < Chunk /\ Leftover <= Budget
           /\ r % Chunk \in Nat /\ r % Chunk <= r
           /\ (r + Chunk) % Chunk = r % Chunk
           /\ r >= Chunk => (r - Chunk) % Chunk = r % Chunk
           /\ r < Chunk => r % Chunk = r
           /\ r % Chunk = 0 => (r + Leftover) % Chunk = Leftover
<1>1. Chunk \in Nat \ {0} /\ Header \in Nat \ {0} /\ Header <= Chunk /\ Budget \in Nat
  BY ConstAssumption DEF ConstAssumption
<1>2. Leftover \in Nat /\ Leftover < Chunk /\ Leftover <= Budget
  BY <1>1 DEF Leftover
<1>3. \A n \in Nat : (n + Chunk) % Chunk = n % Chunk
  BY <1>1, AddChunk
<1>4. r >= Chunk => (r - Chunk) % Chunk = r % Chunk
  <2> SUFFICES ASSUME r >= Chunk PROVE (r - Chunk) % Chunk = r % Chunk
    OBVIOUS
  <2>1. r - Chunk \in Nat /\ (r - Chunk) + Chunk = r
    BY <1>1
  <2> QED
    BY <1>3, <2>1
<1>5. r % Chunk \in Nat /\ r % Chunk <= r /\ (r < Chunk => r % Chunk = r)
  BY <1>1
<1>6. r % Chunk = 0 => (r + Leftover) % Chunk = Leftover
  BY <1>1, <1>2, AddLess
<1> QED
  BY <1>1, <1>2, <1>3, <1>4, <1>5, <1>6

LEMMA InitTail == Init => TailInv
<1> SUFFICES ASSUME Init PROVE TailInv
  OBVIOUS
<1>1. remaining = Budget /\ dropped = 0 /\ \A s \in Streams : claim[s] = 0
  BY DEF Init
<1>2. remaining % Chunk = Leftover /\ Leftover \in Nat /\ Header \in Nat \ {0}
  BY <1>1, Remainders, ConstAssumption DEF Leftover, ConstAssumption
<1> QED
  BY <1>1, <1>2 DEF TailInv, ShortTail, LongTail

LEMMA TailFrame ==
    ASSUME TailInv, UNCHANGED <<test, remaining, dropped, claim>>
    PROVE  TailInv'
  BY DEF TailInv, ShortTail, LongTail

\* A claim takes a chunk, or the tail, which was in the counter then.
LEMMA TailSwap ==
    ASSUME IInv, TailInv, NEW s \in Streams, ClaimSwap(s)
    PROVE  TailInv'
<1> DEFINE g == Granted(s)
<1>1. CASE test.proto # "udp"
  BY <1>1 DEF TailInv, ClaimSwap, readVars
<1>2. CASE test.proto = "udp"
  <2>1. /\ remaining \in Nat /\ dropped \in Nat /\ claim \in [Streams -> Nat] /\ claim[s] = 0
        /\ cur[s] = remaining /\ test' = test /\ remaining' = remaining - g
    BY DEF IInv, TypeOK, LoopInv, ClaimSwap, readVars
  <2>2. /\ Chunk \in Nat \ {0} /\ Header \in Nat \ {0} /\ Header <= Chunk
        /\ Leftover \in Nat /\ Leftover < Chunk
        /\ remaining % Chunk \in Nat /\ remaining % Chunk <= remaining
        /\ remaining >= Chunk => (remaining - Chunk) % Chunk = remaining % Chunk
        /\ remaining < Chunk => remaining % Chunk = remaining
        /\ 0 % Chunk = 0
    BY <2>1, Remainders
  <2>3. g = (IF remaining < Chunk THEN remaining ELSE Chunk) /\ g > 0
    BY <1>2, <2>1 DEF Granted, Want, ClaimSwap
  <2> HIDE DEF g
  <2> DEFINE R == remaining % Chunk
             Q == remaining' % Chunk
  <2>4. CASE remaining < Chunk
    <3>1. g = remaining /\ remaining' = 0 /\ R = remaining /\ Q = 0
      BY <2>1, <2>2, <2>3, <2>4
    <3> HIDE DEF R, Q
    <3>2. CASE g < Header
      <4>1. dropped' = dropped + g /\ claim' = claim
        BY <1>2, <3>2 DEF ClaimSwap, g
      <4>2. CASE Leftover < Header
        BY <1>2, <2>1, <2>2, <3>1, <4>1, <4>2 DEF TailInv, ShortTail, R, Q
      <4>3. CASE ~(Leftover < Header)
        <5>1. R \in {0, Leftover}
          BY <1>2, <4>3 DEF TailInv, LongTail, R
        <5> QED
          BY <2>1, <2>2, <2>3, <3>1, <3>2, <4>3, <5>1
      <4> QED
        BY <4>2, <4>3
    <3>3. CASE ~(g < Header)
      <4>1. dropped' = dropped /\ claim' = [claim EXCEPT ![s] = g]
        BY <1>2, <3>3 DEF ClaimSwap, g
      <4>2. CASE Leftover < Header
        <5>1. R + dropped = Leftover
          BY <1>2, <4>2 DEF TailInv, ShortTail, R
        <5> QED
          BY <2>1, <2>2, <3>1, <3>3, <4>2, <5>1
      <4>3. CASE ~(Leftover < Header)
        <5>1. /\ dropped = 0 /\ R \in {0, Leftover} /\ \A r \in Streams : claim[r] \in {0, Chunk, Leftover}
              /\ R = Leftover => \A r \in Streams : claim[r] \in {0, Chunk}
          BY <1>2, <4>3 DEF TailInv, LongTail, R
        <5>2. g = Leftover /\ Leftover # 0 /\ \A r \in Streams : claim[r] \in {0, Chunk}
          BY <2>1, <2>2, <2>3, <3>1, <5>1
        <5>3. \A r \in Streams : claim'[r] = IF r = s THEN Leftover ELSE claim[r]
          BY <2>1, <4>1, <5>2
        <5>4. LongTail'
          BY <2>2, <3>1, <4>1, <5>1, <5>2, <5>3 DEF LongTail, Q
        <5> QED
          BY <1>2, <2>1, <4>3, <5>4 DEF TailInv
      <4> QED
        BY <4>2, <4>3
    <3> QED
      BY <3>2, <3>3
  <2>5. CASE ~(remaining < Chunk)
    <3>1. g = Chunk /\ remaining' = remaining - Chunk /\ Q = R
      BY <2>1, <2>2, <2>3, <2>5
    <3> HIDE DEF R, Q
    <3>2. dropped' = dropped /\ claim' = [claim EXCEPT ![s] = Chunk]
      BY <1>2, <2>2, <3>1 DEF ClaimSwap, g
    <3>3. \A r \in Streams : claim'[r] = IF r = s THEN Chunk ELSE claim[r]
      BY <2>1, <3>2
    <3>4. Leftover < Header => (ShortTail => ShortTail')
      BY <3>1, <3>2, <3>3 DEF ShortTail, Q, R
    <3>5. LongTail => LongTail'
      BY <2>2, <3>1, <3>2, <3>3 DEF LongTail, Q, R
    <3> QED
      BY <1>2, <2>1, <3>4, <3>5 DEF TailInv
  <2> QED
    BY <2>4, <2>5
<1> QED
  BY <1>1, <1>2

\* A datagram goes out whole.
LEMMA TailWrite ==
    ASSUME IInv, TailInv, NEW s \in Streams, Write(s)
    PROVE  TailInv'
<1>1. PICK n \in 0 .. claim[s] : WriteOk(s, n)
  BY DEF Write
<1>2. UNCHANGED <<test, remaining, dropped>> /\ claim \in [Streams -> Nat]
  BY <1>1 DEF WriteOk, readVars, IInv, TypeOK
<1>3. CASE test.proto # "udp"
  BY <1>2, <1>3 DEF TailInv
<1>4. CASE test.proto = "udp"
  <2>1. n = claim[s] /\ claim' = [claim EXCEPT ![s] = claim[s] - n]
    BY <1>1, <1>4 DEF WriteOk, Accepts
  <2>2. \A r \in Streams : claim'[r] = IF r = s THEN 0 ELSE claim[r]
    BY <1>2, <2>1
  <2>3. Leftover \in Nat /\ Header \in Nat \ {0}
    BY Remainders DEF IInv, TypeOK
  <2>4. ShortTail => ShortTail'
    BY <1>2, <2>2 DEF ShortTail
  <2>5. ~(Leftover < Header) /\ LongTail => LongTail'
    BY <1>2, <2>2, <2>3 DEF LongTail
  <2> QED
    BY <1>2, <1>4, <2>4, <2>5 DEF TailInv
<1> QED
  BY <1>3, <1>4

\* What comes back is a chunk, or the tail nobody else has.
LEMMA TailRefund ==
    ASSUME IInv, TailInv, NEW s \in Streams, Refund(s)
    PROVE  TailInv'
<1>1. /\ UNCHANGED <<test, dropped>> /\ claim \in [Streams -> Nat] /\ remaining \in Nat
      /\ remaining' = remaining + claim[s] /\ claim' = [claim EXCEPT ![s] = 0]
  BY DEF Refund, readVars, IInv, TypeOK
<1>2. CASE test.proto # "udp"
  BY <1>1, <1>2 DEF TailInv
<1>3. CASE test.proto = "udp"
  <2> DEFINE R == remaining % Chunk
             Q == remaining' % Chunk
  <2>1. \A r \in Streams : claim'[r] = IF r = s THEN 0 ELSE claim[r]
    BY <1>1
  <2>2. /\ Leftover \in Nat /\ Header \in Nat \ {0}
        /\ claim[s] = 0 => Q = R
        /\ claim[s] = Chunk => Q = R
        /\ claim[s] = Leftover /\ R = 0 => Q = Leftover
    <3>1. /\ (remaining + Chunk) % Chunk = R /\ (R = 0 => (remaining + Leftover) % Chunk = Leftover)
          /\ Leftover \in Nat /\ Header \in Nat \ {0}
      BY <1>1, Remainders
    <3>2. claim[s] = 0 => remaining' = remaining
      BY <1>1
    <3> QED
      BY <1>1, <3>1, <3>2
  <2> HIDE DEF R, Q
  <2>3. ShortTail => ShortTail'
    <3> SUFFICES ASSUME ShortTail PROVE ShortTail'
      OBVIOUS
    <3>1. Q = R
      BY <2>2 DEF ShortTail
    <3> QED
      BY <1>1, <2>1, <3>1 DEF ShortTail, Q, R
  <2>4. ~(Leftover < Header) /\ LongTail => LongTail'
    <3> SUFFICES ASSUME ~(Leftover < Header), LongTail PROVE LongTail'
      OBVIOUS
    <3>1. CASE claim[s] \in {0, Chunk}
      <4>1. Q = R
        BY <2>2, <3>1
      <4> QED
        BY <1>1, <2>1, <2>2, <4>1 DEF LongTail, Q, R
    <3>2. CASE claim[s] \notin {0, Chunk}
      <4>1. claim[s] = Leftover /\ R = 0
        BY <2>2, <3>2 DEF LongTail, R
      <4>2. Q = Leftover
        BY <2>2, <4>1
      <4>3. \A r \in Streams : claim'[r] \in {0, Chunk}
        BY <2>1, <4>1 DEF LongTail
      <4> QED
        BY <1>1, <2>1, <2>2, <4>2, <4>3 DEF LongTail, Q
    <3> QED
      BY <3>1, <3>2
  <2> QED
    BY <1>1, <1>3, <2>3, <2>4 DEF TailInv
<1> QED
  BY <1>2, <1>3

LEMMA NextTail == IInv /\ TailInv /\ [Next]_vars => TailInv'
<1> SUFFICES ASSUME IInv, TailInv, [Next]_vars PROVE TailInv'
  OBVIOUS
<1>1. CASE TogglePause \/ RequestCancel \/ DropSenders \/ DeadlinePasses
  BY <1>1, TailFrame DEF TogglePause, RequestCancel, DropSenders, DeadlinePasses, loopVars
<1>2. ASSUME NEW s \in Streams, LoopStep(s) PROVE TailInv'
  <2>1. CASE \/ Head(s) \/ Wait(s) \/ ClaimLoad(s) \/ ClaimNothing(s) \/ ClaimRetry(s)
             \/ WriteInterrupted(s) \/ WriteError(s) \/ Count(s) \/ Pace(s) \/ Close(s)
    BY <2>1, TailFrame DEF Head, Wait, ClaimLoad, ClaimNothing, ClaimRetry, WriteInterrupted,
       WriteError, Count, Pace, Close, readVars
  <2> QED
    BY <1>2, <2>1, TailSwap, TailWrite, TailRefund DEF LoopStep
<1>3. CASE UNCHANGED vars
  BY <1>3, TailFrame DEF vars, readVars, loopVars
<1> QED
  BY <1>1, <1>2, <1>3 DEF Next, Finished

\* The refinement mapping.
Goal == IF test.proto = "udp" THEN Budget - UdpTail ELSE Budget
Status == IF ~AllDone THEN "running"
          ELSE IF \A s \in Streams : exit[s] = "spent" THEN "complete"
          ELSE "aborted"

\* What the invariants say of the goal: never exceeded, and reached when every loop ends as spent.
GoalInv ==
    /\ Goal \in Nat /\ Total(out) \in Nat /\ Total(out) <= Goal
    /\ AllDone /\ (\A s \in Streams : exit[s] = "spent") => Total(out) = Goal

LEMMA GoalBounds == IInv /\ TailInv => GoalInv
<1> SUFFICES ASSUME IInv, TailInv
             PROVE  /\ Goal \in Nat /\ Total(out) \in Nat /\ Total(out) <= Goal
                    /\ AllDone /\ (\A s \in Streams : exit[s] = "spent") => Total(out) = Goal
  BY DEF GoalInv
<1>1. /\ Total(claim) \in Nat /\ Total(out) \in Nat
  BY FS_CardinalityType DEF IInv, Sums, Total
<1>2. /\ remaining \in Nat /\ dropped \in Nat /\ Budget \in Nat
      /\ remaining + Total(claim) + Total(out) + dropped = Budget
  BY ConstAssumption DEF IInv, TypeOK, BudgetConserved, ConstAssumption
<1>3. AllDone /\ (\A s \in Streams : exit[s] = "spent") => Total(out) = Budget - dropped /\ remaining = 0
  BY IInvDelivered DEF SpentMeansDelivered, IInv, UnclaimedHasTaker, GaveUp, TypeOK
<1>4. /\ Leftover \in Nat /\ Leftover <= Budget /\ Header \in Nat
      /\ remaining % Chunk \in Nat /\ remaining % Chunk <= remaining
  BY <1>2, Remainders
<1>5. UdpTail = IF Leftover < Header THEN Leftover ELSE 0
  BY DEF UdpTail, Leftover
<1> DEFINE R == remaining % Chunk
           o == Total(out)
           k == Total(claim)
<1> HIDE DEF R, o, k
<1>6. CASE test.proto # "udp"
  <2>1. dropped = 0 /\ Goal = Budget
    BY <1>6 DEF TailInv, Goal
  <2> QED
    BY <1>1, <1>2, <1>3, <2>1
<1>7. CASE test.proto = "udp" /\ Leftover < Header
  <2>1. R + dropped = Leftover /\ Goal = Budget - Leftover
    BY <1>5, <1>7 DEF TailInv, ShortTail, Goal, R
  <2>2. R \in Nat /\ R <= remaining
    BY <1>4 DEF R
  <2> QED
    BY <1>1, <1>2, <1>3, <1>4, <2>1, <2>2
<1>8. CASE test.proto = "udp" /\ ~(Leftover < Header)
  <2>1. dropped = 0 /\ Goal = Budget
    BY <1>2, <1>5, <1>8 DEF TailInv, LongTail, Goal
  <2> QED
    BY <1>1, <1>2, <1>3, <2>1
<1> QED
  BY <1>6, <1>7, <1>8

\* Only a write changes what was sent, and it never takes any back.
LEMMA SentGrows ==
    ASSUME IInv, NEW s \in Streams, Write(s)
    PROVE  Total(out)' \in Nat /\ Total(out) \in Nat /\ Total(out) <= Total(out)'
<1>1. PICK n \in 0 .. claim[s] : WriteOk(s, n)
  BY DEF Write
<1>2. /\ out \in [Streams -> Nat] /\ IsFiniteSet(Units(out)) /\ n \in Nat /\ out[s] + n \in Nat
      /\ out[s] \in Nat /\ out' = [out EXCEPT ![s] = out[s] + n]
  BY <1>1 DEF IInv, TypeOK, Sums, WriteOk
<1>3. /\ Total([out EXCEPT ![s] = out[s] + n]) = Total(out) - out[s] + (out[s] + n)
      /\ Total(out) \in Nat
  BY <1>2, TotalUpdate
<1>4. Total(out)' = Total(out')
  BY DEF Total, Units
<1> QED
  BY <1>2, <1>3, <1>4

\* Every step of the loops is one of the transfer, or none.
LEMMA TransferStep ==
    ASSUME IInv, GoalInv', [Next]_vars
    PROVE  /\ Goal' = Goal
           /\ \/ Status = "running" /\ Status' = "running" /\ Total(out)' \in Nat
                 /\ Total(out) < Total(out)' /\ Total(out)' <= Goal
              \/ Status = "running" /\ Total(out)' = Total(out)
                 /\ \/ Status' = "complete" /\ Total(out) = Goal
                    \/ Status' = "aborted"
              \/ Status' = Status /\ Total(out)' = Total(out)
<1>1. test' = test /\ Goal' = Goal
  <2>1. test' = test
    BY DEF Next, LoopStep, Finished, TogglePause, RequestCancel, DropSenders, DeadlinePasses, Head, Wait,
       ClaimLoad, ClaimNothing, ClaimSwap, ClaimRetry, Write, WriteOk, WriteInterrupted, WriteError, Refund,
       Count, Pace, Close, readVars, vars
  <2> QED
    BY <2>1 DEF Goal, UdpTail
<1>2. ASSUME UNCHANGED <<pc, exit, out>> PROVE Status' = Status /\ Total(out)' = Total(out)
  BY <1>2 DEF Status, AllDone, Total, Units
<1>3. CASE TogglePause \/ RequestCancel \/ DropSenders \/ DeadlinePasses
  BY <1>1, <1>2, <1>3 DEF TogglePause, RequestCancel, DropSenders, DeadlinePasses, loopVars
<1>4. CASE UNCHANGED vars
  BY <1>1, <1>2, <1>4 DEF vars, loopVars
<1>5. ASSUME NEW s \in Streams, LoopStep(s)
      PROVE  \/ Status = "running" /\ Status' = "running" /\ Total(out)' \in Nat
                /\ Total(out) < Total(out)' /\ Total(out)' <= Goal
             \/ Status = "running" /\ Total(out)' = Total(out)
                /\ \/ Status' = "complete" /\ Total(out) = Goal
                   \/ Status' = "aborted"
             \/ Status' = Status /\ Total(out)' = Total(out)
  <2>0. pc \in [Streams -> Labels]
    BY DEF IInv, TypeOK
  <2>1. pc[s] # "done" /\ Status = "running"
    BY <1>5 DEF LoopStep, Head, Wait, ClaimLoad, ClaimNothing, ClaimSwap, ClaimRetry, Write, WriteOk,
       WriteInterrupted, WriteError, Refund, Count, Pace, Close, Status, AllDone
  <2>2. CASE Write(s)
    <3>1. pc'[s] # "done"
      BY <2>0, <2>2 DEF Write, WriteOk
    <3>2. Status' = "running"
      BY <3>1 DEF Status, AllDone
    <3>3. Total(out)' \in Nat /\ Total(out) \in Nat /\ Total(out) <= Total(out)'
      BY <2>2, SentGrows
    <3>4. Total(out)' <= Goal'
      BY DEF GoalInv
    <3> DEFINE a == Total(out)
               b == Total(out)'
    <3> HIDE DEF a, b
    <3>5. a = b \/ a < b
      BY <3>3 DEF a, b
    <3> QED
      BY <1>1, <2>1, <3>2, <3>3, <3>4, <3>5 DEF a, b
  <2>3. CASE ~Write(s)
    <3>1. out' = out
      BY <1>5, <2>3 DEF LoopStep, Head, Wait, ClaimLoad, ClaimNothing, ClaimSwap, ClaimRetry,
         WriteInterrupted, WriteError, Refund, Count, Pace, Close
    <3>2. Total(out)' = Total(out)
      BY <3>1 DEF Total, Units
    <3>3. Status' \in {"running", "complete", "aborted"}
      BY DEF Status
    <3>4. Status' = "complete" => Total(out)' = Goal'
      BY DEF GoalInv, Status
    <3> QED
      BY <1>1, <2>1, <3>2, <3>3, <3>4
  <2> QED
    BY <2>2, <2>3
<1> QED
  BY <1>1, <1>3, <1>4, <1>5 DEF Next, Finished

\* For any number of streams, budget, chunk and header, over each transport, the loops together are
\* one transfer of exactly the promised bytes: what goes out never exceeds the goal, and a
\* test whose loops all end as spent has reached it, the UDP tail apart.
THEOREM RefinesTransfer == Spec => ImplementsTransfer
<1>1. Init => Promise!Init
  <2> SUFFICES ASSUME Init PROVE Promise!Init
    OBVIOUS
  <2>1. IInv /\ TailInv
    BY InitIInv, InitTail
  <2>2. Goal \in Nat
    BY <2>1, GoalBounds DEF GoalInv
  <2>3. Total(out) = 0
    <3>1. out \in [Streams -> Nat] /\ \A s \in Streams : out[s] = 0
      BY DEF Init
    <3> QED
      BY <3>1, EmptyTotal
  <2>4. Status = "running"
    BY ConstAssumption DEF Init, Status, AllDone, ConstAssumption
  <2> QED
    BY <2>2, <2>3, <2>4 DEF Promise!Init, Goal, Status
<1>2. IInv /\ GoalInv' /\ [Next]_vars
      => [Promise!Next]_<<Goal, Total(out), Status>>
  BY TransferStep DEF Promise!Next, Promise!Send, Promise!Complete, Promise!Abort, Goal, Status
<1>3. Spec => [](IInv /\ TailInv)
  BY InitIInv, InitTail, NextIInv, NextTail, PTL DEF Spec
<1>4. Spec => [](IInv /\ GoalInv)
  BY <1>3, GoalBounds, PTL
<1> QED
  BY <1>1, <1>2, <1>4, PTL DEF Spec, ImplementsTransfer, Promise!Spec, Goal, Status
=============================================================================
