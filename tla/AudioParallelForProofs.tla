------------------------ MODULE AudioParallelForProofs ------------------------
(***************************************************************************)
(* For any finite set of workers and any item count: every item of a call  *)
(* runs exactly once and before the call returns, no thread touches the    *)
(* function of a call while the caller writes it, and no worker sleeps     *)
(* through a wake-up.                                                      *)
(***************************************************************************)
EXTENDS AudioParallelFor, FiniteSetTheorems, TLAPS

\* Where the caller stands while the published claim word is the one of its
\* own call and items may still be claimed or run.
Active == {"raise", "notifyWork", "claim", "run", "count", "signal", "awaitDone"}

\* Where the caller stands before it has published, after all items are done,
\* and outside parallelFor.
Setup   == {"setFunc", "resetDone", "publish"}
Tail    == {"lower", "notifyIdle", "clearFunc"}
Outside == {"idle", "spawn", "stopRaise", "stopNotify", "join"}

\* A thread holds the item it has claimed and not yet counted.
Holding(t) == pc[t] \in {"run", "count"}

\* The items whose fetch_add on doneCount has happened.
Finished ==
    {i \in 0..(call - 1) :
        /\ ran[i] = 1
        /\ \A t \in Threads : pc[t] = "count" => mine[t].idx # i}

\* Once the caller is past its wait, and until it publishes again, no straggler
\* holds an item and the claim word is exhausted.
Quiescent ==
    pc[Caller] \notin Active =>
        /\ \A t \in Threads : ~Holding(t)
        /\ claim.next >= claim.total

\* During a dispatch: who holds what, what has run, what doneCount counts.
ItemsAccounted ==
    pc[Caller] \in Active =>
        /\ call >= 1 /\ claim.total = call /\ funcSet
        /\ \A t \in Threads : Holding(t) =>
              /\ mine[t].idx < call /\ mine[t].idx < claim.next
              /\ ran[mine[t].idx] = IF pc[t] = "run" THEN 0 ELSE 1
        /\ \A t, u \in Threads :
              Holding(t) /\ Holding(u) /\ mine[t].idx = mine[u].idx => t = u
        /\ \A i \in Items : i >= claim.next => ran[i] = 0
        /\ \A i \in Items : i < call /\ i < claim.next =>
              \/ ran[i] = 1
              \/ ran[i] = 0 /\ \E t \in Threads : pc[t] = "run" /\ mine[t].idx = i
        /\ doneCount = Cardinality(Finished)

\* What the caller knows at each other point of a call.
CallerKnows ==
    /\ pc[Caller] \in Outside => call = 0 /\ ran = NoneRan
    /\ pc[Caller] # "seq" => seqIdx = 0
    /\ pc[Caller] \in Setup => call >= 1 /\ ran = NoneRan
    /\ pc[Caller] \in {"resetDone", "publish"} => funcSet
    /\ pc[Caller] = "publish" => doneCount = 0
    /\ pc[Caller] \in Tail => call >= 1 /\ \A i \in Items : i < call => ran[i] = 1
    /\ pc[Caller] = "seq" =>
         call >= 1 /\ seqIdx <= call
         /\ \A i \in Items : ran[i] = IF i < seqIdx THEN 1 ELSE 0

IInv == TypeOK /\ Quiescent /\ ItemsAccounted /\ CallerKnows

\* Who is asleep and where the flags stand, for the wake-ups.
Flags ==
    /\ \A w \in Workers : w \in asleep => pc[w] \in {"awaitWork", "awaitIdle"}
    /\ \A w \in Workers : w \notin alive => pc[w] = "ended"
    /\ alive # {} /\ pc[Caller] \notin {"stopRaise", "stopNotify", "join"} => running
    /\ pc[Caller] \in Setup \cup Active \cup Tail => alive # {}
    /\ pc[Caller] = "spawn" => alive = {}
    /\ pc[Caller] \in {"stopNotify", "join"} => dispatch
    /\ pc[Caller] \in Active \ {"raise"} => dispatch
    /\ pc[Caller] \in {"stopRaise", "stopNotify", "join"} => ~running

WInv == TypeOK /\ Flags /\ NoLostWakeup

\* The steps only the caller takes inside its calls.
CallerOwn ==
    \/ StopRaise \/ StopNotify \/ Join \/ Spawn
    \/ SeqItem \/ SeqReturn
    \/ SetFunc \/ ResetDone \/ PublishClaim \/ RaiseDispatch \/ NotifyWork
    \/ AwaitDone \/ LowerDispatch \/ NotifyIdle \/ ClearFunc

\* The steps only a worker takes.
WorkerOwn(w) == TestRunning(w) \/ AwaitWork(w) \/ RecheckRunning(w) \/ AwaitIdle(w)

\* Every step of the pool is one of these.
LEMMA NextCases ==
  Next <=> \/ \E S \in SUBSET Workers : Reprepare(S)
           \/ \E n \in 1..MaxItems : ParallelFor(n)
           \/ CallerOwn
           \/ \E w \in Workers : WorkerOwn(w)
           \/ \E t \in Threads : Claim(t)
           \/ \E t \in Threads : RunItem(t)
           \/ \E t \in Threads : CountItem(t)
           \/ \E t \in Threads : SignalDone(t)
           \/ \E t \in Threads : SpuriousWake(t)
  BY DEF Next, CallerStep, WorkerStep, ExecuteItems, CallerOwn, WorkerOwn, Threads

-------------------------------------------------------------------------------
(* Type correctness *)

LEMMA RanType ==
  ASSUME NEW f \in [Items -> Nat], NEW i
  PROVE  [f EXCEPT ![i] = @ + 1] \in [Items -> Nat]
  <1> DEFINE g == [f EXCEPT ![i] = @ + 1]
  <1>1. ASSUME NEW j \in Items PROVE g[j] \in Nat
    <2>1. f[j] \in Nat /\ f[j] + 1 \in Nat
      OBVIOUS
    <2>2. g[j] = f[j] + 1 \/ g[j] = f[j]
      OBVIOUS
    <2>3. QED
      BY <2>1, <2>2
  <1>2. g = [j \in Items |-> g[j]]
    OBVIOUS
  <1> HIDE DEF g
  <1>3. g \in [Items -> Nat]
    BY <1>1, <1>2
  <1>4. QED
    BY <1>3 DEF g

\* A thread moves to a point of its own program.
LEMMA GoType ==
  ASSUME TypeOK, NEW t \in Threads, NEW from, NEW to, Go(t, from, to),
         to \in IF t = Caller THEN CallerPoints ELSE WorkerPoints
  PROVE  /\ pc' \in [Threads -> CallerPoints \cup WorkerPoints]
         /\ pc'[Caller] \in CallerPoints
         /\ \A w \in Workers : pc'[w] \in WorkerPoints
  BY PoolAssumption DEF PoolAssumption, TypeOK, Go, Threads

LEMMA CallerTypeOK == TypeOK /\ CallerOwn => TypeOK'
  <1> SUFFICES ASSUME TypeOK, CallerOwn PROVE TypeOK'
    OBVIOUS
  <1>0. Caller \in Threads /\ Caller \notin Workers /\ MaxItems \in Nat
    BY PoolAssumption DEF PoolAssumption, Threads
  <1> USE <1>0 DEF shared, owned
  <1>1. CASE StopRaise
    <2>1. Go(Caller, "stopRaise", "stopNotify")
      BY <1>1 DEF StopRaise
    <2>2. /\ pc' \in [Threads -> CallerPoints \cup WorkerPoints]
          /\ pc'[Caller] \in CallerPoints
          /\ \A w \in Workers : pc'[w] \in WorkerPoints
      BY <2>1, GoType DEF CallerPoints
    <2>3. QED
      BY <1>1, <2>2 DEF StopRaise, TypeOK
  <1>2. CASE StopNotify
    <2>1. Go(Caller, "stopNotify", "join")
      BY <1>2 DEF StopNotify
    <2>2. /\ pc' \in [Threads -> CallerPoints \cup WorkerPoints]
          /\ pc'[Caller] \in CallerPoints
          /\ \A w \in Workers : pc'[w] \in WorkerPoints
      BY <2>1, GoType DEF CallerPoints
    <2>3. QED
      BY <1>2, <2>2 DEF StopNotify, TypeOK
  <1>3. CASE Join
    <2>1. Go(Caller, "join", IF respawn = {} THEN "idle" ELSE "spawn")
      BY <1>3 DEF Join
    <2>2. /\ pc' \in [Threads -> CallerPoints \cup WorkerPoints]
          /\ pc'[Caller] \in CallerPoints
          /\ \A w \in Workers : pc'[w] \in WorkerPoints
      BY <2>1, GoType DEF CallerPoints
    <2>3. QED
      BY <1>3, <2>2 DEF Join, TypeOK
  <1>4. CASE Spawn
    <2>1. /\ pc' \in [Threads -> CallerPoints \cup WorkerPoints]
          /\ pc'[Caller] \in CallerPoints
          /\ \A w \in Workers : pc'[w] \in WorkerPoints
      BY <1>4 DEF Spawn, TypeOK, Threads, CallerPoints, WorkerPoints
    <2>2. QED
      BY <1>4, <2>1 DEF Spawn, TypeOK
  <1>5. CASE SeqItem
    <2>1. ran' \in [Items -> Nat]
      BY <1>5, RanType DEF SeqItem, TypeOK
    <2>2. seqIdx' \in 0..MaxItems
      BY <1>5 DEF SeqItem, TypeOK
    <2>3. QED
      BY <1>5, <2>1, <2>2 DEF SeqItem, TypeOK
  <1>6. CASE SeqReturn
    <2>1. Go(Caller, "seq", "idle")
      BY <1>6 DEF SeqReturn
    <2>2. /\ pc' \in [Threads -> CallerPoints \cup WorkerPoints]
          /\ pc'[Caller] \in CallerPoints
          /\ \A w \in Workers : pc'[w] \in WorkerPoints
      BY <2>1, GoType DEF CallerPoints
    <2>3. QED
      BY <1>6, <2>2 DEF SeqReturn, TypeOK, NoneRan
  <1>7. CASE SetFunc
    <2>1. Go(Caller, "setFunc", "resetDone")
      BY <1>7 DEF SetFunc
    <2>2. /\ pc' \in [Threads -> CallerPoints \cup WorkerPoints]
          /\ pc'[Caller] \in CallerPoints
          /\ \A w \in Workers : pc'[w] \in WorkerPoints
      BY <2>1, GoType DEF CallerPoints
    <2>3. QED
      BY <1>7, <2>2 DEF SetFunc, TypeOK
  <1>8. CASE ResetDone
    <2>1. Go(Caller, "resetDone", "publish")
      BY <1>8 DEF ResetDone
    <2>2. /\ pc' \in [Threads -> CallerPoints \cup WorkerPoints]
          /\ pc'[Caller] \in CallerPoints
          /\ \A w \in Workers : pc'[w] \in WorkerPoints
      BY <2>1, GoType DEF CallerPoints
    <2>3. QED
      BY <1>8, <2>2 DEF ResetDone, TypeOK
  <1>9. CASE PublishClaim
    <2>1. Go(Caller, "publish", "raise")
      BY <1>9 DEF PublishClaim
    <2>2. /\ pc' \in [Threads -> CallerPoints \cup WorkerPoints]
          /\ pc'[Caller] \in CallerPoints
          /\ \A w \in Workers : pc'[w] \in WorkerPoints
      BY <2>1, GoType DEF CallerPoints
    <2>3. QED
      BY <1>9, <2>2 DEF PublishClaim, TypeOK
  <1>10. CASE RaiseDispatch
    <2>1. Go(Caller, "raise", "notifyWork")
      BY <1>10 DEF RaiseDispatch
    <2>2. /\ pc' \in [Threads -> CallerPoints \cup WorkerPoints]
          /\ pc'[Caller] \in CallerPoints
          /\ \A w \in Workers : pc'[w] \in WorkerPoints
      BY <2>1, GoType DEF CallerPoints
    <2>3. QED
      BY <1>10, <2>2 DEF RaiseDispatch, TypeOK
  <1>11. CASE NotifyWork
    <2>1. Go(Caller, "notifyWork", "claim")
      BY <1>11 DEF NotifyWork
    <2>2. /\ pc' \in [Threads -> CallerPoints \cup WorkerPoints]
          /\ pc'[Caller] \in CallerPoints
          /\ \A w \in Workers : pc'[w] \in WorkerPoints
      BY <2>1, GoType DEF CallerPoints
    <2>3. QED
      BY <1>11, <2>2 DEF NotifyWork, TypeOK
  <1>12. CASE AwaitDone
    BY <1>12 DEF AwaitDone, WaitFor, TypeOK, Threads, CallerPoints
  <1>13. CASE LowerDispatch
    <2>1. Go(Caller, "lower", "notifyIdle")
      BY <1>13 DEF LowerDispatch
    <2>2. /\ pc' \in [Threads -> CallerPoints \cup WorkerPoints]
          /\ pc'[Caller] \in CallerPoints
          /\ \A w \in Workers : pc'[w] \in WorkerPoints
      BY <2>1, GoType DEF CallerPoints
    <2>3. QED
      BY <1>13, <2>2 DEF LowerDispatch, TypeOK
  <1>14. CASE NotifyIdle
    <2>1. Go(Caller, "notifyIdle", "clearFunc")
      BY <1>14 DEF NotifyIdle
    <2>2. /\ pc' \in [Threads -> CallerPoints \cup WorkerPoints]
          /\ pc'[Caller] \in CallerPoints
          /\ \A w \in Workers : pc'[w] \in WorkerPoints
      BY <2>1, GoType DEF CallerPoints
    <2>3. QED
      BY <1>14, <2>2 DEF NotifyIdle, TypeOK
  <1>15. CASE ClearFunc
    <2>1. Go(Caller, "clearFunc", "idle")
      BY <1>15 DEF ClearFunc
    <2>2. /\ pc' \in [Threads -> CallerPoints \cup WorkerPoints]
          /\ pc'[Caller] \in CallerPoints
          /\ \A w \in Workers : pc'[w] \in WorkerPoints
      BY <2>1, GoType DEF CallerPoints
    <2>3. ran' \in [Items -> Nat]
      BY <1>15 DEF ClearFunc, NoneRan
    <2>4. call' \in 0..MaxItems
      BY <1>15 DEF ClearFunc
    <2>5. funcSet' \in BOOLEAN
      BY <1>15 DEF ClearFunc
    <2>6. QED
      BY <1>15, <2>2, <2>3, <2>4, <2>5 DEF ClearFunc, TypeOK
  <1>16. QED
    BY <1>1, <1>2, <1>3, <1>4, <1>5, <1>6, <1>7, <1>8, <1>9, <1>10, <1>11, <1>12, <1>13, <1>14, <1>15
       DEF CallerOwn

LEMMA StepTypeOK == TypeOK /\ [Next]_vars => TypeOK'
  <1> SUFFICES ASSUME TypeOK, [Next]_vars PROVE TypeOK'
    OBVIOUS
  <1>0. Caller \in Threads /\ Caller \notin Workers /\ MaxItems \in Nat
    BY PoolAssumption DEF PoolAssumption, Threads
  <1>a. Workers \subseteq Threads
    BY DEF Threads
  <1> USE <1>0, <1>a DEF shared, owned
  <1>1. ASSUME NEW S \in SUBSET Workers, Reprepare(S) PROVE TypeOK'
    <2>1. /\ pc' \in [Threads -> CallerPoints \cup WorkerPoints]
          /\ pc'[Caller] \in CallerPoints
          /\ \A w \in Workers : pc'[w] \in WorkerPoints
      BY <1>1 DEF Reprepare, TypeOK, CallerPoints
    <2>2. QED
      BY <1>1, <2>1 DEF Reprepare, TypeOK
  <1>2. ASSUME NEW n \in 1..MaxItems, ParallelFor(n) PROVE TypeOK'
    <2>1. /\ pc' \in [Threads -> CallerPoints \cup WorkerPoints]
          /\ pc'[Caller] \in CallerPoints
          /\ \A w \in Workers : pc'[w] \in WorkerPoints
      BY <1>2, GoType DEF ParallelFor, CallerPoints
    <2>2. QED
      BY <1>2, <2>1 DEF ParallelFor, TypeOK
  <1>3. CASE CallerOwn
    BY <1>3, CallerTypeOK
  <1>4. ASSUME NEW w \in Workers, WorkerOwn(w) PROVE TypeOK'
    <2>1. CASE TestRunning(w)
      BY <2>1, GoType DEF TestRunning, TypeOK, WorkerPoints
    <2>2. CASE AwaitWork(w)
      BY <2>2 DEF AwaitWork, WaitFor, TypeOK, WorkerPoints
    <2>3. CASE RecheckRunning(w)
      BY <2>3, GoType DEF RecheckRunning, TypeOK, WorkerPoints
    <2>4. CASE AwaitIdle(w)
      BY <2>4 DEF AwaitIdle, WaitFor, TypeOK, WorkerPoints
    <2>5. QED
      BY <1>4, <2>1, <2>2, <2>3, <2>4 DEF WorkerOwn
  <1>5. ASSUME NEW t \in Threads, Claim(t) PROVE TypeOK'
    <2>1. Go(t, "claim", IF claim.next < claim.total THEN "run"
                         ELSE IF t = Caller THEN "awaitDone" ELSE "awaitIdle")
      BY <1>5 DEF Claim
    <2>2. /\ pc' \in [Threads -> CallerPoints \cup WorkerPoints]
          /\ pc'[Caller] \in CallerPoints
          /\ \A w \in Workers : pc'[w] \in WorkerPoints
      BY <2>1, GoType DEF CallerPoints, WorkerPoints
    <2>3. claim' \in [total : 0..MaxItems, next : Nat]
      BY <1>5 DEF Claim, TypeOK
    <2>4. mine' \in [Threads -> [total : 0..MaxItems, idx : Nat]]
      BY <1>5 DEF Claim, TypeOK
    <2>5. QED
      BY <1>5, <2>2, <2>3, <2>4 DEF Claim, TypeOK
  <1>6. ASSUME NEW t \in Threads, RunItem(t) PROVE TypeOK'
    <2>1. /\ pc' \in [Threads -> CallerPoints \cup WorkerPoints]
          /\ pc'[Caller] \in CallerPoints
          /\ \A w \in Workers : pc'[w] \in WorkerPoints
      BY <1>6, GoType DEF RunItem, CallerPoints, WorkerPoints
    <2>2. ran' \in [Items -> Nat]
      BY <1>6, RanType DEF RunItem, TypeOK
    <2>3. QED
      BY <1>6, <2>1, <2>2 DEF RunItem, TypeOK
  <1>7. ASSUME NEW t \in Threads, CountItem(t) PROVE TypeOK'
    <2>1. /\ pc' \in [Threads -> CallerPoints \cup WorkerPoints]
          /\ pc'[Caller] \in CallerPoints
          /\ \A w \in Workers : pc'[w] \in WorkerPoints
      BY <1>7, GoType DEF CountItem, CallerPoints, WorkerPoints
    <2>2. mine' \in [Threads -> [total : 0..MaxItems, idx : Nat]]
      BY <1>7 DEF CountItem, TypeOK, NoClaim
    <2>3. doneCount' \in Nat
      BY <1>7 DEF CountItem, TypeOK
    <2>4. QED
      BY <1>7, <2>1, <2>2, <2>3 DEF CountItem, TypeOK
  <1>8. ASSUME NEW t \in Threads, SignalDone(t) PROVE TypeOK'
    BY <1>8, GoType DEF SignalDone, TypeOK, CallerPoints, WorkerPoints
  <1>9. ASSUME NEW t \in Threads, SpuriousWake(t) PROVE TypeOK'
    BY <1>9 DEF SpuriousWake, TypeOK
  <1>10. CASE UNCHANGED vars
    BY <1>10 DEF vars, TypeOK
  <1>11. QED
    BY NextCases, <1>1, <1>2, <1>3, <1>4, <1>5, <1>6, <1>7, <1>8, <1>9, <1>10

-------------------------------------------------------------------------------
(* Exactly once, and no straggler: the inductive invariant *)

LEMMA FinishedFinite ==
  ASSUME TypeOK
  PROVE  /\ Finished \subseteq 0..(call - 1)
         /\ IsFiniteSet(Finished) /\ IsFiniteSet(0..(call - 1))
         /\ Cardinality(0..(call - 1)) = call
  <1>1. call \in Nat
    BY PoolAssumption DEF PoolAssumption, TypeOK
  <1>2. IsFiniteSet(0..(call - 1)) /\ Cardinality(0..(call - 1)) = call
    BY <1>1, FS_Interval
  <1>3. Finished \subseteq 0..(call - 1)
    BY DEF Finished
  <1>4. QED
    BY <1>2, <1>3, FS_Subset

\* The caller stays in the same phase of the same call.
SamePhase ==
    /\ pc'[Caller] \in Active <=> pc[Caller] \in Active
    /\ pc'[Caller] \in Outside <=> pc[Caller] \in Outside
    /\ pc'[Caller] \in Tail <=> pc[Caller] \in Tail
    /\ \A p \in Setup \cup {"seq"} : pc'[Caller] = p <=> pc[Caller] = p

\* A step that changes neither the work items nor who holds one.
Quiet ==
    /\ UNCHANGED <<claim, doneCount, funcSet, call, ran, mine, seqIdx>>
    /\ \A t \in Threads : /\ pc'[t] = "run" <=> pc[t] = "run"
                          /\ pc'[t] = "count" <=> pc[t] = "count"
    /\ SamePhase

LEMMA QuietStep ==
  ASSUME IInv, TypeOK', Quiet
  PROVE  IInv'
  <1>1. Finished' = Finished
    BY DEF Finished, Quiet
  <1>2. Quiescent'
    BY DEF IInv, Quiescent, Quiet, SamePhase, Holding
  <1>3. ItemsAccounted'
    <2> SUFFICES ASSUME pc'[Caller] \in Active PROVE ItemsAccounted'
      BY DEF ItemsAccounted
    <2>1. pc[Caller] \in Active
      BY DEF Quiet, SamePhase
    <2>2. doneCount' = Cardinality(Finished')
      BY <1>1, <2>1 DEF IInv, ItemsAccounted, Quiet
    <2> HIDE DEF Finished
    <2>3. QED
      BY <2>1, <2>2 DEF IInv, ItemsAccounted, Quiet, Holding
  <1>4. CallerKnows'
    BY DEF IInv, CallerKnows, Quiet, SamePhase, Setup
  <1>5. QED
    BY <1>2, <1>3, <1>4 DEF IInv

\* Steps of a thread between points where it holds no item.
LEMMA QuietGo ==
  ASSUME IInv, TypeOK', NEW t \in Threads, NEW from, NEW to,
         pc[t] = from, pc' = [pc EXCEPT ![t] = to],
         from \notin {"run", "count"}, to \notin {"run", "count"},
         UNCHANGED <<claim, doneCount, funcSet, call, ran, mine, seqIdx>>,
         t = Caller => \/ from \in Active /\ to \in Active
                       \/ from \in Outside /\ to \in Outside
                       \/ from \in Tail /\ to \in Tail
  PROVE  IInv'
  <1>1. Caller \in Threads /\ pc \in [Threads -> CallerPoints \cup WorkerPoints]
    BY DEF Threads, IInv, TypeOK
  <1>2. \A u \in Threads : pc'[u] = IF u = t THEN to ELSE pc[u]
    BY <1>1
  <1>3. SamePhase
    <2>1. CASE t = Caller
      BY <1>1, <1>2, <2>1 DEF SamePhase, Active, Outside, Tail, Setup
    <2>2. CASE t # Caller
      BY <1>1, <1>2, <2>2 DEF SamePhase
    <2>3. QED
      BY <2>1, <2>2
  <1>4. Quiet
    BY <1>2, <1>3 DEF Quiet
  <1>5. QED
    BY <1>4, QuietStep

\* A step that leaves pc alone too.
LEMMA QuietPc ==
  ASSUME IInv, TypeOK', UNCHANGED <<claim, doneCount, funcSet, call, ran, mine, seqIdx, pc>>
  PROVE  IInv'
  <1>1. Quiet
    BY DEF Quiet, SamePhase
  <1>2. QED
    BY <1>1, QuietStep

\* When doneCount has reached the count, every item has run, nobody holds one
\* and the claim word is exhausted.
LEMMA AllDone ==
  ASSUME IInv, pc[Caller] \in Active, doneCount >= call
  PROVE  /\ \A i \in Items : i < call => ran[i] = 1
         /\ claim.next >= claim.total
         /\ \A t \in Threads : ~Holding(t)
  <1>1. /\ Finished \subseteq 0..(call - 1)
        /\ IsFiniteSet(0..(call - 1))
        /\ Cardinality(0..(call - 1)) = call
    BY FinishedFinite DEF IInv
  <1>2. Cardinality(Finished) <= Cardinality(0..(call - 1))
    BY <1>1, FS_Subset
  <1>3. Cardinality(Finished) = doneCount /\ call \in 0..MaxItems /\ doneCount \in Nat
    BY DEF IInv, ItemsAccounted, TypeOK
  <1>4. Cardinality(Finished) = Cardinality(0..(call - 1))
    BY <1>1, <1>2, <1>3
  <1>5. Finished = 0..(call - 1)
    BY <1>1, <1>4, FS_Subset
  <1>6. \A i \in 0..(call - 1) :
          ran[i] = 1 /\ \A t \in Threads : pc[t] = "count" => mine[t].idx # i
    BY <1>5 DEF Finished
  <1>7. \A i \in Items : i < call => ran[i] = 1
    BY <1>6, <1>3, PoolAssumption DEF Items, PoolAssumption
  <1>8. claim.next >= claim.total
    <2> SUFFICES ASSUME ~(claim.next >= claim.total) PROVE FALSE
      OBVIOUS
    <2>1. claim.next \in Nat /\ claim.next < call
      BY DEF IInv, TypeOK, ItemsAccounted
    <2>2. claim.next \in Items
      BY <2>1, <1>3, PoolAssumption DEF Items, PoolAssumption
    <2>3. ran[claim.next] = 0
      BY <2>1, <2>2 DEF IInv, ItemsAccounted
    <2>4. QED
      BY <2>1, <2>2, <2>3, <1>7
  <1>9. ASSUME NEW t \in Threads, Holding(t) PROVE FALSE
    <2>1. mine[t].idx \in Nat /\ mine[t].idx < call
      BY <1>9 DEF IInv, TypeOK, ItemsAccounted
    <2>2. mine[t].idx \in 0..(call - 1)
      BY <2>1, <1>3
    <2>3. pc[t] = "run"
      BY <1>6, <1>9, <2>2 DEF Holding
    <2>4. ran[mine[t].idx] = 0
      BY <1>9, <2>3 DEF IInv, ItemsAccounted
    <2>5. QED
      BY <1>6, <2>2, <2>4
  <1>10. QED
    BY <1>7, <1>8, <1>9

\* The caller takes the word of its dispatch public.
LEMMA PublishIInv ==
  ASSUME IInv, TypeOK', PublishClaim
  PROVE  IInv'
  <1>1. /\ pc[Caller] = "publish" /\ pc' = [pc EXCEPT ![Caller] = "raise"]
        /\ claim' = [total |-> call, next |-> 0]
        /\ UNCHANGED <<doneCount, funcSet, call, ran, mine, seqIdx>>
    BY DEF PublishClaim, Go, owned
  <1>2. Caller \in Threads /\ pc \in [Threads -> CallerPoints \cup WorkerPoints]
    BY DEF Threads, IInv, TypeOK
  <1>3. pc'[Caller] = "raise" /\ \A t \in Threads : t # Caller => pc'[t] = pc[t]
    BY <1>1, <1>2
  <1>4. \A t \in Threads : ~Holding(t)
    BY <1>1 DEF IInv, Quiescent, Active
  <1>5. \A t \in Threads : ~Holding(t)'
    BY <1>3, <1>4 DEF Holding
  <1>6. call >= 1 /\ ran = NoneRan /\ funcSet /\ doneCount = 0 /\ seqIdx = 0
    BY <1>1 DEF IInv, CallerKnows, Setup
  <1>7. call \in 0..MaxItems /\ MaxItems \in Nat
    BY PoolAssumption DEF PoolAssumption, IInv, TypeOK
  <1>8. Finished' = {}
    BY <1>1, <1>6, <1>7 DEF Finished, NoneRan, Items
  <1>9. Cardinality(Finished') = 0
    BY <1>8, FS_EmptySet
  <1>10. ItemsAccounted'
    <2>1. call' >= 1 /\ claim'.total = call' /\ claim'.next = 0 /\ funcSet'
          /\ doneCount' = Cardinality(Finished')
      BY <1>1, <1>6, <1>9
    <2>2. \A i \in Items : ran'[i] = 0
      BY <1>1, <1>6 DEF NoneRan
    <2>3. \A i \in Items : ~(i < claim'.next)
      BY <2>1 DEF Items
    <2>4. \A t \in Threads : pc'[t] \notin {"run", "count"}
      BY <1>5 DEF Holding
    <2> HIDE DEF Finished
    <2>5. QED
      BY <2>1, <2>2, <2>3, <2>4 DEF ItemsAccounted, Holding
  <1>11. Quiescent' /\ CallerKnows'
    BY <1>1, <1>3, <1>6 DEF Quiescent, CallerKnows, Active, Outside, Setup, Tail
  <1>12. QED
    BY <1>10, <1>11 DEF IInv

LEMMA CallerIInv ==
  ASSUME IInv, TypeOK', CallerOwn
  PROVE  IInv'
  <1>0. Caller \in Threads /\ pc \in [Threads -> CallerPoints \cup WorkerPoints]
    BY DEF Threads, IInv, TypeOK
  <1> USE <1>0 DEF shared, owned
  <1>1. CASE StopRaise
    <2>1. /\ pc[Caller] = "stopRaise" /\ pc' = [pc EXCEPT ![Caller] = "stopNotify"]
          /\ UNCHANGED <<claim, doneCount, funcSet, call, ran, mine, seqIdx>>
      BY <1>1 DEF StopRaise, Go
    <2>2. QED
      BY <2>1, QuietGo, ZenonT(40) DEF Outside
  <1>2. CASE StopNotify
    <2>1. /\ pc[Caller] = "stopNotify" /\ pc' = [pc EXCEPT ![Caller] = "join"]
          /\ UNCHANGED <<claim, doneCount, funcSet, call, ran, mine, seqIdx>>
      BY <1>2 DEF StopNotify, Go
    <2>2. QED
      BY <2>1, QuietGo, ZenonT(40) DEF Outside
  <1>3. CASE Join
    <2>1. \E to \in {"idle", "spawn"} :
             /\ pc[Caller] = "join" /\ pc' = [pc EXCEPT ![Caller] = to]
             /\ UNCHANGED <<claim, doneCount, funcSet, call, ran, mine, seqIdx>>
      BY <1>3 DEF Join, Go
    <2>2. QED
      BY <2>1, QuietGo, ZenonT(40) DEF Outside
  <1>4. CASE Spawn
    <2>1. /\ pc[Caller] = "spawn" /\ pc'[Caller] = "idle"
          /\ UNCHANGED <<claim, doneCount, funcSet, call, ran, mine, seqIdx>>
      BY <1>4, PoolAssumption DEF Spawn, PoolAssumption, IInv, TypeOK
    <2>2. \A t \in Threads : ~Holding(t)
      BY <2>1 DEF IInv, Quiescent, Active
    <2>3. \A t \in Threads : pc'[t] \notin {"run", "count"}
      BY <1>4, <2>1, <2>2, PoolAssumption DEF Spawn, Holding, PoolAssumption, IInv, TypeOK
    <2>4. SamePhase
      BY <2>1 DEF SamePhase, Active, Outside, Tail, Setup
    <2>5. Quiet
      BY <2>1, <2>2, <2>3, <2>4 DEF Quiet, Holding
    <2>6. QED
      BY <2>5, QuietStep
  <1>5. CASE SeqItem
    <2>1. /\ pc[Caller] = "seq" /\ pc' = pc /\ seqIdx < call /\ seqIdx' = seqIdx + 1
          /\ ran' = [ran EXCEPT ![seqIdx] = @ + 1]
          /\ UNCHANGED <<claim, doneCount, funcSet, call, mine>>
      BY <1>5 DEF SeqItem
    <2>2. Quiescent' /\ ItemsAccounted'
      BY <2>1 DEF IInv, Quiescent, ItemsAccounted, Active, Holding
    <2>3. /\ call >= 1 /\ call \in 0..MaxItems /\ MaxItems \in Nat /\ seqIdx \in Nat
          /\ ran \in [Items -> Nat]
      BY <2>1, PoolAssumption DEF PoolAssumption, IInv, CallerKnows, TypeOK
    <2>4. \A i \in Items : ran'[i] = IF i < seqIdx' THEN 1 ELSE 0
      <3> TAKE i \in Items
      <3>1. ran[i] = IF i < seqIdx THEN 1 ELSE 0
        BY <2>1 DEF IInv, CallerKnows
      <3>2. ran'[i] = IF i = seqIdx THEN ran[i] + 1 ELSE ran[i]
        BY <2>1, <2>3
      <3>3. i \in Nat
        BY <2>3 DEF Items
      <3>4. QED
        BY <2>1, <2>3, <3>1, <3>2, <3>3
    <2>5. seqIdx' <= call'
      BY <2>1, <2>3
    <2>6. CallerKnows'
      BY <2>1, <2>3, <2>4, <2>5 DEF CallerKnows, Outside, Setup, Tail
    <2>7. QED
      BY <2>2, <2>6 DEF IInv
  <1>6. CASE SeqReturn
    <2>1. /\ pc[Caller] = "seq" /\ pc' = [pc EXCEPT ![Caller] = "idle"]
          /\ call' = 0 /\ seqIdx' = 0 /\ ran' = NoneRan
          /\ UNCHANGED <<claim, doneCount, funcSet, mine>>
      BY <1>6 DEF SeqReturn, Go
    <2>2. QED
      BY <2>1 DEF IInv, Quiescent, ItemsAccounted, CallerKnows, Holding, Active, Outside,
                  Setup, Tail, NoneRan
  <1>7. CASE SetFunc
    <2>1. /\ pc[Caller] = "setFunc" /\ pc' = [pc EXCEPT ![Caller] = "resetDone"]
          /\ funcSet' = TRUE
          /\ UNCHANGED <<claim, doneCount, call, ran, mine, seqIdx>>
      BY <1>7 DEF SetFunc, Go
    <2>2. QED
      BY <2>1 DEF IInv, Quiescent, ItemsAccounted, CallerKnows, Holding, Active, Outside,
                  Setup, Tail, NoneRan
  <1>8. CASE ResetDone
    <2>1. /\ pc[Caller] = "resetDone" /\ pc' = [pc EXCEPT ![Caller] = "publish"]
          /\ doneCount' = 0
          /\ UNCHANGED <<claim, funcSet, call, ran, mine, seqIdx>>
      BY <1>8 DEF ResetDone, Go
    <2>2. QED
      BY <2>1 DEF IInv, Quiescent, ItemsAccounted, CallerKnows, Holding, Active, Outside,
                  Setup, Tail, NoneRan
  <1>9. CASE PublishClaim
    BY <1>9, PublishIInv
  <1>10. CASE RaiseDispatch
    <2>1. /\ pc[Caller] = "raise" /\ pc' = [pc EXCEPT ![Caller] = "notifyWork"]
          /\ UNCHANGED <<claim, doneCount, funcSet, call, ran, mine, seqIdx>>
      BY <1>10 DEF RaiseDispatch, Go
    <2>2. QED
      BY <2>1, QuietGo, ZenonT(40) DEF Active
  <1>11. CASE NotifyWork
    <2>1. /\ pc[Caller] = "notifyWork" /\ pc' = [pc EXCEPT ![Caller] = "claim"]
          /\ UNCHANGED <<claim, doneCount, funcSet, call, ran, mine, seqIdx>>
      BY <1>11 DEF NotifyWork, Go
    <2>2. QED
      BY <2>1, QuietGo, ZenonT(40) DEF Active
  <1>12. CASE AwaitDone
    <2>1. CASE doneCount >= call
      <3>1. /\ pc[Caller] = "awaitDone" /\ pc' = [pc EXCEPT ![Caller] = "lower"]
            /\ UNCHANGED <<claim, doneCount, funcSet, call, ran, mine, seqIdx>>
        BY <1>12, <2>1 DEF AwaitDone, WaitFor
      <3>2. /\ \A i \in Items : i < call => ran[i] = 1
            /\ claim.next >= claim.total
            /\ \A t \in Threads : ~Holding(t)
        BY <2>1, <3>1, AllDone DEF Active
      <3>3. call >= 1 /\ seqIdx = 0
        BY <3>1 DEF IInv, ItemsAccounted, CallerKnows, Active
      <3>4. QED
        BY <3>1, <3>2, <3>3
           DEF IInv, Quiescent, ItemsAccounted, CallerKnows, Holding, Active, Outside,
               Setup, Tail
    <2>2. CASE ~(doneCount >= call)
      BY <1>12, <2>2, QuietPc DEF AwaitDone, WaitFor
    <2>3. QED
      BY <2>1, <2>2
  <1>13. CASE LowerDispatch
    <2>1. /\ pc[Caller] = "lower" /\ pc' = [pc EXCEPT ![Caller] = "notifyIdle"]
          /\ UNCHANGED <<claim, doneCount, funcSet, call, ran, mine, seqIdx>>
      BY <1>13 DEF LowerDispatch, Go
    <2>2. QED
      BY <2>1, QuietGo, ZenonT(40) DEF Tail
  <1>14. CASE NotifyIdle
    <2>1. /\ pc[Caller] = "notifyIdle" /\ pc' = [pc EXCEPT ![Caller] = "clearFunc"]
          /\ UNCHANGED <<claim, doneCount, funcSet, call, ran, mine, seqIdx>>
      BY <1>14 DEF NotifyIdle, Go
    <2>2. QED
      BY <2>1, QuietGo, ZenonT(40) DEF Tail
  <1>15. CASE ClearFunc
    <2>1. /\ pc[Caller] = "clearFunc" /\ pc' = [pc EXCEPT ![Caller] = "idle"]
          /\ call' = 0 /\ ran' = NoneRan
          /\ UNCHANGED <<claim, doneCount, mine, seqIdx>>
      BY <1>15 DEF ClearFunc, Go
    <2>2. QED
      BY <2>1 DEF IInv, Quiescent, ItemsAccounted, CallerKnows, Holding, Active, Outside,
                  Setup, Tail, NoneRan
  <1>16. QED
    BY <1>1, <1>2, <1>3, <1>4, <1>5, <1>6, <1>7, <1>8, <1>9, <1>10, <1>11, <1>12, <1>13,
       <1>14, <1>15
       DEF CallerOwn

\* A claim: either the thread takes the next item, which nobody has run or
\* holds, or the word is exhausted and nothing changes but its index.
LEMMA ClaimIInv ==
  ASSUME IInv, TypeOK', NEW t \in Threads, Claim(t)
  PROVE  IInv'
  <1>0. /\ pc \in [Threads -> CallerPoints \cup WorkerPoints] /\ pc[t] = "claim"
        /\ mine \in [Threads -> [total : 0..MaxItems, idx : Nat]]
        /\ claim \in [total : 0..MaxItems, next : Nat] /\ MaxItems \in Nat
        /\ Caller \in Threads
    BY PoolAssumption DEF PoolAssumption, IInv, TypeOK, Claim, Go, Threads
  <1>1. UNCHANGED <<doneCount, funcSet, call, ran, seqIdx>>
    BY DEF Claim, owned
  <1>2. claim'.total = claim.total /\ claim'.next = claim.next + 1
    BY <1>0 DEF Claim
  <1>3. CASE claim.next < claim.total
    <2>1. /\ pc' = [pc EXCEPT ![t] = "run"]
          /\ mine' = [mine EXCEPT ![t] = [total |-> claim.total, idx |-> claim.next]]
      BY <1>3 DEF Claim, Go
    <2>2. \A u \in Threads : pc'[u] = (IF u = t THEN "run" ELSE pc[u])
                             /\ mine'[u].idx = (IF u = t THEN claim.next ELSE mine[u].idx)
      BY <1>0, <2>1
    <2>3. pc[Caller] \in Active
      BY <1>0, <1>3 DEF IInv, Quiescent
    <2>4. pc'[Caller] \in Active /\ SamePhase
      BY <1>0, <2>2, <2>3 DEF SamePhase, Active, Outside, Tail, Setup
    <2>5. /\ call >= 1 /\ claim.total = call /\ funcSet /\ doneCount = Cardinality(Finished)
          /\ claim.next \in Items /\ ran[claim.next] = 0
          /\ \A u \in Threads : Holding(u) =>
                /\ mine[u].idx < call /\ mine[u].idx < claim.next
                /\ ran[mine[u].idx] = IF pc[u] = "run" THEN 0 ELSE 1
      BY <1>0, <1>3, <2>3 DEF IInv, ItemsAccounted, Items
    <2>6. Finished' = Finished
      BY <1>0, <1>1, <2>2 DEF Finished
    <2>7. ~Holding(t)
      BY <1>0 DEF Holding
    <2>8. \A u \in Threads : Holding(u)' =>
             /\ mine'[u].idx < call' /\ mine'[u].idx < claim'.next
             /\ ran'[mine'[u].idx] = IF pc'[u] = "run" THEN 0 ELSE 1
      <3> TAKE u \in Threads
      <3>1. CASE u = t
        BY <1>0, <1>1, <1>2, <1>3, <2>2, <2>5, <3>1
      <3>2. CASE u # t
        <4>1. Holding(u)' => Holding(u)
          BY <2>2, <3>2 DEF Holding
        <4>2. mine[u].idx \in Nat
          BY <1>0
        <4>3. QED
          BY <1>0, <1>1, <1>2, <2>2, <2>5, <3>2, <4>1, <4>2
      <3>3. QED
        BY <3>1, <3>2
    <2>9. \A u, v \in Threads :
             Holding(u)' /\ Holding(v)' /\ mine'[u].idx = mine'[v].idx => u = v
      <3> SUFFICES ASSUME NEW u \in Threads, NEW v \in Threads, Holding(u)', Holding(v)',
                          mine'[u].idx = mine'[v].idx, u # v
                   PROVE  FALSE
        OBVIOUS
      <3>1. \A x \in Threads : x # t /\ Holding(x)' => Holding(x) /\ mine[x].idx < claim.next
        BY <2>2, <2>5 DEF Holding
      <3>2. \A x \in Threads : mine[x].idx \in Nat
        BY <1>0
      <3>3. CASE u = t \/ v = t
        BY <1>0, <2>2, <3>1, <3>2, <3>3
      <3>4. CASE u # t /\ v # t
        BY <2>2, <2>3, <3>1, <3>4 DEF IInv, ItemsAccounted
      <3>5. QED
        BY <3>3, <3>4
    <2>10. \A i \in Items : i >= claim'.next => ran'[i] = 0
      BY <1>0, <1>1, <1>2, <2>3 DEF IInv, ItemsAccounted, Items
    <2>11. \A i \in Items : i < call' /\ i < claim'.next =>
             \/ ran'[i] = 1
             \/ ran'[i] = 0 /\ \E u \in Threads : pc'[u] = "run" /\ mine'[u].idx = i
      <3> TAKE i \in Items
      <3> HAVE i < call' /\ i < claim'.next
      <3>1. CASE i = claim.next
        BY <1>1, <2>2, <2>5, <3>1
      <3>2. CASE i # claim.next
        <4>1. i < claim.next /\ i < call
          BY <1>0, <1>1, <1>2, <3>2 DEF Items
        <4>2. \/ ran[i] = 1
              \/ ran[i] = 0 /\ \E u \in Threads : pc[u] = "run" /\ mine[u].idx = i
          BY <2>3, <4>1 DEF IInv, ItemsAccounted
        <4>3. QED
          BY <1>0, <1>1, <2>2, <4>2
      <3>3. QED
        BY <3>1, <3>2
    <2>12. ItemsAccounted'
      <3>1. doneCount' = Cardinality(Finished')
        BY <1>1, <2>5, <2>6
      <3> HIDE DEF Finished
      <3>2. QED
        BY <1>1, <1>2, <2>5, <2>8, <2>9, <2>10, <2>11, <3>1 DEF ItemsAccounted
    <2>13. Quiescent' /\ CallerKnows'
      BY <1>1, <2>3, <2>4 DEF IInv, Quiescent, CallerKnows, SamePhase, Setup, Active, Outside, Tail
    <2>14. QED
      BY <2>12, <2>13 DEF IInv
  <1>4. CASE ~(claim.next < claim.total)
    <2>1. PICK to \in {"awaitDone", "awaitIdle"} :
             pc' = [pc EXCEPT ![t] = to] /\ (t = Caller => to = "awaitDone")
      BY <1>4 DEF Claim, Go
    <2>2. mine' = mine
      BY <1>4 DEF Claim
    <2>3. /\ \A u \in Threads : /\ pc'[u] = "run" <=> pc[u] = "run"
                                /\ pc'[u] = "count" <=> pc[u] = "count"
          /\ SamePhase
      BY <1>0, <2>1 DEF SamePhase, Active, Outside, Tail, Setup
    <2>4. Finished' = Finished
      BY <1>1, <2>2, <2>3 DEF Finished
    <2>5. Quiescent' /\ CallerKnows'
      BY <1>0, <1>1, <1>2, <1>4, <2>3
         DEF IInv, Quiescent, CallerKnows, Holding, SamePhase, Setup
    <2>6. ItemsAccounted'
      <3> SUFFICES ASSUME pc'[Caller] \in Active PROVE ItemsAccounted'
        BY DEF ItemsAccounted
      <3>1. pc[Caller] \in Active
        BY <2>3 DEF SamePhase
      <3>2. doneCount' = Cardinality(Finished')
        BY <1>1, <2>4, <3>1 DEF IInv, ItemsAccounted
      <3>3. /\ \A u \in Threads : Holding(u)' <=> Holding(u)
            /\ \A u \in Threads : mine[u].idx \in Nat
        BY <1>0, <2>3 DEF Holding
      <3>4. \A u \in Threads : Holding(u)' =>
               /\ mine'[u].idx < call' /\ mine'[u].idx < claim'.next
               /\ ran'[mine'[u].idx] = IF pc'[u] = "run" THEN 0 ELSE 1
        BY <1>0, <1>1, <1>2, <2>2, <2>3, <3>1, <3>3 DEF IInv, ItemsAccounted
      <3>5. \A u, v \in Threads :
               Holding(u)' /\ Holding(v)' /\ mine'[u].idx = mine'[v].idx => u = v
        BY <2>2, <3>1, <3>3 DEF IInv, ItemsAccounted
      <3>6. \A i \in Items : i >= claim'.next => ran'[i] = 0
        BY <1>0, <1>1, <1>2, <3>1 DEF IInv, ItemsAccounted, Items
      <3>7. \A i \in Items : i < call' /\ i < claim'.next =>
               \/ ran'[i] = 1
               \/ ran'[i] = 0 /\ \E u \in Threads : pc'[u] = "run" /\ mine'[u].idx = i
        <4> TAKE i \in Items
        <4> HAVE i < call' /\ i < claim'.next
        <4>1. i < call /\ i < claim.next
          BY <1>0, <1>1, <1>2, <1>4, <3>1 DEF IInv, ItemsAccounted, Items
        <4>2. \/ ran[i] = 1
              \/ ran[i] = 0 /\ \E u \in Threads : pc[u] = "run" /\ mine[u].idx = i
          BY <3>1, <4>1 DEF IInv, ItemsAccounted
        <4>3. QED
          BY <1>1, <2>2, <2>3, <4>2
      <3>8. call' >= 1 /\ claim'.total = call' /\ funcSet'
        BY <1>1, <1>2, <3>1 DEF IInv, ItemsAccounted
      <3> HIDE DEF Finished
      <3>9. QED
        BY <3>2, <3>4, <3>5, <3>6, <3>7, <3>8 DEF ItemsAccounted
    <2>7. QED
      BY <2>5, <2>6 DEF IInv
  <1>5. QED
    BY <1>3, <1>4

\* A thread at "run" or "count" holds an item of the dispatch in progress.
LEMMA HolderFacts ==
  ASSUME IInv, NEW t \in Threads, Holding(t)
  PROVE  /\ pc[Caller] \in Active /\ funcSet /\ call >= 1
         /\ mine[t].idx \in 0..(call - 1) /\ mine[t].idx \in Items
         /\ ran[mine[t].idx] = IF pc[t] = "run" THEN 0 ELSE 1
  <1>1. pc[Caller] \in Active
    BY DEF IInv, Quiescent
  <1>2. /\ mine[t].idx < call /\ funcSet /\ call >= 1
        /\ ran[mine[t].idx] = IF pc[t] = "run" THEN 0 ELSE 1
    BY <1>1 DEF IInv, ItemsAccounted
  <1>3. mine[t].idx \in Nat /\ call \in 0..MaxItems /\ MaxItems \in Nat
    BY PoolAssumption DEF PoolAssumption, IInv, TypeOK
  <1>4. mine[t].idx \in 0..(call - 1) /\ mine[t].idx \in Items
    BY <1>2, <1>3 DEF Items
  <1>5. QED
    BY <1>1, <1>2, <1>4

\* Moving thread t inside the item loop keeps the caller's phase.
LEMMA ItemPhase ==
  ASSUME IInv, NEW t \in Threads, Holding(t), NEW to, pc' = [pc EXCEPT ![t] = to],
         to \in {"count", "signal", "claim"}
  PROVE  /\ \A u \in Threads : pc'[u] = IF u = t THEN to ELSE pc[u]
         /\ pc[Caller] \in Active /\ pc'[Caller] \in Active /\ SamePhase
  <1>1. pc \in [Threads -> CallerPoints \cup WorkerPoints] /\ Caller \in Threads
    BY DEF IInv, TypeOK, Threads
  <1>2. pc[Caller] \in Active
    BY HolderFacts
  <1>3. \A u \in Threads : pc'[u] = IF u = t THEN to ELSE pc[u]
    BY <1>1
  <1>4. pc'[Caller] \in Active
    BY <1>1, <1>2, <1>3 DEF Active
  <1>5. SamePhase
    BY <1>2, <1>4 DEF SamePhase, Active, Outside, Tail, Setup
  <1>6. QED
    BY <1>2, <1>3, <1>4, <1>5

LEMMA RunIInv ==
  ASSUME IInv, TypeOK', NEW t \in Threads, RunItem(t)
  PROVE  IInv'
  <1> DEFINE k == mine[t].idx
  <1>0. /\ pc[t] = "run" /\ pc' = [pc EXCEPT ![t] = "count"] /\ Holding(t)
        /\ UNCHANGED <<claim, doneCount, funcSet, call, mine, seqIdx>>
    BY DEF RunItem, Go, shared, owned, Holding
  <1>1. /\ pc[Caller] \in Active /\ funcSet /\ k \in Items /\ ran[k] = 0
        /\ k \in 0..(call - 1)
    BY <1>0, HolderFacts
  <1>2. /\ \A u \in Threads : pc'[u] = IF u = t THEN "count" ELSE pc[u]
        /\ pc'[Caller] \in Active /\ SamePhase
    BY <1>0, ItemPhase
  <1>3. \A i \in Items : ran'[i] = IF i = k THEN 1 ELSE ran[i]
    BY <1>1 DEF RunItem, IInv, TypeOK
  <1>4. \A u \in Threads : Holding(u)' <=> Holding(u)
    BY <1>0, <1>2 DEF Holding
  <1>5. \A u \in Threads : u # t /\ Holding(u) => mine[u].idx # k /\ mine[u].idx \in Items
    BY <1>0, <1>1, HolderFacts DEF IInv, ItemsAccounted
  <1>6. Finished' = Finished
    <2>1. call' = call /\ mine' = mine
      BY <1>0
    <2>2. 0..(call - 1) \subseteq Items
      BY PoolAssumption DEF PoolAssumption, IInv, TypeOK, Items
    <2>3. \A i \in 0..(call - 1) :
             (/\ ran'[i] = 1
              /\ \A u \in Threads : pc'[u] = "count" => mine'[u].idx # i)
             <=>
             (/\ ran[i] = 1
              /\ \A u \in Threads : pc[u] = "count" => mine[u].idx # i)
      <3> TAKE i \in 0..(call - 1)
      <3>1. CASE i = k
        BY <1>0, <1>1, <1>2, <2>1, <3>1
      <3>2. CASE i # k
        BY <1>0, <1>2, <1>3, <2>1, <2>2, <3>2
      <3>3. QED
        BY <3>1, <3>2
    <2>4. QED
      BY <2>1, <2>3 DEF Finished
  <1> HIDE DEF k
  <1>7. \A u \in Threads : Holding(u)' =>
           /\ mine'[u].idx < call' /\ mine'[u].idx < claim'.next
           /\ ran'[mine'[u].idx] = IF pc'[u] = "run" THEN 0 ELSE 1
    <2> TAKE u \in Threads
    <2> HAVE Holding(u)'
    <2>1. /\ mine[u].idx < call /\ mine[u].idx < claim.next
          /\ ran[mine[u].idx] = IF pc[u] = "run" THEN 0 ELSE 1
      BY <1>1, <1>4 DEF IInv, ItemsAccounted
    <2>2. CASE u = t
      BY <1>0, <1>1, <1>2, <1>3, <2>1, <2>2 DEF k
    <2>3. CASE u # t
      BY <1>0, <1>2, <1>3, <1>4, <1>5, <2>1, <2>3
    <2>4. QED
      BY <2>2, <2>3
  <1>8. \A u, v \in Threads :
           Holding(u)' /\ Holding(v)' /\ mine'[u].idx = mine'[v].idx => u = v
    BY <1>0, <1>1, <1>4 DEF IInv, ItemsAccounted
  <1>9. \A i \in Items : i >= claim'.next => ran'[i] = 0
    <2>1. k < claim.next /\ claim.next \in Nat
      BY <1>0, <1>1 DEF IInv, ItemsAccounted, TypeOK, k
    <2>2. QED
      BY <1>0, <1>1, <1>3, <2>1 DEF IInv, ItemsAccounted, Items
  <1>10. \A i \in Items : i < call' /\ i < claim'.next =>
            \/ ran'[i] = 1
            \/ ran'[i] = 0 /\ \E u \in Threads : pc'[u] = "run" /\ mine'[u].idx = i
    <2> TAKE i \in Items
    <2> HAVE i < call' /\ i < claim'.next
    <2>1. CASE i = k
      BY <1>3, <2>1
    <2>2. CASE i # k
      <3>1. \/ ran[i] = 1
            \/ ran[i] = 0 /\ \E u \in Threads : pc[u] = "run" /\ mine[u].idx = i
        BY <1>0, <1>1 DEF IInv, ItemsAccounted
      <3>2. QED
        BY <1>0, <1>2, <1>3, <2>2, <3>1 DEF k
    <2>3. QED
      BY <2>1, <2>2
  <1>11. ItemsAccounted'
    <2>1. call' >= 1 /\ claim'.total = call' /\ funcSet' /\ doneCount' = Cardinality(Finished')
      BY <1>0, <1>1, <1>6 DEF IInv, ItemsAccounted
    <2> HIDE DEF Finished
    <2>2. QED
      BY <2>1, <1>7, <1>8, <1>9, <1>10 DEF ItemsAccounted
  <1>12. Quiescent' /\ CallerKnows'
    BY <1>0, <1>1, <1>2 DEF IInv, Quiescent, CallerKnows, SamePhase, Setup, Active, Outside, Tail
  <1>13. QED
    BY <1>11, <1>12 DEF IInv

LEMMA CountIInv ==
  ASSUME IInv, TypeOK', NEW t \in Threads, CountItem(t)
  PROVE  IInv'
  <1> DEFINE k == mine[t].idx
  <1>0. /\ pc[t] = "count" /\ Holding(t) /\ doneCount' = doneCount + 1
        /\ mine' = [mine EXCEPT ![t] = NoClaim]
        /\ UNCHANGED <<claim, funcSet, call, ran, seqIdx>>
    BY DEF CountItem, Go, owned, Holding
  <1>0a. PICK to \in {"signal", "claim"} : pc' = [pc EXCEPT ![t] = to]
    BY DEF CountItem, Go
  <1>1. /\ pc[Caller] \in Active /\ funcSet /\ k \in Items /\ ran[k] = 1
        /\ k \in 0..(call - 1)
    BY <1>0, HolderFacts
  <1>2. /\ \A u \in Threads : pc'[u] = IF u = t THEN to ELSE pc[u]
        /\ pc'[Caller] \in Active /\ SamePhase
    BY <1>0, <1>0a, ItemPhase
  <1>3. \A u \in Threads : Holding(u)' <=> Holding(u) /\ u # t
    BY <1>0, <1>2 DEF Holding
  <1>4. \A u \in Threads : u # t => mine'[u] = mine[u]
    BY <1>0 DEF IInv, TypeOK
  <1>5. \A u \in Threads : u # t /\ Holding(u) => mine[u].idx # k
    BY <1>0, <1>1 DEF IInv, ItemsAccounted
  <1>6. Finished' = Finished \cup {k} /\ k \notin Finished
    <2>1. \A i \in 0..(call - 1) :
             (/\ ran'[i] = 1
              /\ \A u \in Threads : pc'[u] = "count" => mine'[u].idx # i)
             <=>
             (\/ i = k
              \/ /\ ran[i] = 1
                 /\ \A u \in Threads : pc[u] = "count" => mine[u].idx # i)
      <3> TAKE i \in 0..(call - 1)
      <3>1. CASE i = k
        BY <1>0, <1>1, <1>2, <1>4, <1>5, <3>1 DEF Holding
      <3>2. CASE i # k
        BY <1>0, <1>2, <1>4, <3>2
      <3>3. QED
        BY <3>1, <3>2
    <2>2. k \notin Finished
      BY <1>0 DEF Finished
    <2>3. Finished' = {i \in 0..(call - 1) :
                         /\ ran'[i] = 1
                         /\ \A u \in Threads : pc'[u] = "count" => mine'[u].idx # i}
      BY <1>0 DEF Finished
    <2>4. QED
      BY <1>1, <2>1, <2>2, <2>3 DEF Finished
  <1>7. doneCount' = Cardinality(Finished')
    <2>1. IsFiniteSet(Finished) /\ doneCount = Cardinality(Finished)
      BY <1>1, FinishedFinite DEF IInv, ItemsAccounted
    <2>2. Cardinality(Finished \cup {k}) = Cardinality(Finished) + 1
      BY <1>6, <2>1, FS_AddElement
    <2>3. QED
      BY <1>0, <1>6, <2>1, <2>2
  <1> HIDE DEF k, Finished
  <1>8. \A u \in Threads : Holding(u)' =>
           /\ mine'[u].idx < call' /\ mine'[u].idx < claim'.next
           /\ ran'[mine'[u].idx] = IF pc'[u] = "run" THEN 0 ELSE 1
    BY <1>0, <1>1, <1>2, <1>3, <1>4 DEF IInv, ItemsAccounted
  <1>9. \A u, v \in Threads :
           Holding(u)' /\ Holding(v)' /\ mine'[u].idx = mine'[v].idx => u = v
    BY <1>0, <1>1, <1>3, <1>4 DEF IInv, ItemsAccounted
  <1>10. \A i \in Items : i < call' /\ i < claim'.next =>
            \/ ran'[i] = 1
            \/ ran'[i] = 0 /\ \E u \in Threads : pc'[u] = "run" /\ mine'[u].idx = i
    <2> TAKE i \in Items
    <2> HAVE i < call' /\ i < claim'.next
    <2>1. \/ ran[i] = 1
          \/ ran[i] = 0 /\ \E u \in Threads : pc[u] = "run" /\ mine[u].idx = i
      BY <1>0, <1>1 DEF IInv, ItemsAccounted
    <2>2. QED
      BY <1>0, <1>2, <1>4, <2>1
  <1>11. ItemsAccounted'
    <2>1. call' >= 1 /\ claim'.total = call' /\ funcSet'
          /\ \A i \in Items : i >= claim'.next => ran'[i] = 0
      BY <1>0, <1>1 DEF IInv, ItemsAccounted
    <2>2. QED
      BY <2>1, <1>7, <1>8, <1>9, <1>10 DEF ItemsAccounted
  <1>12. Quiescent' /\ CallerKnows'
    BY <1>0, <1>1, <1>2 DEF IInv, Quiescent, CallerKnows, SamePhase, Setup, Active, Outside, Tail
  <1>13. QED
    BY <1>11, <1>12 DEF IInv

LEMMA InitIInv == Init => IInv
  <1> SUFFICES ASSUME Init PROVE IInv
    OBVIOUS
  <1>1. Caller \in Threads /\ Caller \notin Workers /\ MaxItems \in Nat
    BY PoolAssumption DEF PoolAssumption, Threads
  <1>2. pc[Caller] = "idle" /\ \A t \in Threads : t # Caller => pc[t] = "ended"
    BY <1>1 DEF Init
  <1>3. TypeOK
    <2>1. /\ pc \in [Threads -> CallerPoints \cup WorkerPoints]
          /\ pc[Caller] \in CallerPoints
          /\ \A w \in Workers : pc[w] \in WorkerPoints
      BY <1>1, <1>2 DEF Init, CallerPoints, WorkerPoints, Threads
    <2>2. mine \in [Threads -> [total : 0..MaxItems, idx : Nat]] /\ ran \in [Items -> Nat]
      BY <1>1 DEF Init, NoClaim, NoneRan
    <2>3. claim \in [total : 0..MaxItems, next : Nat]
      BY <1>1 DEF Init
    <2>4. doneCount \in Nat /\ call \in 0..MaxItems /\ seqIdx \in 0..MaxItems
      BY <1>1 DEF Init
    <2>5. /\ running \in BOOLEAN /\ dispatch \in BOOLEAN /\ funcSet \in BOOLEAN
          /\ alive \in SUBSET Workers /\ respawn \in SUBSET Workers /\ asleep \in SUBSET Threads
      BY ZenonT(20) DEF Init
    <2>6. QED
      BY <2>1, <2>2, <2>3, <2>4, <2>5 DEF TypeOK
  <1>4. Quiescent /\ ItemsAccounted /\ CallerKnows
    BY <1>1, <1>2 DEF Init, Quiescent, ItemsAccounted, CallerKnows, Holding, Active, Outside,
                     Setup, Tail
  <1>5. QED
    BY <1>3, <1>4 DEF IInv

\* The steps only a worker takes happen while it holds no item.
LEMMA WorkerIInv ==
  ASSUME IInv, TypeOK', NEW w \in Workers, WorkerOwn(w)
  PROVE  IInv'
  <1>0. w \in Threads /\ w # Caller
    BY PoolAssumption DEF PoolAssumption, Threads
  <1> USE <1>0 DEF shared, owned
  <1>1. UNCHANGED <<claim, doneCount, funcSet, call, ran, mine, seqIdx>>
    BY DEF WorkerOwn, TestRunning, AwaitWork, RecheckRunning, AwaitIdle
  <1>2. CASE TestRunning(w)
    <2>1. \E to \in {"awaitWork", "ended"} : pc[w] = "test" /\ pc' = [pc EXCEPT ![w] = to]
      BY <1>2 DEF TestRunning, Go
    <2>2. QED
      BY <1>1, <2>1, QuietGo
  <1>3. CASE AwaitWork(w)
    <2>1. \/ pc[w] = "awaitWork" /\ pc' = [pc EXCEPT ![w] = "recheck"]
          \/ UNCHANGED pc
      BY <1>3 DEF AwaitWork, WaitFor
    <2>2. QED
      BY <1>1, <2>1, QuietGo, QuietPc
  <1>4. CASE RecheckRunning(w)
    <2>1. \/ pc[w] = "recheck" /\ pc' = [pc EXCEPT ![w] = "claim"]
          \/ pc[w] = "recheck" /\ pc' = [pc EXCEPT ![w] = "ended"]
      BY <1>4 DEF RecheckRunning, Go
    <2>2. QED
      BY <1>1, <2>1, QuietGo
  <1>5. CASE AwaitIdle(w)
    <2>1. \/ pc[w] = "awaitIdle" /\ pc' = [pc EXCEPT ![w] = "test"]
          \/ UNCHANGED pc
      BY <1>5 DEF AwaitIdle, WaitFor
    <2>2. QED
      BY <1>1, <2>1, QuietGo, QuietPc
  <1>6. QED
    BY <1>2, <1>3, <1>4, <1>5 DEF WorkerOwn

LEMMA StepIInv == IInv /\ [Next]_vars => IInv'
  <1> SUFFICES ASSUME IInv, [Next]_vars PROVE IInv'
    OBVIOUS
  <1>0. TypeOK'
    BY StepTypeOK DEF IInv
  <1>a. Caller \in Threads /\ pc \in [Threads -> CallerPoints \cup WorkerPoints]
    BY DEF Threads, IInv, TypeOK
  <1> USE <1>0, <1>a DEF shared, owned
  <1>1. ASSUME NEW S \in SUBSET Workers, Reprepare(S) PROVE IInv'
    <2>1. UNCHANGED <<claim, doneCount, funcSet, call, ran, mine, seqIdx>>
      BY <1>1 DEF Reprepare
    <2>2. \E to \in {"spawn", "stopRaise"} :
             pc[Caller] = "idle" /\ pc' = [pc EXCEPT ![Caller] = to]
      BY <1>1 DEF Reprepare
    <2>3. QED
      BY <2>1, <2>2, QuietGo, ZenonT(40) DEF Outside
  <1>2. ASSUME NEW n \in 1..MaxItems, ParallelFor(n) PROVE IInv'
    <2>1. PICK to \in {"seq", "setFunc"} : pc' = [pc EXCEPT ![Caller] = to]
      BY <1>2 DEF ParallelFor, Go
    <2>2. /\ pc[Caller] = "idle" /\ call' = n
          /\ UNCHANGED <<claim, doneCount, funcSet, ran, mine, seqIdx>>
      BY <1>2 DEF ParallelFor, Go
    <2>3. pc'[Caller] = to /\ \A t \in Threads : t # Caller => pc'[t] = pc[t]
      BY <2>1
    <2>4. Quiescent' /\ ItemsAccounted'
      BY <2>2, <2>3 DEF IInv, Quiescent, ItemsAccounted, Holding, Active
    <2>5. /\ call' >= 1 /\ ran' = NoneRan /\ seqIdx' = 0
          /\ \A i \in Items : ran'[i] = IF i < seqIdx' THEN 1 ELSE 0
      BY <2>2, PoolAssumption
         DEF PoolAssumption, IInv, CallerKnows, Outside, NoneRan, Items
    <2>6. seqIdx' <= call'
      BY <2>5 DEF TypeOK
    <2>7. CallerKnows'
      BY <2>3, <2>5, <2>6 DEF CallerKnows, Outside, Setup, Tail
    <2>8. QED
      BY <2>4, <2>7 DEF IInv
  <1>3. CASE CallerOwn
    BY <1>3, CallerIInv
  <1>4. ASSUME NEW w \in Workers, WorkerOwn(w) PROVE IInv'
    BY <1>4, WorkerIInv
  <1>5. ASSUME NEW t \in Threads, Claim(t) PROVE IInv'
    BY <1>5, ClaimIInv
  <1>6. ASSUME NEW t \in Threads, RunItem(t) PROVE IInv'
    BY <1>6, RunIInv
  <1>7. ASSUME NEW t \in Threads, CountItem(t) PROVE IInv'
    BY <1>7, CountIInv
  <1>8. ASSUME NEW t \in Threads, SignalDone(t) PROVE IInv'
    <2>1. /\ pc[t] = "signal" /\ pc' = [pc EXCEPT ![t] = "claim"]
          /\ UNCHANGED <<claim, doneCount, funcSet, call, ran, mine, seqIdx>>
      BY <1>8 DEF SignalDone, Go
    <2>2. "signal" \in Active /\ "claim" \in Active
      BY DEF Active
    <2>3. "signal" \notin {"run", "count"} /\ "claim" \notin {"run", "count"}
      OBVIOUS
    <2>4. QED
      BY <1>0, <1>8, <2>1, <2>2, <2>3, QuietGo
  <1>9. ASSUME NEW t \in Threads, SpuriousWake(t) PROVE IInv'
    <2>1. UNCHANGED <<claim, doneCount, funcSet, call, ran, mine, seqIdx, pc>>
      BY <1>9 DEF SpuriousWake
    <2>2. QED
      BY <2>1, QuietPc
  <1>10. CASE UNCHANGED vars
    BY <1>10, QuietPc DEF vars
  <1>11. QED
    BY NextCases, <1>1, <1>2, <1>3, <1>4, <1>5, <1>6, <1>7, <1>8, <1>9, <1>10

\* The bookkeeping of stragglers, claims and counts holds throughout.
THEOREM Invariance == Spec => []IInv
  BY InitIInv, StepIInv, PTL DEF Spec, Safety

\* TypeOK: every variable keeps its type, whatever the number of workers.
THEOREM TypeCorrect == Spec => []TypeOK
  <1>1. IInv => TypeOK
    BY DEF IInv
  <1>2. QED
    BY Invariance, <1>1, PTL

\* NoFunctionRace: while the caller writes currentFunc, or is outside
\* parallelFor, no worker, late ones included, stands before calling it.
THEOREM FunctionNotRaced == Spec => []NoFunctionRace
  <1>1. IInv => NoFunctionRace
    BY PoolAssumption
       DEF PoolAssumption, IInv, Quiescent, NoFunctionRace, Holding, Active, Threads
  <1>2. QED
    BY Invariance, <1>1, PTL

-------------------------------------------------------------------------------
(* The pool implements ForkJoin, as far as safety goes *)

\* The caller returns from the fallback loop or from a dispatch.
LEMMA CallerReturns ==
  ASSUME IInv, pc[Caller] \in {"seq", "clearFunc"},
         pc[Caller] = "seq" => seqIdx >= call,
         call' = 0, ran' = NoneRan
  PROVE  FJ!Return
  <1>1. call \in 0..MaxItems /\ MaxItems \in Nat /\ seqIdx \in Nat
    BY PoolAssumption DEF PoolAssumption, IInv, TypeOK
  <1>2. call >= 1 /\ \A i \in Items : i < call => ran[i] = 1
    <2>1. CASE pc[Caller] = "seq"
      BY <1>1, <2>1 DEF IInv, CallerKnows, Items
    <2>2. CASE pc[Caller] = "clearFunc"
      BY <2>2 DEF IInv, CallerKnows, Tail
    <2>3. QED
      BY <2>1, <2>2
  <1>3. FJ!Items = Items /\ FJ!NoneRan = NoneRan
    BY DEF FJ!Items, Items, FJ!NoneRan, NoneRan
  <1>4. QED
    BY <1>1, <1>2, <1>3 DEF FJ!Return

\* Every step of the pool is a step of ForkJoin or changes nothing it sees.
LEMMA StepImplements == IInv /\ [Next]_vars => [FJ!Next]_(FJ!fjVars)
  <1> SUFFICES ASSUME IInv, [Next]_vars PROVE FJ!Next \/ (call' = call /\ ran' = ran)
    BY DEF FJ!fjVars
  <1>0. /\ call \in 0..MaxItems /\ MaxItems \in Nat /\ seqIdx \in Nat
        /\ ran \in [Items -> Nat] /\ FJ!Items = Items
    BY PoolAssumption DEF PoolAssumption, IInv, TypeOK, Items, FJ!Items
  <1> USE DEF shared, owned
  <1>1. ASSUME NEW S \in SUBSET Workers, Reprepare(S) PROVE UNCHANGED <<call, ran>>
    BY <1>1 DEF Reprepare
  <1>2. ASSUME NEW n \in 1..MaxItems, ParallelFor(n) PROVE FJ!Next
    <2>1. call = 0 /\ call' = n /\ UNCHANGED ran
      BY <1>2 DEF ParallelFor, Go, IInv, CallerKnows, Outside
    <2>2. FJ!Start(n)
      BY <2>1 DEF FJ!Start
    <2>3. QED
      BY <2>2 DEF FJ!Next
  <1>3. CASE CallerOwn
    <2>1. CASE SeqItem
      <3>1. /\ seqIdx \in Items /\ seqIdx < call /\ ran[seqIdx] = 0
            /\ ran' = [ran EXCEPT ![seqIdx] = @ + 1] /\ call' = call
        BY <1>0, <2>1 DEF SeqItem, IInv, CallerKnows, Items
      <3>2. ran' = [ran EXCEPT ![seqIdx] = 1]
        BY <1>0, <3>1
      <3>3. FJ!Run(seqIdx)
        BY <3>1, <3>2 DEF FJ!Run
      <3>4. QED
        BY <1>0, <3>1, <3>3 DEF FJ!Next
    <2>2. CASE SeqReturn
      <3>1. FJ!Return
        BY <2>2, CallerReturns DEF SeqReturn, Go
      <3>2. QED
        BY <3>1 DEF FJ!Next
    <2>3. CASE ClearFunc
      <3>1. FJ!Return
        BY <2>3, CallerReturns DEF ClearFunc, Go
      <3>2. QED
        BY <3>1 DEF FJ!Next
    <2>4. CASE ~(SeqItem \/ SeqReturn \/ ClearFunc)
      BY <1>3, <2>4
         DEF CallerOwn, StopRaise, StopNotify, Join, Spawn, SetFunc, ResetDone, PublishClaim,
             RaiseDispatch, NotifyWork, AwaitDone, LowerDispatch, NotifyIdle
    <2>5. QED
      BY <2>1, <2>2, <2>3, <2>4
  <1>4. ASSUME NEW w \in Workers, WorkerOwn(w) PROVE UNCHANGED <<call, ran>>
    BY <1>4 DEF WorkerOwn, TestRunning, AwaitWork, RecheckRunning, AwaitIdle
  <1>5. ASSUME NEW t \in Threads, Claim(t) \/ CountItem(t) \/ SignalDone(t) \/ SpuriousWake(t)
        PROVE  UNCHANGED <<call, ran>>
    BY <1>5 DEF Claim, CountItem, SignalDone, SpuriousWake
  <1>6. ASSUME NEW t \in Threads, RunItem(t) PROVE FJ!Next
    <2> DEFINE k == mine[t].idx
    <2>1. Holding(t) /\ pc[t] = "run"
      BY <1>6 DEF RunItem, Go, Holding
    <2>2. funcSet /\ k \in Items /\ k \in 0..(call - 1) /\ ran[k] = 0
      BY <2>1, HolderFacts
    <2>3. ran' = [ran EXCEPT ![k] = @ + 1] /\ call' = call
      BY <1>6, <2>2 DEF RunItem
    <2> HIDE DEF k
    <2>4. ran' = [ran EXCEPT ![k] = 1] /\ k < call
      BY <1>0, <2>2, <2>3
    <2>5. FJ!Run(k)
      BY <2>2, <2>3, <2>4 DEF FJ!Run
    <2>6. QED
      BY <1>0, <2>2, <2>5 DEF FJ!Next
  <1>7. CASE UNCHANGED vars
    BY <1>7 DEF vars
  <1>8. QED
    BY NextCases, <1>1, <1>2, <1>3, <1>4, <1>5, <1>6, <1>7

\* parallelFor runs every item of a call exactly once, and returns only after
\* the last of them: each step of the pool is one ForkJoin allows.
THEOREM ExactlyOnce == Spec => FJ!Safety
  <1>1. Init => FJ!Init
    BY DEF Init, FJ!Init, NoneRan, FJ!NoneRan, Items, FJ!Items
  <1>2. QED
    BY <1>1, Invariance, StepImplements, PTL DEF Spec, Safety, FJ!Safety

-------------------------------------------------------------------------------
(* No lost wake-up *)

LEMMA CallerWakes ==
  ASSUME WInv, CallerOwn
  PROVE  Flags' /\ NoLostWakeup'
  <1>0. /\ pc \in [Threads -> CallerPoints \cup WorkerPoints] /\ asleep \subseteq Threads
        /\ Caller \in Threads /\ Caller \notin Workers /\ Workers \subseteq Threads
        /\ alive \subseteq Workers /\ respawn \subseteq Workers
    BY PoolAssumption DEF PoolAssumption, WInv, TypeOK, Threads
  <1> USE <1>0 DEF shared, owned
  <1>1. CASE StopRaise
    <2>1. pc[Caller] = "stopRaise" /\ pc' = [pc EXCEPT ![Caller] = "stopNotify"]
      BY <1>1 DEF StopRaise, Go
    <2>2. pc'[Caller] = "stopNotify" /\ \A w \in Workers : pc'[w] = pc[w]
      BY <2>1
    <2>3. QED
      BY <1>1, <2>1, <2>2 DEF StopRaise, WInv, Flags, NoLostWakeup, Setup, Active, Tail
  <1>2. CASE StopNotify
    <2>1. pc[Caller] = "stopNotify" /\ pc' = [pc EXCEPT ![Caller] = "join"]
      BY <1>2 DEF StopNotify, Go
    <2>2. pc'[Caller] = "join" /\ \A w \in Workers : pc'[w] = pc[w]
      BY <2>1
    <2>3. QED
      BY <1>2, <2>1, <2>2 DEF StopNotify, WInv, Flags, NoLostWakeup, Setup, Active, Tail
  <1>3. CASE SeqReturn
    <2>1. pc[Caller] = "seq" /\ pc' = [pc EXCEPT ![Caller] = "idle"]
      BY <1>3 DEF SeqReturn, Go
    <2>2. pc'[Caller] = "idle" /\ \A w \in Workers : pc'[w] = pc[w]
      BY <2>1
    <2>3. QED
      BY <1>3, <2>1, <2>2 DEF SeqReturn, WInv, Flags, NoLostWakeup, Setup, Active, Tail
  <1>4. CASE SetFunc
    <2>1. pc[Caller] = "setFunc" /\ pc' = [pc EXCEPT ![Caller] = "resetDone"]
      BY <1>4 DEF SetFunc, Go
    <2>2. pc'[Caller] = "resetDone" /\ \A w \in Workers : pc'[w] = pc[w]
      BY <2>1
    <2>3. QED
      BY <1>4, <2>1, <2>2 DEF SetFunc, WInv, Flags, NoLostWakeup, Setup, Active, Tail
  <1>5. CASE ResetDone
    <2>1. pc[Caller] = "resetDone" /\ pc' = [pc EXCEPT ![Caller] = "publish"]
      BY <1>5 DEF ResetDone, Go
    <2>2. pc'[Caller] = "publish" /\ \A w \in Workers : pc'[w] = pc[w]
      BY <2>1
    <2>3. QED
      BY <1>5, <2>1, <2>2 DEF ResetDone, WInv, Flags, NoLostWakeup, Setup, Active, Tail
  <1>6. CASE PublishClaim
    <2>1. pc[Caller] = "publish" /\ pc' = [pc EXCEPT ![Caller] = "raise"]
      BY <1>6 DEF PublishClaim, Go
    <2>2. pc'[Caller] = "raise" /\ \A w \in Workers : pc'[w] = pc[w]
      BY <2>1
    <2>3. QED
      BY <1>6, <2>1, <2>2 DEF PublishClaim, WInv, Flags, NoLostWakeup, Setup, Active, Tail
  <1>7. CASE RaiseDispatch
    <2>1. pc[Caller] = "raise" /\ pc' = [pc EXCEPT ![Caller] = "notifyWork"]
      BY <1>7 DEF RaiseDispatch, Go
    <2>2. pc'[Caller] = "notifyWork" /\ \A w \in Workers : pc'[w] = pc[w]
      BY <2>1
    <2>3. QED
      BY <1>7, <2>1, <2>2 DEF RaiseDispatch, WInv, Flags, NoLostWakeup, Setup, Active, Tail
  <1>8. CASE NotifyWork
    <2>1. pc[Caller] = "notifyWork" /\ pc' = [pc EXCEPT ![Caller] = "claim"]
      BY <1>8 DEF NotifyWork, Go
    <2>2. pc'[Caller] = "claim" /\ \A w \in Workers : pc'[w] = pc[w]
      BY <2>1
    <2>3. QED
      BY <1>8, <2>1, <2>2 DEF NotifyWork, WInv, Flags, NoLostWakeup, Setup, Active, Tail
  <1>9. CASE LowerDispatch
    <2>1. pc[Caller] = "lower" /\ pc' = [pc EXCEPT ![Caller] = "notifyIdle"]
      BY <1>9 DEF LowerDispatch, Go
    <2>2. pc'[Caller] = "notifyIdle" /\ \A w \in Workers : pc'[w] = pc[w]
      BY <2>1
    <2>3. QED
      BY <1>9, <2>1, <2>2 DEF LowerDispatch, WInv, Flags, NoLostWakeup, Setup, Active, Tail
  <1>10. CASE NotifyIdle
    <2>1. pc[Caller] = "notifyIdle" /\ pc' = [pc EXCEPT ![Caller] = "clearFunc"]
      BY <1>10 DEF NotifyIdle, Go
    <2>2. pc'[Caller] = "clearFunc" /\ \A w \in Workers : pc'[w] = pc[w]
      BY <2>1
    <2>3. QED
      BY <1>10, <2>1, <2>2 DEF NotifyIdle, WInv, Flags, NoLostWakeup, Setup, Active, Tail
  <1>11. CASE ClearFunc
    <2>1. pc[Caller] = "clearFunc" /\ pc' = [pc EXCEPT ![Caller] = "idle"]
      BY <1>11 DEF ClearFunc, Go
    <2>2. pc'[Caller] = "idle" /\ \A w \in Workers : pc'[w] = pc[w]
      BY <2>1
    <2>3. QED
      BY <1>11, <2>1, <2>2 DEF ClearFunc, WInv, Flags, NoLostWakeup, Setup, Active, Tail
  <1>12. CASE Join
    <2>1. PICK to \in {"idle", "spawn"} : pc[Caller] = "join" /\ pc' = [pc EXCEPT ![Caller] = to]
      BY <1>12 DEF Join, Go
    <2>2. pc'[Caller] = to /\ \A w \in Workers : pc'[w] = pc[w]
      BY <2>1
    <2>3. \A w \in Workers : pc[w] = "ended" /\ w \notin asleep
      BY <1>12 DEF Join, WInv, Flags
    <2>4. QED
      BY <1>12, <2>1, <2>2, <2>3 DEF Join, WInv, Flags, NoLostWakeup, Setup, Active, Tail
  <1>13. CASE Spawn
    <2>1. pc[Caller] = "spawn" /\ pc'[Caller] = "idle"
      BY <1>13 DEF Spawn
    <2>2. \A w \in Workers : pc[w] = "ended" /\ w \notin asleep
      BY <2>1 DEF WInv, Flags
    <2>3. \A w \in Workers : w \notin respawn => pc'[w] = "ended"
      BY <1>13, <2>2 DEF Spawn
    <2>4. QED
      BY <1>13, <2>1, <2>2, <2>3 DEF Spawn, WInv, Flags, NoLostWakeup, Setup, Active, Tail
  <1>14. CASE SeqItem
    BY <1>14 DEF SeqItem, WInv, Flags, NoLostWakeup
  <1>15. CASE AwaitDone
    <2>1. CASE doneCount >= call
      <3>1. pc[Caller] = "awaitDone" /\ pc' = [pc EXCEPT ![Caller] = "lower"]
        BY <1>15, <2>1 DEF AwaitDone, WaitFor
      <3>2. pc'[Caller] = "lower" /\ \A w \in Workers : pc'[w] = pc[w]
        BY <3>1
      <3>3. QED
        BY <1>15, <2>1, <3>1, <3>2
           DEF AwaitDone, WaitFor, WInv, Flags, NoLostWakeup, Setup, Active, Tail
    <2>2. CASE ~(doneCount >= call)
      BY <1>15, <2>2 DEF AwaitDone, WaitFor, WInv, Flags, NoLostWakeup
    <2>3. QED
      BY <2>1, <2>2
  <1>16. QED
    BY <1>1, <1>2, <1>3, <1>4, <1>5, <1>6, <1>7, <1>8, <1>9, <1>10, <1>11, <1>12, <1>13, <1>14, <1>15 DEF CallerOwn

LEMMA StepWInv == WInv /\ [Next]_vars => WInv'
  <1> SUFFICES ASSUME WInv, [Next]_vars PROVE Flags' /\ NoLostWakeup'
    BY StepTypeOK DEF WInv
  <1>0. /\ pc \in [Threads -> CallerPoints \cup WorkerPoints] /\ asleep \subseteq Threads
        /\ Caller \in Threads /\ Caller \notin Workers /\ Workers \subseteq Threads
        /\ alive \subseteq Workers
    BY PoolAssumption DEF PoolAssumption, WInv, TypeOK, Threads
  <1> USE <1>0 DEF shared, owned
  <1>1. ASSUME NEW S \in SUBSET Workers, Reprepare(S) PROVE Flags' /\ NoLostWakeup'
    <2>1. PICK to \in {"spawn", "stopRaise"} :
            /\ pc[Caller] = "idle" /\ pc' = [pc EXCEPT ![Caller] = to]
            /\ IF alive = {} THEN to = "spawn" /\ UNCHANGED running
                             ELSE to = "stopRaise" /\ running' = FALSE
      BY <1>1 DEF Reprepare
    <2>2. pc'[Caller] = to /\ \A w \in Workers : pc'[w] = pc[w]
      BY <2>1
    <2>3. QED
      BY <1>1, <2>1, <2>2 DEF Reprepare, WInv, Flags, NoLostWakeup, Setup, Active, Tail
  <1>2. ASSUME NEW n \in 1..MaxItems, ParallelFor(n) PROVE Flags' /\ NoLostWakeup'
    <2>1. PICK to \in {"seq", "setFunc"} :
            /\ pc[Caller] = "idle" /\ pc' = [pc EXCEPT ![Caller] = to]
            /\ to = "setFunc" => alive # {}
      BY <1>2 DEF ParallelFor, Go
    <2>2. pc'[Caller] = to /\ \A w \in Workers : pc'[w] = pc[w]
      BY <2>1
    <2>3. QED
      BY <1>2, <2>1, <2>2 DEF ParallelFor, WInv, Flags, NoLostWakeup, Setup, Active, Tail
  <1>3. CASE CallerOwn
    BY <1>3, CallerWakes
  <1>4. ASSUME NEW w \in Workers, WorkerOwn(w) PROVE Flags' /\ NoLostWakeup'
    <2>1. CASE TestRunning(w)
      BY <2>1 DEF TestRunning, Go, WInv, Flags, NoLostWakeup
    <2>2. CASE AwaitWork(w)
      BY <2>2 DEF AwaitWork, WaitFor, WInv, Flags, NoLostWakeup
    <2>3. CASE RecheckRunning(w)
      BY <2>3 DEF RecheckRunning, Go, WInv, Flags, NoLostWakeup
    <2>4. CASE AwaitIdle(w)
      BY <2>4 DEF AwaitIdle, WaitFor, WInv, Flags, NoLostWakeup
    <2>5. QED
      BY <1>4, <2>1, <2>2, <2>3, <2>4 DEF WorkerOwn
  <1>5. ASSUME NEW t \in Threads, ExecuteItems(t) PROVE Flags' /\ NoLostWakeup'
    <2>1. PICK from \in {"claim", "run", "count", "signal"},
               to \in {"run", "count", "signal", "claim", "awaitDone", "awaitIdle"} :
            /\ Go(t, from, to)
            /\ t = Caller => to # "awaitIdle"
      BY <1>5 DEF ExecuteItems, Claim, RunItem, CountItem, SignalDone
    <2>2. /\ asleep' \subseteq asleep
          /\ UNCHANGED <<running, dispatch, alive>>
      BY <1>5 DEF ExecuteItems, Claim, RunItem, CountItem, SignalDone
    <2>3. pc[t] = from /\ t \notin asleep /\ \A u \in Threads : pc'[u] = IF u = t THEN to ELSE pc[u]
      BY <2>1 DEF Go
    <2>4. CASE t = Caller
      BY <2>1, <2>2, <2>3, <2>4 DEF WInv, Flags, NoLostWakeup, Setup, Active, Tail
    <2>5. CASE t # Caller
      BY <2>1, <2>2, <2>3, <2>5 DEF WInv, Flags, NoLostWakeup, Threads
    <2>6. QED
      BY <2>4, <2>5
  <1>6. ASSUME NEW t \in Threads, SpuriousWake(t) PROVE Flags' /\ NoLostWakeup'
    BY <1>6 DEF SpuriousWake, WInv, Flags, NoLostWakeup
  <1>7. CASE UNCHANGED vars
    BY <1>7 DEF vars, WInv, Flags, NoLostWakeup
  <1>8. QED
    BY NextCases, <1>1, <1>2, <1>3, <1>4, <1>5, <1>6, <1>7 DEF ExecuteItems

\* NoLostWakeup: a worker sleeps through a raised or lowered dispatch flag, or
\* through a shutdown, only while the notify that wakes it is still to come.
THEOREM WakeupsArrive == Spec => []NoLostWakeup
  <1>1. Init => WInv
    <2>1. Init => TypeOK
      BY InitIInv DEF IInv
    <2>2. Init => Flags /\ NoLostWakeup
      BY PoolAssumption DEF PoolAssumption, Init, Flags, NoLostWakeup, Setup, Active, Tail, Threads
    <2>3. QED
      BY <2>1, <2>2 DEF WInv
  <1>2. WInv => NoLostWakeup
    BY DEF WInv
  <1>3. QED
    BY <1>1, <1>2, StepWInv, PTL DEF Spec, Safety

===============================================================================
