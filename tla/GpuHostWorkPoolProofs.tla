------------------------ MODULE GpuHostWorkPoolProofs ------------------------
(***************************************************************************)
(* For any finite set of workers and any item count: the barrier counts    *)
(* exactly the workers that may still touch the payload of a dispatch, so  *)
(* none is inside executeItems while the caller writes it; every item of a *)
(* call runs exactly once and before the call returns; and nobody sleeps   *)
(* through a wake-up.                                                      *)
(***************************************************************************)
EXTENDS GpuHostWorkPool, FiniteSetTheorems, TLAPS

\* Where the caller stands between the bump of dispatchGen and the end of its
\* wait, before the bump, in shutdown(), and outside parallelFor.
Dispatched == {"notifyWork", "readTotal", "claim", "run", "awaitQuiet"}
Setup      == {"setFunc", "setTotal", "resetNext", "setRemaining", "bump"}
Stopping   == {"stopBump", "stopNotify", "join"}
Outside    == {"idle", "spawn"} \cup Stopping

\* Where a worker stands inside executeItems, up to its fetch_sub.
Inside == {"readTotal", "claim", "run", "leave"}

\* The workers that have not yet served the current generation.
ToLeave ==
    {w \in alive : \/ myGen[w] # gen
                   \/ pc[w] \in {"recheck", "readTotal", "claim", "run", "leave"}}

-------------------------------------------------------------------------------
(* The inductive invariants *)

\* When the pool runs, and which threads exist.
Lifecycle ==
    /\ \A w \in Workers : w \notin alive => pc[w] = "ended"
    /\ pc[Caller] = "spawn" => alive = {}
    /\ pc[Caller] \in Setup \cup Dispatched \cup {"clearFunc"} => alive # {}
    /\ pc[Caller] \in Stopping => ~running
    /\ alive # {} /\ pc[Caller] \notin Stopping => running

\* Between dispatches every worker has served the current generation; during
\* one, whoever works on it has the generation as its own.
Served ==
    /\ pc[Caller] \notin Dispatched =>
          \A w \in Workers : pc[w] \notin Inside
    /\ pc[Caller] \notin Dispatched \cup Stopping =>
          \A w \in alive : myGen[w] = gen /\ pc[w] # "recheck"
    /\ pc[Caller] \in Dispatched =>
          \A w \in alive : pc[w] \in Inside \cup {"recheck"} => myGen[w] = gen

\* What workersRemaining holds.
Counted ==
    /\ pc[Caller] = "bump" => remaining = Cardinality(alive)
    /\ pc[Caller] \in Dispatched => remaining = Cardinality(ToLeave)

WInv == TypeOK /\ Lifecycle /\ Served /\ Counted

\* During a dispatch: who holds which item, what has run.
ItemsAccounted ==
    pc[Caller] \in Dispatched =>
        /\ call >= 1 /\ totalItems = call /\ funcSet
        /\ \A t \in Threads : pc[t] \in {"claim", "run"} => total[t] = call
        /\ \A t \in Threads : pc[t] = "run" =>
              idx[t] < call /\ idx[t] < nextItem /\ ran[idx[t]] = 0
        /\ \A t, u \in Threads :
              pc[t] = "run" /\ pc[u] = "run" /\ idx[t] = idx[u] => t = u
        /\ \A i \in Items : i >= nextItem => ran[i] = 0
        /\ \A i \in Items : i < call /\ i < nextItem =>
              \/ ran[i] = 1
              \/ ran[i] = 0 /\ \E t \in Threads : pc[t] = "run" /\ idx[t] = i
        /\ pc[Caller] = "awaitQuiet" => nextItem >= call

\* What the caller knows at each other point of a call.
CallerKnows ==
    /\ pc[Caller] \in Outside => call = 0 /\ ran = NoneRan
    /\ pc[Caller] # "seq" => seqIdx = 0
    /\ pc[Caller] \in Setup => call >= 1 /\ ran = NoneRan
    /\ pc[Caller] \in Setup \ {"setFunc"} => funcSet
    /\ pc[Caller] \in {"resetNext", "setRemaining", "bump"} => totalItems = call
    /\ pc[Caller] \in {"setRemaining", "bump"} => nextItem = 0
    /\ pc[Caller] = "clearFunc" =>
         call >= 1 /\ \A i \in Items : i < call => ran[i] = 1
    /\ pc[Caller] = "seq" =>
         call >= 1 /\ seqIdx <= call
         /\ \A i \in Items : ran[i] = IF i < seqIdx THEN 1 ELSE 0

IInv == WInv /\ ItemsAccounted /\ CallerKnows

\* NoLostWakeup: a worker sleeps through a new generation or a shutdown only
\* while the notify that wakes it is still to come, and the caller sleeps on
\* the barrier only while a worker has still to leave or to signal.
NoLostWakeup ==
    /\ \A w \in Workers : w \in asleep =>
          /\ pc[w] = "park"
          /\ \/ running /\ myGen[w] = gen
             \/ pc[Caller] \in {"notifyWork", "stopBump", "stopNotify"}
    /\ Caller \in asleep =>
          /\ pc[Caller] = "awaitQuiet"
          /\ remaining > 0 \/ \E w \in Workers : pc[w] = "signal"

\* The steps only the caller takes inside its calls.
CallerOwn ==
    \/ StopBump \/ StopNotify \/ Join \/ Spawn
    \/ SeqItem \/ SeqReturn
    \/ SetFunc \/ SetTotal \/ ResetNext \/ SetRemaining \/ BumpGen \/ NotifyWork
    \/ AwaitQuiet \/ ClearFunc

\* The steps only a worker takes.
WorkerOwn(w) ==
    TestRunning(w) \/ Park(w) \/ RecheckRunning(w) \/ LeaveItems(w) \/ SignalQuiet(w)

\* Every step of the pool is one of these.
LEMMA NextCases ==
  Next <=> \/ \E S \in SUBSET Workers : Reprepare(S)
           \/ \E n \in 1..MaxItems : ParallelFor(n)
           \/ CallerOwn
           \/ \E w \in Workers : WorkerOwn(w)
           \/ \E t \in Threads : ReadTotal(t)
           \/ \E t \in Threads : Claim(t)
           \/ \E t \in Threads : RunItem(t)
           \/ \E t \in Threads : SpuriousWake(t)
  BY DEF Next, CallerStep, WorkerStep, ExecuteItems, CallerOwn, WorkerOwn, Threads

-------------------------------------------------------------------------------
(* Type correctness *)

\* One more run of an item keeps the type of the history.
LEMMA RanType ==
  ASSUME NEW f \in [Items -> Nat], NEW i
  PROVE  [f EXCEPT ![i] = @ + 1] \in [Items -> Nat]
  <1> DEFINE g == [f EXCEPT ![i] = @ + 1]
  <1>1. ASSUME NEW j \in Items PROVE g[j] \in Nat
    <2>1. f[j] \in Nat /\ f[j] + 1 \in Nat
      OBVIOUS
    <2>2. g[j] = f[j] + 1 \/ g[j] = f[j]
      OBVIOUS
    <2>3. QED
      BY <2>1, <2>2
  <1>2. g = [j \in Items |-> g[j]]
    OBVIOUS
  <1> HIDE DEF g
  <1>3. g \in [Items -> Nat]
    BY <1>1, <1>2
  <1>4. QED
    BY <1>3 DEF g

\* A thread moves: the others stand where they stood.
LEMMA GoMoves ==
  ASSUME TypeOK, NEW t \in Threads, NEW from, NEW to, Go(t, from, to)
  PROVE  /\ pc[t] = from /\ t \notin asleep
         /\ \A u \in Threads : pc'[u] = IF u = t THEN to ELSE pc[u]
  BY DEF TypeOK, Go

\* A thread moves to a point of its own program.
LEMMA GoType ==
  ASSUME TypeOK, NEW t \in Threads, NEW from, NEW to, Go(t, from, to),
         to \in IF t = Caller THEN CallerPoints ELSE WorkerPoints
  PROVE  /\ pc' \in [Threads -> CallerPoints \cup WorkerPoints]
         /\ pc'[Caller] \in CallerPoints
         /\ \A w \in Workers : pc'[w] \in WorkerPoints
  BY PoolAssumption DEF PoolAssumption, TypeOK, Go, Threads

\* Cardinalities of sets of live workers.
LEMMA WorkerSets ==
  ASSUME TypeOK
  PROVE  \A S \in SUBSET alive :
            /\ IsFiniteSet(S)
            /\ Cardinality(S) \in 0..Cardinality(Workers)
  <1> TAKE S \in SUBSET alive
  <1>1. S \subseteq Workers /\ IsFiniteSet(Workers)
    BY PoolAssumption DEF PoolAssumption, TypeOK
  <1>2. /\ IsFiniteSet(S) /\ Cardinality(S) <= Cardinality(Workers)
        /\ Cardinality(S) \in Nat /\ Cardinality(Workers) \in Nat
    BY <1>1, FS_Subset, FS_CardinalityType
  <1>3. QED
    BY <1>2

LEMMA CallerTypeOK == TypeOK /\ CallerOwn => TypeOK'
  <1> SUFFICES ASSUME TypeOK, CallerOwn PROVE TypeOK'
    OBVIOUS
  <1>0. Caller \in Threads /\ Caller \notin Workers /\ MaxItems \in Nat
    BY PoolAssumption DEF PoolAssumption, Threads
  <1> USE <1>0 DEF items, locals, owned
  <1>1. CASE StopBump
    <2>1. Go(Caller, "stopBump", "stopNotify")
      BY <1>1 DEF StopBump
    <2>2. /\ pc' \in [Threads -> CallerPoints \cup WorkerPoints]
          /\ pc'[Caller] \in CallerPoints
          /\ \A w \in Workers : pc'[w] \in WorkerPoints
      BY <2>1, GoType DEF CallerPoints
    <2>3. QED
      BY <1>1, <2>2 DEF StopBump, TypeOK
  <1>2. CASE StopNotify
    <2>1. Go(Caller, "stopNotify", "join")
      BY <1>2 DEF StopNotify
    <2>2. /\ pc' \in [Threads -> CallerPoints \cup WorkerPoints]
          /\ pc'[Caller] \in CallerPoints
          /\ \A w \in Workers : pc'[w] \in WorkerPoints
      BY <2>1, GoType DEF CallerPoints
    <2>3. QED
      BY <1>2, <2>2 DEF StopNotify, TypeOK
  <1>3. CASE SeqReturn
    <2>1. Go(Caller, "seq", "idle")
      BY <1>3 DEF SeqReturn
    <2>2. /\ pc' \in [Threads -> CallerPoints \cup WorkerPoints]
          /\ pc'[Caller] \in CallerPoints
          /\ \A w \in Workers : pc'[w] \in WorkerPoints
      BY <2>1, GoType DEF CallerPoints
    <2>3. QED
      BY <1>3, <2>2 DEF SeqReturn, TypeOK, NoneRan
  <1>4. CASE SetFunc
    <2>1. Go(Caller, "setFunc", "setTotal")
      BY <1>4 DEF SetFunc
    <2>2. /\ pc' \in [Threads -> CallerPoints \cup WorkerPoints]
          /\ pc'[Caller] \in CallerPoints
          /\ \A w \in Workers : pc'[w] \in WorkerPoints
      BY <2>1, GoType DEF CallerPoints
    <2>3. QED
      BY <1>4, <2>2 DEF SetFunc, TypeOK
  <1>5. CASE SetTotal
    <2>1. Go(Caller, "setTotal", "resetNext")
      BY <1>5 DEF SetTotal
    <2>2. /\ pc' \in [Threads -> CallerPoints \cup WorkerPoints]
          /\ pc'[Caller] \in CallerPoints
          /\ \A w \in Workers : pc'[w] \in WorkerPoints
      BY <2>1, GoType DEF CallerPoints
    <2>3. QED
      BY <1>5, <2>2 DEF SetTotal, TypeOK
  <1>6. CASE ResetNext
    <2>1. Go(Caller, "resetNext", "setRemaining")
      BY <1>6 DEF ResetNext
    <2>2. /\ pc' \in [Threads -> CallerPoints \cup WorkerPoints]
          /\ pc'[Caller] \in CallerPoints
          /\ \A w \in Workers : pc'[w] \in WorkerPoints
      BY <2>1, GoType DEF CallerPoints
    <2>3. QED
      BY <1>6, <2>2 DEF ResetNext, TypeOK
  <1>7. CASE SetRemaining
    <2>1. Go(Caller, "setRemaining", "bump")
      BY <1>7 DEF SetRemaining
    <2>2. /\ pc' \in [Threads -> CallerPoints \cup WorkerPoints]
          /\ pc'[Caller] \in CallerPoints
          /\ \A w \in Workers : pc'[w] \in WorkerPoints
      BY <2>1, GoType DEF CallerPoints
    <2>3. QED
      BY <1>7, <2>2, WorkerSets DEF SetRemaining, TypeOK
  <1>8. CASE BumpGen
    <2>1. Go(Caller, "bump", "notifyWork")
      BY <1>8 DEF BumpGen
    <2>2. /\ pc' \in [Threads -> CallerPoints \cup WorkerPoints]
          /\ pc'[Caller] \in CallerPoints
          /\ \A w \in Workers : pc'[w] \in WorkerPoints
      BY <2>1, GoType DEF CallerPoints
    <2>3. QED
      BY <1>8, <2>2 DEF BumpGen, TypeOK
  <1>9. CASE NotifyWork
    <2>1. Go(Caller, "notifyWork", "readTotal")
      BY <1>9 DEF NotifyWork
    <2>2. /\ pc' \in [Threads -> CallerPoints \cup WorkerPoints]
          /\ pc'[Caller] \in CallerPoints
          /\ \A w \in Workers : pc'[w] \in WorkerPoints
      BY <2>1, GoType DEF CallerPoints
    <2>3. QED
      BY <1>9, <2>2 DEF NotifyWork, TypeOK
  <1>10. CASE ClearFunc
    <2>1. Go(Caller, "clearFunc", "idle")
      BY <1>10 DEF ClearFunc
    <2>2. /\ pc' \in [Threads -> CallerPoints \cup WorkerPoints]
          /\ pc'[Caller] \in CallerPoints
          /\ \A w \in Workers : pc'[w] \in WorkerPoints
      BY <2>1, GoType DEF CallerPoints
    <2>3. ran' \in [Items -> Nat]
      BY <1>10 DEF ClearFunc, NoneRan
    <2>4. call' \in 0..MaxItems
      BY <1>10 DEF ClearFunc
    <2>5. funcSet' \in BOOLEAN
      BY <1>10 DEF ClearFunc
    <2>6. QED
      BY <1>10, <2>2, <2>3, <2>4, <2>5 DEF ClearFunc, TypeOK
  <1>11. CASE Join
    <2>1. Go(Caller, "join", IF respawn = {} THEN "idle" ELSE "spawn")
      BY <1>11 DEF Join
    <2>2. /\ pc' \in [Threads -> CallerPoints \cup WorkerPoints]
          /\ pc'[Caller] \in CallerPoints
          /\ \A w \in Workers : pc'[w] \in WorkerPoints
      BY <2>1, GoType DEF CallerPoints
    <2>3. QED
      BY <1>11, <2>2 DEF Join, TypeOK
  <1>12. CASE Spawn
    <2>1. /\ pc' \in [Threads -> CallerPoints \cup WorkerPoints]
          /\ pc'[Caller] \in CallerPoints
          /\ \A w \in Workers : pc'[w] \in WorkerPoints
      BY <1>12 DEF Spawn, TypeOK, Threads, CallerPoints, WorkerPoints
    <2>2. 0 \in 0..Cardinality(Workers)
      BY FS_CardinalityType, PoolAssumption DEF PoolAssumption
    <2>3. myGen' \in [Workers -> Nat]
      BY <1>12 DEF Spawn, TypeOK
    <2>4. QED
      BY <1>12, <2>1, <2>2, <2>3 DEF Spawn, TypeOK
  <1>13. CASE SeqItem
    <2>1. ran' \in [Items -> Nat]
      BY <1>13, RanType DEF SeqItem, TypeOK
    <2>2. seqIdx' \in 0..MaxItems
      BY <1>13 DEF SeqItem, TypeOK
    <2>3. QED
      BY <1>13, <2>1, <2>2 DEF SeqItem, TypeOK
  <1>14. CASE AwaitQuiet
    BY <1>14 DEF AwaitQuiet, TypeOK, Threads, CallerPoints
  <1>15. QED
    BY <1>1, <1>2, <1>3, <1>4, <1>5, <1>6, <1>7, <1>8, <1>9, <1>10, <1>11, <1>12,
       <1>13, <1>14
       DEF CallerOwn

\* A worker before its fetch_sub is one the barrier counts.
LEMMA LeaverCounted ==
  ASSUME WInv, NEW w \in Workers, pc[w] = "leave"
  PROVE  /\ pc[Caller] \in Dispatched /\ w \in ToLeave /\ myGen[w] = gen
         /\ IsFiniteSet(ToLeave) /\ Cardinality(ToLeave) = remaining
         /\ remaining >= 1
  <1>1. pc[Caller] \in Dispatched /\ w \in alive
    BY DEF WInv, Served, Lifecycle, Inside
  <1>2. w \in ToLeave /\ myGen[w] = gen /\ Cardinality(ToLeave) = remaining
    BY <1>1 DEF ToLeave, WInv, Served, Counted, Inside
  <1>3. ToLeave \in SUBSET alive
    BY DEF ToLeave
  <1>4. IsFiniteSet(ToLeave)
    BY <1>3, WorkerSets DEF WInv
  <1>5. Cardinality(ToLeave) # 0 /\ Cardinality(ToLeave) \in Nat
    BY <1>2, <1>4, FS_EmptySet, FS_CardinalityType
  <1>6. QED
    BY <1>1, <1>2, <1>4, <1>5

LEMMA StepTypeOK == WInv /\ [Next]_vars => TypeOK'
  <1> SUFFICES ASSUME WInv, [Next]_vars PROVE TypeOK'
    OBVIOUS
  <1>0. /\ Caller \in Threads /\ Caller \notin Workers /\ MaxItems \in Nat
        /\ Workers \subseteq Threads /\ TypeOK
    BY PoolAssumption DEF PoolAssumption, Threads, WInv
  <1> USE <1>0 DEF items, locals, owned
  <1>1. ASSUME NEW S \in SUBSET Workers, Reprepare(S) PROVE TypeOK'
    BY <1>1 DEF Reprepare, TypeOK, CallerPoints
  <1>2. ASSUME NEW n \in 1..MaxItems, ParallelFor(n) PROVE TypeOK'
    <2>1. /\ pc' \in [Threads -> CallerPoints \cup WorkerPoints]
          /\ pc'[Caller] \in CallerPoints
          /\ \A w \in Workers : pc'[w] \in WorkerPoints
      BY <1>2, GoType DEF ParallelFor, CallerPoints
    <2>2. QED
      BY <1>2, <2>1 DEF ParallelFor, TypeOK
  <1>3. CASE CallerOwn
    BY <1>3, CallerTypeOK
  <1>4. ASSUME NEW w \in Workers, WorkerOwn(w) PROVE TypeOK'
    <2>1. CASE TestRunning(w)
      BY <2>1, GoType DEF TestRunning, TypeOK, WorkerPoints
    <2>2. CASE Park(w)
      BY <2>2 DEF Park, TypeOK, WorkerPoints
    <2>3. CASE RecheckRunning(w)
      BY <2>3, GoType DEF RecheckRunning, TypeOK, WorkerPoints
    <2>4. CASE LeaveItems(w)
      <3>1. /\ pc' \in [Threads -> CallerPoints \cup WorkerPoints]
            /\ pc'[Caller] \in CallerPoints
            /\ \A x \in Workers : pc'[x] \in WorkerPoints
        BY <2>4, GoType DEF LeaveItems, WorkerPoints
      <3>2. remaining' \in 0..Cardinality(Workers)
        <4>1. remaining >= 1 /\ remaining' = remaining - 1
          BY <2>4, LeaverCounted DEF LeaveItems, Go
        <4>2. remaining \in Nat /\ remaining <= Cardinality(Workers) /\ Cardinality(Workers) \in Nat
          BY FS_CardinalityType, PoolAssumption DEF PoolAssumption, TypeOK
        <4>3. QED
          BY <4>1, <4>2
      <3>3. QED
        BY <2>4, <3>1, <3>2 DEF LeaveItems, TypeOK
    <2>5. CASE SignalQuiet(w)
      BY <2>5, GoType DEF SignalQuiet, TypeOK, WorkerPoints
    <2>6. QED
      BY <1>4, <2>1, <2>2, <2>3, <2>4, <2>5 DEF WorkerOwn
  <1>5. ASSUME NEW t \in Threads, ReadTotal(t) PROVE TypeOK'
    BY <1>5, GoType DEF ReadTotal, TypeOK, CallerPoints, WorkerPoints
  <1>6. ASSUME NEW t \in Threads, Claim(t) PROVE TypeOK'
    <2>1. Go(t, "claim", IF nextItem < total[t] THEN "run"
                         ELSE IF t = Caller THEN "awaitQuiet" ELSE "leave")
      BY <1>6 DEF Claim
    <2>2. /\ pc' \in [Threads -> CallerPoints \cup WorkerPoints]
          /\ pc'[Caller] \in CallerPoints
          /\ \A w \in Workers : pc'[w] \in WorkerPoints
      BY <2>1, GoType DEF CallerPoints, WorkerPoints
    <2>3. total' \in [Threads -> 0..MaxItems] /\ idx' \in [Threads -> Nat] /\ nextItem' \in Nat
      BY <1>6 DEF Claim, TypeOK
    <2>4. QED
      BY <1>6, <2>2, <2>3 DEF Claim, TypeOK
  <1>7. ASSUME NEW t \in Threads, RunItem(t) PROVE TypeOK'
    <2>1. /\ pc' \in [Threads -> CallerPoints \cup WorkerPoints]
          /\ pc'[Caller] \in CallerPoints
          /\ \A w \in Workers : pc'[w] \in WorkerPoints
      BY <1>7, GoType DEF RunItem, CallerPoints, WorkerPoints
    <2>2. ran' \in [Items -> Nat]
      BY <1>7, RanType DEF RunItem, TypeOK
    <2>3. QED
      BY <1>7, <2>1, <2>2 DEF RunItem, TypeOK
  <1>8. ASSUME NEW t \in Threads, SpuriousWake(t) PROVE TypeOK'
    BY <1>8 DEF SpuriousWake, TypeOK
  <1>9. CASE UNCHANGED vars
    BY <1>9 DEF vars, TypeOK
  <1>10. QED
    BY NextCases, <1>1, <1>2, <1>3, <1>4, <1>5, <1>6, <1>7, <1>8, <1>9

-------------------------------------------------------------------------------
(* The barrier counts the workers that may still touch the payload *)

\* A step of the caller alone leaves the set the barrier counts as it is.
LEMMA CallerKeepsToLeave ==
  ASSUME TypeOK, UNCHANGED <<alive, gen, myGen>>,
         \A w \in Workers : pc'[w] = pc[w]
  PROVE  ToLeave' = ToLeave
  BY DEF ToLeave, TypeOK

LEMMA CallerWInv ==
  ASSUME WInv, CallerOwn
  PROVE  Lifecycle' /\ Served' /\ Counted'
  <1>0. /\ Caller \in Threads /\ Caller \notin Workers /\ TypeOK
        /\ \A w \in Workers : w \in Threads /\ w # Caller
        /\ alive \subseteq Workers /\ respawn \subseteq Workers /\ gen \in Nat
    BY PoolAssumption DEF PoolAssumption, Threads, WInv, TypeOK
  <1> USE <1>0 DEF items, locals, owned
  <1>1. CASE StopBump
    <2>1. /\ pc[Caller] = "stopBump" /\ pc'[Caller] = "stopNotify"
          /\ \A w \in Workers : pc'[w] = pc[w]
      BY <1>1, GoMoves DEF StopBump
    <2>2. QED
      BY <1>1, <2>1
         DEF StopBump, WInv, Lifecycle, Served, Counted, Dispatched, Setup, Stopping
  <1>2. CASE StopNotify
    <2>1. /\ pc[Caller] = "stopNotify" /\ pc'[Caller] = "join"
          /\ \A w \in Workers : pc'[w] = pc[w]
      BY <1>2, GoMoves DEF StopNotify
    <2>2. ToLeave' = ToLeave
      BY <1>2, <2>1, CallerKeepsToLeave DEF StopNotify
    <2>3. QED
      BY <1>2, <2>1, <2>2
         DEF StopNotify, WInv, Lifecycle, Served, Counted, Dispatched, Setup, Stopping
  <1>3. CASE SeqReturn
    <2>1. /\ pc[Caller] = "seq" /\ pc'[Caller] = "idle"
          /\ \A w \in Workers : pc'[w] = pc[w]
      BY <1>3, GoMoves DEF SeqReturn
    <2>2. ToLeave' = ToLeave
      BY <1>3, <2>1, CallerKeepsToLeave DEF SeqReturn
    <2>3. QED
      BY <1>3, <2>1, <2>2
         DEF SeqReturn, WInv, Lifecycle, Served, Counted, Dispatched, Setup, Stopping
  <1>4. CASE SetFunc
    <2>1. /\ pc[Caller] = "setFunc" /\ pc'[Caller] = "setTotal"
          /\ \A w \in Workers : pc'[w] = pc[w]
      BY <1>4, GoMoves DEF SetFunc
    <2>2. ToLeave' = ToLeave
      BY <1>4, <2>1, CallerKeepsToLeave DEF SetFunc
    <2>3. QED
      BY <1>4, <2>1, <2>2
         DEF SetFunc, WInv, Lifecycle, Served, Counted, Dispatched, Setup, Stopping
  <1>5. CASE SetTotal
    <2>1. /\ pc[Caller] = "setTotal" /\ pc'[Caller] = "resetNext"
          /\ \A w \in Workers : pc'[w] = pc[w]
      BY <1>5, GoMoves DEF SetTotal
    <2>2. ToLeave' = ToLeave
      BY <1>5, <2>1, CallerKeepsToLeave DEF SetTotal
    <2>3. QED
      BY <1>5, <2>1, <2>2
         DEF SetTotal, WInv, Lifecycle, Served, Counted, Dispatched, Setup, Stopping
  <1>6. CASE ResetNext
    <2>1. /\ pc[Caller] = "resetNext" /\ pc'[Caller] = "setRemaining"
          /\ \A w \in Workers : pc'[w] = pc[w]
      BY <1>6, GoMoves DEF ResetNext
    <2>2. ToLeave' = ToLeave
      BY <1>6, <2>1, CallerKeepsToLeave DEF ResetNext
    <2>3. QED
      BY <1>6, <2>1, <2>2
         DEF ResetNext, WInv, Lifecycle, Served, Counted, Dispatched, Setup, Stopping
  <1>7. CASE SetRemaining
    <2>1. /\ pc[Caller] = "setRemaining" /\ pc'[Caller] = "bump"
          /\ \A w \in Workers : pc'[w] = pc[w]
      BY <1>7, GoMoves DEF SetRemaining
    <2>2. ToLeave' = ToLeave
      BY <1>7, <2>1, CallerKeepsToLeave DEF SetRemaining
    <2>3. QED
      BY <1>7, <2>1, <2>2
         DEF SetRemaining, WInv, Lifecycle, Served, Counted, Dispatched, Setup, Stopping
  <1>8. CASE NotifyWork
    <2>1. /\ pc[Caller] = "notifyWork" /\ pc'[Caller] = "readTotal"
          /\ \A w \in Workers : pc'[w] = pc[w]
      BY <1>8, GoMoves DEF NotifyWork
    <2>2. ToLeave' = ToLeave
      BY <1>8, <2>1, CallerKeepsToLeave DEF NotifyWork
    <2>3. QED
      BY <1>8, <2>1, <2>2
         DEF NotifyWork, WInv, Lifecycle, Served, Counted, Dispatched, Setup, Stopping
  <1>9. CASE ClearFunc
    <2>1. /\ pc[Caller] = "clearFunc" /\ pc'[Caller] = "idle"
          /\ \A w \in Workers : pc'[w] = pc[w]
      BY <1>9, GoMoves DEF ClearFunc
    <2>2. ToLeave' = ToLeave
      BY <1>9, <2>1, CallerKeepsToLeave DEF ClearFunc
    <2>3. QED
      BY <1>9, <2>1, <2>2
         DEF ClearFunc, WInv, Lifecycle, Served, Counted, Dispatched, Setup, Stopping
  <1>10. CASE Join
    <2>1. /\ pc[Caller] = "join" /\ pc'[Caller] \in {"idle", "spawn"}
          /\ \A w \in Workers : pc'[w] = pc[w]
      BY <1>10, GoMoves DEF Join
    <2>2. \A w \in Workers : pc[w] = "ended"
      BY <1>10 DEF Join, WInv, Lifecycle
    <2>3. QED
      BY <1>10, <2>1, <2>2
         DEF Join, WInv, Lifecycle, Served, Counted, Dispatched, Setup, Stopping, Inside
  <1>11. CASE Spawn
    <2>1. pc[Caller] = "spawn" /\ pc'[Caller] = "idle"
      BY <1>11 DEF Spawn
    <2>2. \A w \in Workers : pc[w] = "ended"
      BY <2>1 DEF WInv, Lifecycle
    <2>3. \A w \in Workers : pc'[w] = IF w \in respawn THEN "test" ELSE "ended"
      BY <1>11, <2>2 DEF Spawn
    <2>4. \A w \in alive' : myGen'[w] = gen'
      BY <1>11 DEF Spawn
    <2>5. QED
      BY <1>11, <2>1, <2>3, <2>4
         DEF Spawn, Lifecycle, Served, Counted, Dispatched, Setup, Stopping, Inside
  <1>12. CASE SeqItem
    BY <1>12, CallerKeepsToLeave
       DEF SeqItem, WInv, Lifecycle, Served, Counted
  <1>13. CASE BumpGen
    <2>1. /\ pc[Caller] = "bump" /\ pc'[Caller] = "notifyWork"
          /\ \A w \in Workers : pc'[w] = pc[w]
      BY <1>13, GoMoves DEF BumpGen
    <2>2. /\ gen' = gen + 1 /\ UNCHANGED <<remaining, alive, myGen, running>>
      BY <1>13 DEF BumpGen
    <2>3. \A w \in alive : myGen[w] = gen /\ pc[w] # "recheck" /\ pc[w] \notin Inside
      BY <2>1 DEF WInv, Lifecycle, Served, Dispatched, Setup, Stopping
    <2>4. ToLeave' = alive
      BY <2>2, <2>3 DEF ToLeave
    <2>5. remaining = Cardinality(alive)
      BY <2>1 DEF WInv, Counted
    <2> HIDE DEF ToLeave
    <2>6. QED
      BY <2>1, <2>2, <2>3, <2>4, <2>5
         DEF WInv, Lifecycle, Served, Counted, Dispatched, Setup, Stopping
  <1>14. CASE AwaitQuiet
    <2>1. /\ UNCHANGED <<running, gen, remaining, alive, myGen>>
          /\ pc[Caller] = "awaitQuiet"
      BY <1>14 DEF AwaitQuiet
    <2>2. CASE remaining = 0
      <3>1. pc'[Caller] = "clearFunc" /\ \A w \in Workers : pc'[w] = pc[w]
        BY <1>14, <2>2 DEF AwaitQuiet, TypeOK
      <3>2. ToLeave = {}
        <4>1. Cardinality(ToLeave) = 0
          BY <2>1, <2>2 DEF WInv, Counted, Dispatched
        <4>2. IsFiniteSet(ToLeave)
          BY WorkerSets DEF ToLeave
        <4>3. QED
          BY <4>1, <4>2, FS_EmptySet
      <3>3. \A w \in alive : myGen[w] = gen /\ pc[w] # "recheck" /\ pc[w] \notin Inside
        BY <3>2 DEF ToLeave, Inside
      <3>4. \A w \in Workers : pc[w] \notin Inside
        BY <3>3 DEF WInv, Lifecycle, Inside
      <3>5. QED
        BY <2>1, <3>1, <3>3, <3>4
           DEF WInv, Lifecycle, Served, Counted, Dispatched, Setup, Stopping
    <2>3. CASE remaining # 0
      <3>1. pc' = pc
        BY <1>14, <2>3 DEF AwaitQuiet
      <3>2. ToLeave' = ToLeave
        BY <2>1, <3>1, CallerKeepsToLeave
      <3>3. QED
        BY <2>1, <3>1, <3>2 DEF WInv, Lifecycle, Served, Counted
    <2>4. QED
      BY <2>2, <2>3
  <1>15. QED
    BY <1>1, <1>2, <1>3, <1>4, <1>5, <1>6, <1>7, <1>8, <1>9, <1>10, <1>11, <1>12,
       <1>13, <1>14
       DEF CallerOwn

\* A worker enters the generation it read, and leaves it once.
LEMMA WorkerWInv ==
  ASSUME WInv, NEW w \in Workers, WorkerOwn(w)
  PROVE  Lifecycle' /\ Served' /\ Counted'
  <1>0. /\ Caller \in Threads /\ Caller \notin Workers /\ TypeOK
        /\ Workers \subseteq Threads /\ w \in Threads /\ w # Caller
        /\ alive \subseteq Workers /\ gen \in Nat
        /\ pc \in [Threads -> CallerPoints \cup WorkerPoints]
        /\ myGen \in [Workers -> Nat]
    BY PoolAssumption DEF PoolAssumption, Threads, WInv, TypeOK
  <1> USE <1>0 DEF items, locals, owned
  <1>1. CASE TestRunning(w)
    <2>1. PICK to \in {"park", "ended"} :
             pc[w] = "test" /\ \A u \in Threads : pc'[u] = IF u = w THEN to ELSE pc[u]
      BY <1>1, GoMoves DEF TestRunning
    <2>2. UNCHANGED <<running, gen, remaining, alive, myGen>>
      BY <1>1 DEF TestRunning
    <2>3. w \in alive
      BY <2>1 DEF WInv, Lifecycle
    <2>4. ToLeave' = ToLeave
      BY <2>1, <2>2 DEF ToLeave
    <2>5. QED
      BY <2>1, <2>2, <2>3, <2>4 DEF WInv, Lifecycle, Served, Counted, Inside
  <1>2. CASE Park(w)
    <2>1. UNCHANGED <<running, gen, remaining, alive>> /\ pc[w] = "park"
      BY <1>2 DEF Park
    <2>2. w \in alive
      BY <2>1 DEF WInv, Lifecycle
    <2>3. CASE gen # myGen[w] \/ ~running
      <3>1. /\ \A u \in Threads : pc'[u] = IF u = w THEN "recheck" ELSE pc[u]
            /\ \A u \in Workers : myGen'[u] = IF u = w THEN gen ELSE myGen[u]
        BY <1>2, <2>3 DEF Park
      <3>2. pc[Caller] \in Dispatched \cup Stopping
        BY <2>2, <2>3 DEF WInv, Lifecycle, Served
      <3>3. CASE pc[Caller] \in Dispatched
        <4>1. running
          BY <2>2, <3>3 DEF WInv, Lifecycle, Dispatched, Stopping
        <4>2. ToLeave' = ToLeave
          BY <2>1, <2>2, <2>3, <3>1, <4>1 DEF ToLeave
        <4>3. QED
          BY <2>1, <2>2, <3>1, <3>3, <4>1, <4>2
             DEF WInv, Lifecycle, Served, Counted, Dispatched, Inside
      <3>4. CASE pc[Caller] \in Stopping
        BY <2>1, <2>2, <3>1, <3>4
           DEF WInv, Lifecycle, Served, Counted, Dispatched, Stopping, Inside
      <3>5. QED
        BY <3>2, <3>3, <3>4
    <2>4. CASE ~(gen # myGen[w] \/ ~running)
      <3>1. UNCHANGED <<pc, myGen>>
        BY <1>2, <2>4 DEF Park
      <3>2. ToLeave' = ToLeave
        BY <2>1, <3>1, CallerKeepsToLeave
      <3>3. QED
        BY <2>1, <3>1, <3>2 DEF WInv, Lifecycle, Served, Counted
    <2>5. QED
      BY <2>3, <2>4
  <1>3. CASE RecheckRunning(w)
    <2>1. /\ pc[w] = "recheck"
          /\ \A u \in Threads :
                pc'[u] = IF u = w THEN (IF running THEN "readTotal" ELSE "ended") ELSE pc[u]
      BY <1>3, GoMoves DEF RecheckRunning
    <2>2. UNCHANGED <<running, gen, remaining, alive, myGen>>
      BY <1>3 DEF RecheckRunning
    <2>3. w \in alive
      BY <2>1 DEF WInv, Lifecycle
    <2>4. CASE running
      <3>1. pc[Caller] \in Dispatched
        BY <2>1, <2>3, <2>4 DEF WInv, Lifecycle, Served
      <3>2. ToLeave' = ToLeave
        BY <2>1, <2>2, <2>4 DEF ToLeave
      <3>3. QED
        BY <2>1, <2>2, <2>3, <2>4, <3>1, <3>2
           DEF WInv, Lifecycle, Served, Counted, Dispatched, Inside
    <2>5. CASE ~running
      <3>1. pc[Caller] \in Stopping
        BY <2>3, <2>5 DEF WInv, Lifecycle
      <3>2. QED
        BY <2>1, <2>2, <2>3, <2>5, <3>1
           DEF WInv, Lifecycle, Served, Counted, Dispatched, Stopping, Inside
    <2>6. QED
      BY <2>4, <2>5
  <1>4. CASE LeaveItems(w)
    <2>1. /\ pc[w] = "leave" /\ remaining' = remaining - 1
          /\ UNCHANGED <<running, gen, alive, myGen>>
      BY <1>4 DEF LeaveItems, Go
    <2>2. PICK to \in {"signal", "test"} :
             \A u \in Threads : pc'[u] = IF u = w THEN to ELSE pc[u]
      BY <1>4, GoMoves DEF LeaveItems
    <2>3. /\ pc[Caller] \in Dispatched /\ w \in ToLeave /\ myGen[w] = gen
          /\ IsFiniteSet(ToLeave) /\ Cardinality(ToLeave) = remaining
      BY <2>1, LeaverCounted
    <2>4. ToLeave' = ToLeave \ {w}
      BY <2>1, <2>2, <2>3 DEF ToLeave
    <2>5. Cardinality(ToLeave') = remaining - 1
      BY <2>3, <2>4, FS_RemoveElement
    <2> HIDE DEF ToLeave
    <2>6. w \in alive /\ pc'[Caller] = pc[Caller]
      BY <2>1, <2>2 DEF WInv, Lifecycle
    <2>7. Counted'
      BY <2>1, <2>3, <2>5, <2>6 DEF Counted, Dispatched
    <2>8. QED
      BY <2>1, <2>2, <2>3, <2>6, <2>7 DEF WInv, Lifecycle, Served, Dispatched, Inside
  <1>5. CASE SignalQuiet(w)
    <2>1. pc[w] = "signal" /\ \A u \in Threads : pc'[u] = IF u = w THEN "test" ELSE pc[u]
      BY <1>5, GoMoves DEF SignalQuiet
    <2>2. UNCHANGED <<running, gen, remaining, alive, myGen>>
      BY <1>5 DEF SignalQuiet
    <2>3. w \in alive
      BY <2>1 DEF WInv, Lifecycle
    <2>4. ToLeave' = ToLeave
      BY <2>1, <2>2 DEF ToLeave
    <2>5. QED
      BY <2>1, <2>2, <2>3, <2>4 DEF WInv, Lifecycle, Served, Counted, Inside
  <1>6. QED
    BY <1>1, <1>2, <1>3, <1>4, <1>5 DEF WorkerOwn

\* Inside executeItems the caller and the workers move from one point of it to
\* the next and touch nothing the barrier is about.
LEMMA ExecuteWInv ==
  ASSUME WInv, NEW t \in Threads, ReadTotal(t) \/ Claim(t) \/ RunItem(t)
  PROVE  Lifecycle' /\ Served' /\ Counted'
  <1>0. /\ Caller \in Threads /\ Caller \notin Workers /\ TypeOK
        /\ Workers \subseteq Threads /\ alive \subseteq Workers
        /\ \A w \in Workers : w # Caller
    BY PoolAssumption DEF PoolAssumption, Threads, WInv, TypeOK
  <1>1. UNCHANGED <<running, gen, remaining, alive, myGen>>
    BY DEF ReadTotal, Claim, RunItem, items, locals, owned
  <1>2. PICK from \in {"readTotal", "claim", "run"},
             to \in {"claim", "run", "awaitQuiet", "leave"} :
          /\ Go(t, from, to)
          /\ to = "awaitQuiet" <=> t = Caller /\ to \notin {"claim", "run"}
    BY DEF ReadTotal, Claim, RunItem
  <1>3. pc[t] = from /\ \A u \in Threads : pc'[u] = IF u = t THEN to ELSE pc[u]
    BY <1>0, <1>2, GoMoves
  <1>4. CASE t = Caller
    <2>1. pc[Caller] \in Dispatched /\ pc'[Caller] \in Dispatched
      BY <1>0, <1>2, <1>3, <1>4 DEF Dispatched
    <2>2. \A w \in Workers : pc'[w] = pc[w]
      BY <1>0, <1>3, <1>4
    <2>3. ToLeave' = ToLeave
      BY <1>0, <1>1, <2>2, CallerKeepsToLeave
    <2>4. QED
      BY <1>0, <1>1, <2>1, <2>2, <2>3
         DEF WInv, Lifecycle, Served, Counted, Dispatched, Setup, Stopping
  <1>5. CASE t # Caller
    <2>1. t \in Workers /\ t \in alive /\ pc'[Caller] = pc[Caller]
      BY <1>0, <1>3, <1>5 DEF Threads, WInv, Lifecycle
    <2>2. pc[Caller] \in Dispatched /\ to \in Inside
      BY <1>2, <1>3, <1>5, <2>1 DEF WInv, Served, Inside
    <2>3. ToLeave' = ToLeave
      BY <1>0, <1>1, <1>2, <1>3, <2>2 DEF ToLeave, Inside
    <2>4. QED
      BY <1>0, <1>1, <1>3, <2>1, <2>2, <2>3
         DEF WInv, Lifecycle, Served, Counted, Dispatched, Setup, Stopping, Inside
  <1>6. QED
    BY <1>4, <1>5

LEMMA StepWInv == WInv /\ [Next]_vars => WInv'
  <1> SUFFICES ASSUME WInv, [Next]_vars PROVE Lifecycle' /\ Served' /\ Counted'
    BY StepTypeOK DEF WInv
  <1>0. /\ Caller \in Threads /\ Caller \notin Workers /\ TypeOK
        /\ Workers \subseteq Threads /\ alive \subseteq Workers
        /\ \A w \in Workers : w # Caller
    BY PoolAssumption DEF PoolAssumption, Threads, WInv, TypeOK
  <1> USE <1>0 DEF items, locals, owned
  <1>1. ASSUME NEW S \in SUBSET Workers, Reprepare(S) PROVE Lifecycle' /\ Served' /\ Counted'
    <2>1. PICK to \in {"spawn", "stopBump"} :
            /\ pc[Caller] = "idle" /\ pc' = [pc EXCEPT ![Caller] = to]
            /\ IF alive = {} THEN to = "spawn" /\ UNCHANGED running
                             ELSE to = "stopBump" /\ running' = FALSE
      BY <1>1 DEF Reprepare
    <2>2. pc'[Caller] = to /\ \A w \in Workers : pc'[w] = pc[w]
      BY <2>1 DEF TypeOK
    <2>3. UNCHANGED <<gen, remaining, alive, myGen>>
      BY <1>1 DEF Reprepare
    <2>4. QED
      BY <2>1, <2>2, <2>3 DEF WInv, Lifecycle, Served, Counted, Dispatched, Setup, Stopping
  <1>2. ASSUME NEW n \in 1..MaxItems, ParallelFor(n) PROVE Lifecycle' /\ Served' /\ Counted'
    <2>1. PICK to \in {"seq", "setFunc"} :
            Go(Caller, "idle", to) /\ (to = "setFunc" => alive # {})
      BY <1>2 DEF ParallelFor
    <2>2. /\ pc[Caller] = "idle" /\ pc'[Caller] = to
          /\ \A w \in Workers : pc'[w] = pc[w]
      BY <2>1, GoMoves
    <2>3. UNCHANGED <<running, gen, remaining, alive, myGen>>
      BY <1>2 DEF ParallelFor
    <2>4. QED
      BY <2>1, <2>2, <2>3 DEF WInv, Lifecycle, Served, Counted, Dispatched, Setup, Stopping
  <1>3. CASE CallerOwn
    BY <1>3, CallerWInv
  <1>4. ASSUME NEW w \in Workers, WorkerOwn(w) PROVE Lifecycle' /\ Served' /\ Counted'
    BY <1>4, WorkerWInv
  <1>5. ASSUME NEW t \in Threads, ReadTotal(t) \/ Claim(t) \/ RunItem(t)
        PROVE  Lifecycle' /\ Served' /\ Counted'
    BY <1>5, ExecuteWInv
  <1>6. ASSUME UNCHANGED <<running, gen, remaining, alive, pc, myGen>>
        PROVE  Lifecycle' /\ Served' /\ Counted'
    <2>1. ToLeave' = ToLeave
      BY <1>6, CallerKeepsToLeave
    <2>2. QED
      BY <1>6, <2>1 DEF WInv, Lifecycle, Served, Counted
  <1>7. ASSUME NEW t \in Threads, SpuriousWake(t) PROVE Lifecycle' /\ Served' /\ Counted'
    BY <1>6, <1>7 DEF SpuriousWake
  <1>8. CASE UNCHANGED vars
    BY <1>6, <1>8 DEF vars
  <1>9. QED
    BY NextCases, <1>1, <1>2, <1>3, <1>4, <1>5, <1>7, <1>8

-------------------------------------------------------------------------------
(* Exactly once: the items of a dispatch *)

\* The caller stays in the same phase of the same call.
SamePhase ==
    /\ pc'[Caller] \in Dispatched <=> pc[Caller] \in Dispatched
    /\ pc'[Caller] \in Outside <=> pc[Caller] \in Outside
    /\ pc'[Caller] = "awaitQuiet" <=> pc[Caller] = "awaitQuiet"
    /\ \A p \in Setup \cup {"seq", "clearFunc"} : pc'[Caller] = p <=> pc[Caller] = p

\* A step that changes neither the work items nor who works on one.
Quiet ==
    /\ UNCHANGED <<items, funcSet, call, ran, total, idx, seqIdx>>
    /\ \A t \in Threads : /\ pc'[t] = "run" <=> pc[t] = "run"
                          /\ pc'[t] = "claim" <=> pc[t] = "claim"
    /\ SamePhase

LEMMA QuietStep ==
  ASSUME IInv, Quiet
  PROVE  ItemsAccounted' /\ CallerKnows'
  <1>1. ItemsAccounted'
    <2> SUFFICES ASSUME pc'[Caller] \in Dispatched PROVE ItemsAccounted'
      BY DEF ItemsAccounted
    <2>1. pc[Caller] \in Dispatched
      BY DEF Quiet, SamePhase
    <2>2. QED
      BY <2>1 DEF IInv, ItemsAccounted, Quiet, SamePhase, items
  <1>2. CallerKnows'
    BY DEF IInv, CallerKnows, Quiet, SamePhase, Setup, items
  <1>3. QED
    BY <1>1, <1>2

\* A thread moves between points where it works on no item.
LEMMA QuietGo ==
  ASSUME IInv, NEW t \in Threads, NEW from, NEW to,
         pc[t] = from, \A u \in Threads : pc'[u] = IF u = t THEN to ELSE pc[u],
         from \notin {"run", "claim"}, to \notin {"run", "claim"},
         UNCHANGED <<items, funcSet, call, ran, total, idx, seqIdx>>,
         t = Caller => \/ from \in Outside /\ to \in Outside
                       \/ from = "notifyWork" /\ to = "readTotal"
  PROVE  ItemsAccounted' /\ CallerKnows'
  <1>1. Caller \in Threads
    BY DEF Threads
  <1>2. SamePhase
    <2>1. CASE t = Caller
      BY <1>1, <2>1 DEF SamePhase, Dispatched, Outside, Stopping, Setup
    <2>2. CASE t # Caller
      BY <1>1, <2>2 DEF SamePhase
    <2>3. QED
      BY <2>1, <2>2
  <1>3. Quiet
    BY <1>2 DEF Quiet
  <1>4. QED
    BY <1>3, QuietStep

\* Once the barrier opens, every item of the call has run.
LEMMA AllRan ==
  ASSUME IInv, pc[Caller] = "awaitQuiet", remaining = 0
  PROVE  call >= 1 /\ \A i \in Items : i < call => ran[i] = 1
  <1>1. /\ call >= 1 /\ nextItem >= call
        /\ call \in 0..MaxItems /\ MaxItems \in Nat /\ nextItem \in Nat
    BY PoolAssumption DEF PoolAssumption, IInv, WInv, TypeOK, ItemsAccounted, Dispatched
  <1>2. ToLeave = {}
    <2>1. Cardinality(ToLeave) = 0
      BY DEF IInv, WInv, Counted, Dispatched
    <2>2. IsFiniteSet(ToLeave)
      BY WorkerSets DEF ToLeave, IInv, WInv
    <2>3. QED
      BY <2>1, <2>2, FS_EmptySet
  <1>3. \A t \in Threads : pc[t] # "run"
    BY <1>2 DEF ToLeave, IInv, WInv, Lifecycle, Threads
  <1>4. ASSUME NEW i \in Items, i < call PROVE ran[i] = 1
    <2>1. i < nextItem
      BY <1>1, <1>4 DEF Items
    <2>2. QED
      BY <1>3, <1>4, <2>1 DEF IInv, ItemsAccounted, Dispatched
  <1>5. QED
    BY <1>1, <1>4

\* Nobody works on an item when the caller is not in a dispatch.
LEMMA NobodyInside ==
  ASSUME WInv, pc[Caller] \notin Dispatched
  PROVE  \A t \in Threads : pc[t] \notin {"readTotal", "claim", "run"}
  BY DEF WInv, Served, Inside, Dispatched, Threads

LEMMA CallerIInv ==
  ASSUME IInv, CallerOwn
  PROVE  ItemsAccounted' /\ CallerKnows'
  <1>0. /\ Caller \in Threads /\ Caller \notin Workers /\ TypeOK /\ WInv
        /\ \A w \in Workers : w \in Threads /\ w # Caller
        /\ pc \in [Threads -> CallerPoints \cup WorkerPoints]
        /\ call \in 0..MaxItems /\ MaxItems \in Nat /\ seqIdx \in Nat
        /\ ran \in [Items -> Nat] /\ respawn \subseteq Workers
    BY PoolAssumption DEF PoolAssumption, Threads, IInv, WInv, TypeOK
  <1> USE <1>0 DEF owned
  <1>1. CASE StopBump
    <2>1. /\ pc[Caller] = "stopBump"
          /\ \A u \in Threads : pc'[u] = IF u = Caller THEN "stopNotify" ELSE pc[u]
      BY <1>1, GoMoves DEF StopBump
    <2>2. UNCHANGED <<items, funcSet, call, ran, total, idx, seqIdx>>
      BY <1>1 DEF StopBump, locals
    <2>3. QED
      BY <2>1, <2>2, QuietGo DEF Outside, Stopping
  <1>2. CASE StopNotify
    <2>1. /\ pc[Caller] = "stopNotify"
          /\ \A u \in Threads : pc'[u] = IF u = Caller THEN "join" ELSE pc[u]
      BY <1>2, GoMoves DEF StopNotify
    <2>2. UNCHANGED <<items, funcSet, call, ran, total, idx, seqIdx>>
      BY <1>2 DEF StopNotify, locals
    <2>3. QED
      BY <2>1, <2>2, QuietGo DEF Outside, Stopping
  <1>3. CASE NotifyWork
    <2>1. /\ pc[Caller] = "notifyWork"
          /\ \A u \in Threads : pc'[u] = IF u = Caller THEN "readTotal" ELSE pc[u]
      BY <1>3, GoMoves DEF NotifyWork
    <2>2. UNCHANGED <<items, funcSet, call, ran, total, idx, seqIdx>>
      BY <1>3 DEF NotifyWork, locals
    <2>3. QED
      BY <2>1, <2>2, QuietGo DEF Outside, Stopping
  <1>4. CASE Join
    <2>1. PICK to \in {"idle", "spawn"} :
             /\ pc[Caller] = "join"
             /\ \A u \in Threads : pc'[u] = IF u = Caller THEN to ELSE pc[u]
      BY <1>4, GoMoves DEF Join
    <2>2. UNCHANGED <<items, funcSet, call, ran, total, idx, seqIdx>>
      BY <1>4 DEF Join, locals
    <2>3. QED
      BY <2>1, <2>2, QuietGo DEF Outside, Stopping
  <1>5. CASE Spawn
    <2>1. pc[Caller] = "spawn" /\ pc'[Caller] = "idle"
      BY <1>5 DEF Spawn
    <2>2. UNCHANGED <<funcSet, call, ran, total, idx, seqIdx>>
      BY <1>5 DEF Spawn
    <2>3. QED
      BY <2>1, <2>2 DEF IInv, ItemsAccounted, CallerKnows, Dispatched, Outside, Stopping, Setup
  <1>6. CASE SeqItem
    <2>1. /\ pc[Caller] = "seq" /\ pc' = pc /\ seqIdx < call /\ seqIdx' = seqIdx + 1
          /\ ran' = [ran EXCEPT ![seqIdx] = @ + 1]
          /\ UNCHANGED <<items, funcSet, call>>
      BY <1>6 DEF SeqItem
    <2>2. \A i \in Items : ran'[i] = IF i < seqIdx' THEN 1 ELSE 0
      <3> TAKE i \in Items
      <3>1. ran[i] = IF i < seqIdx THEN 1 ELSE 0
        BY <2>1 DEF IInv, CallerKnows
      <3>2. ran'[i] = IF i = seqIdx THEN ran[i] + 1 ELSE ran[i]
        BY <2>1
      <3>3. i \in Nat
        BY DEF Items
      <3>4. QED
        BY <2>1, <3>1, <3>2, <3>3
    <2>3. seqIdx' <= call' /\ call' >= 1
      BY <2>1
    <2>4. QED
      BY <2>1, <2>2, <2>3 DEF ItemsAccounted, CallerKnows, Dispatched, Outside, Stopping, Setup
  <1>7. CASE SeqReturn
    <2>1. pc[Caller] = "seq" /\ pc'[Caller] = "idle"
      BY <1>7, GoMoves DEF SeqReturn
    <2>2. QED
      BY <1>7, <2>1
         DEF SeqReturn, items, IInv, ItemsAccounted, CallerKnows, Dispatched, Outside, Stopping, Setup
  <1>8. CASE SetFunc
    <2>1. pc[Caller] = "setFunc" /\ pc'[Caller] = "setTotal"
      BY <1>8, GoMoves DEF SetFunc
    <2>2. QED
      BY <1>8, <2>1
         DEF SetFunc, items, IInv, ItemsAccounted, CallerKnows, Dispatched, Outside, Stopping, Setup
  <1>9. CASE SetTotal
    <2>1. pc[Caller] = "setTotal" /\ pc'[Caller] = "resetNext"
      BY <1>9, GoMoves DEF SetTotal
    <2>2. QED
      BY <1>9, <2>1
         DEF SetTotal, items, IInv, ItemsAccounted, CallerKnows, Dispatched, Outside, Stopping, Setup
  <1>10. CASE ResetNext
    <2>1. pc[Caller] = "resetNext" /\ pc'[Caller] = "setRemaining"
      BY <1>10, GoMoves DEF ResetNext
    <2>2. QED
      BY <1>10, <2>1
         DEF ResetNext, items, IInv, ItemsAccounted, CallerKnows, Dispatched, Outside, Stopping, Setup
  <1>11. CASE SetRemaining
    <2>1. pc[Caller] = "setRemaining" /\ pc'[Caller] = "bump"
      BY <1>11, GoMoves DEF SetRemaining
    <2>2. QED
      BY <1>11, <2>1
         DEF SetRemaining, items, IInv, ItemsAccounted, CallerKnows, Dispatched, Outside, Stopping, Setup
  <1>12. CASE ClearFunc
    <2>1. pc[Caller] = "clearFunc" /\ pc'[Caller] = "idle"
      BY <1>12, GoMoves DEF ClearFunc
    <2>2. QED
      BY <1>12, <2>1
         DEF ClearFunc, items, IInv, ItemsAccounted, CallerKnows, Dispatched, Outside, Stopping, Setup
  <1>13. CASE BumpGen
    <2>1. /\ pc[Caller] = "bump"
          /\ \A u \in Threads : pc'[u] = IF u = Caller THEN "notifyWork" ELSE pc[u]
      BY <1>13, GoMoves DEF BumpGen
    <2>2. UNCHANGED <<nextItem, totalItems, funcSet, call, ran, seqIdx>>
      BY <1>13 DEF BumpGen, items
    <2>3. /\ call >= 1 /\ ran = NoneRan /\ funcSet /\ totalItems = call
          /\ nextItem = 0 /\ seqIdx = 0
      BY <2>1 DEF IInv, CallerKnows, Setup
    <2>4. \A t \in Threads : pc'[t] \notin {"claim", "run"}
      BY <2>1, NobodyInside DEF Dispatched
    <2>5. \A i \in Items : ran[i] = 0 /\ ~(i < 0)
      BY <2>3 DEF NoneRan, Items
    <2>6. QED
      BY <2>1, <2>2, <2>3, <2>4, <2>5
         DEF ItemsAccounted, CallerKnows, Dispatched, Outside, Stopping, Setup
  <1>14. CASE AwaitQuiet
    <2>1. /\ pc[Caller] = "awaitQuiet"
          /\ UNCHANGED <<items, funcSet, call, ran, total, idx, seqIdx>>
      BY <1>14 DEF AwaitQuiet, locals
    <2>2. CASE remaining = 0
      <3>1. pc'[Caller] = "clearFunc"
        BY <1>14, <2>2 DEF AwaitQuiet
      <3>2. /\ call >= 1 /\ \A i \in Items : i < call => ran[i] = 1
            /\ seqIdx = 0
        BY <2>1, <2>2, AllRan DEF IInv, CallerKnows
      <3>3. QED
        BY <2>1, <3>1, <3>2
           DEF ItemsAccounted, CallerKnows, Dispatched, Outside, Stopping, Setup
    <2>3. CASE remaining # 0
      <3>1. pc' = pc
        BY <1>14, <2>3 DEF AwaitQuiet
      <3>2. Quiet
        BY <2>1, <3>1 DEF Quiet, SamePhase
      <3>3. QED
        BY <3>2, QuietStep
    <2>4. QED
      BY <2>2, <2>3
  <1>15. QED
    BY <1>1, <1>2, <1>3, <1>4, <1>5, <1>6, <1>7, <1>8, <1>9, <1>10, <1>11, <1>12,
       <1>13, <1>14
       DEF CallerOwn

\* A thread inside the item loop is in a dispatch, of which it knows the count,
\* and moving it inside the loop keeps the caller's phase.
LEMMA LoopFacts ==
  ASSUME IInv, NEW t \in Threads, pc[t] \in {"readTotal", "claim", "run"}
  PROVE  /\ pc[Caller] \in Dispatched /\ call >= 1 /\ totalItems = call /\ funcSet
         /\ pc[t] \in {"claim", "run"} => total[t] = call
         /\ pc[t] = "run" => /\ idx[t] \in Items /\ idx[t] < call
                             /\ idx[t] < nextItem /\ ran[idx[t]] = 0
  <1>1. pc[Caller] \in Dispatched
    BY NobodyInside DEF IInv
  <1>2. idx[t] \in Nat /\ call \in 0..MaxItems /\ MaxItems \in Nat
    BY PoolAssumption DEF PoolAssumption, IInv, WInv, TypeOK
  <1>3. QED
    BY <1>1, <1>2 DEF IInv, ItemsAccounted, Items

\* The caller, in a dispatch before and after, knows what it knew.
LEMMA DispatchKnows ==
  ASSUME IInv, pc[Caller] \in Dispatched, pc'[Caller] \in Dispatched, UNCHANGED seqIdx
  PROVE  CallerKnows'
  BY DEF IInv, CallerKnows, Dispatched, Outside, Stopping, Setup

LEMMA ReadTotalIInv ==
  ASSUME IInv, NEW t \in Threads, ReadTotal(t)
  PROVE  ItemsAccounted' /\ CallerKnows'
  <1>0. TypeOK /\ Caller \in Threads /\ total \in [Threads -> 0..MaxItems]
    BY DEF IInv, WInv, TypeOK, Threads
  <1>1. pc[t] = "readTotal" /\ \A u \in Threads : pc'[u] = IF u = t THEN "claim" ELSE pc[u]
    BY <1>0, GoMoves DEF ReadTotal
  <1>2. /\ UNCHANGED <<nextItem, totalItems, funcSet, call, ran, idx, seqIdx>>
        /\ \A u \in Threads : total'[u] = IF u = t THEN totalItems ELSE total[u]
    BY <1>0 DEF ReadTotal, items, owned
  <1>3. pc[Caller] \in Dispatched /\ totalItems = call /\ pc'[Caller] \in Dispatched
    BY <1>0, <1>1, LoopFacts DEF Dispatched
  <1>4. pc'[Caller] = "awaitQuiet" => pc[Caller] = "awaitQuiet"
    BY <1>0, <1>1
  <1>5. ItemsAccounted'
    BY <1>1, <1>2, <1>3, <1>4 DEF IInv, ItemsAccounted
  <1>6. QED
    BY <1>2, <1>3, <1>5, DispatchKnows

\* A claim: either the thread takes the next item, which nobody has run or
\* holds, or every item is taken and the thread leaves the loop.
LEMMA ClaimIInv ==
  ASSUME IInv, NEW t \in Threads, Claim(t)
  PROVE  ItemsAccounted' /\ CallerKnows'
  <1>0. /\ TypeOK /\ Caller \in Threads /\ pc[t] = "claim"
        /\ total \in [Threads -> 0..MaxItems] /\ idx \in [Threads -> Nat]
        /\ nextItem \in Nat /\ call \in 0..MaxItems /\ MaxItems \in Nat
    BY PoolAssumption DEF PoolAssumption, IInv, WInv, TypeOK, Claim, Go, Threads
  <1>1. /\ UNCHANGED <<totalItems, funcSet, call, ran, seqIdx>>
        /\ nextItem' = nextItem + 1
    BY DEF Claim, owned
  <1>2. /\ pc[Caller] \in Dispatched /\ call >= 1 /\ totalItems = call /\ funcSet
        /\ total[t] = call
    BY <1>0, LoopFacts
  <1>3. CASE nextItem < total[t]
    <2>1. /\ \A u \in Threads : pc'[u] = IF u = t THEN "run" ELSE pc[u]
          /\ \A u \in Threads : idx'[u] = IF u = t THEN nextItem ELSE idx[u]
          /\ total' = total
      <3>1. Go(t, "claim", "run")
        BY <1>3 DEF Claim
      <3>2. idx' = [idx EXCEPT ![t] = nextItem] /\ total' = [total EXCEPT ![t] = @]
        BY <1>3 DEF Claim
      <3>3. QED
        BY <1>0, <3>1, <3>2, GoMoves
    <2>2. pc'[Caller] \in Dispatched /\ (pc'[Caller] = "awaitQuiet" => pc[Caller] = "awaitQuiet")
      BY <1>0, <1>2, <2>1 DEF Dispatched
    <2>3. nextItem \in Items /\ nextItem < call /\ ran[nextItem] = 0
      BY <1>0, <1>2, <1>3 DEF IInv, ItemsAccounted, Items
    <2>4. \A u \in Threads : u # t /\ pc'[u] = "run" =>
             /\ pc[u] = "run" /\ idx'[u] = idx[u]
             /\ idx[u] \in Nat /\ idx[u] < call /\ idx[u] < nextItem /\ ran[idx[u]] = 0
      BY <1>0, <1>2, <2>1 DEF IInv, ItemsAccounted
    <2>5. \A u \in Threads : pc'[u] = "run" =>
             idx'[u] < call' /\ idx'[u] < nextItem' /\ ran'[idx'[u]] = 0
      BY <1>0, <1>1, <2>1, <2>3, <2>4
    <2>6. \A u, v \in Threads :
             pc'[u] = "run" /\ pc'[v] = "run" /\ idx'[u] = idx'[v] => u = v
      <3> SUFFICES ASSUME NEW u \in Threads, NEW v \in Threads, pc'[u] = "run",
                          pc'[v] = "run", idx'[u] = idx'[v], u # v
                   PROVE  FALSE
        OBVIOUS
      <3>1. CASE u = t \/ v = t
        BY <1>0, <2>1, <2>4, <3>1
      <3>2. CASE u # t /\ v # t
        BY <1>2, <2>4, <3>2 DEF IInv, ItemsAccounted
      <3>3. QED
        BY <3>1, <3>2
    <2>7. \A i \in Items : i >= nextItem' => ran'[i] = 0
      BY <1>0, <1>1, <1>2 DEF IInv, ItemsAccounted, Items
    <2>8. \A i \in Items : i < call' /\ i < nextItem' =>
             \/ ran'[i] = 1
             \/ ran'[i] = 0 /\ \E u \in Threads : pc'[u] = "run" /\ idx'[u] = i
      <3> TAKE i \in Items
      <3> HAVE i < call' /\ i < nextItem'
      <3>1. CASE i = nextItem
        BY <1>1, <2>1, <2>3, <3>1
      <3>2. CASE i # nextItem
        <4>1. i < nextItem /\ i < call
          BY <1>0, <1>1, <3>2 DEF Items
        <4>2. \/ ran[i] = 1
              \/ ran[i] = 0 /\ \E u \in Threads : pc[u] = "run" /\ idx[u] = i
          BY <1>2, <4>1 DEF IInv, ItemsAccounted
        <4>3. QED
          BY <1>0, <1>1, <2>1, <4>2
      <3>3. QED
        BY <3>1, <3>2
    <2>9. \A u \in Threads : pc'[u] \in {"claim", "run"} => total'[u] = call'
      BY <1>0, <1>1, <1>2, <2>1 DEF IInv, ItemsAccounted
    <2>10. pc'[Caller] = "awaitQuiet" => nextItem' >= call'
      BY <1>0, <1>1, <1>2, <2>2 DEF IInv, ItemsAccounted
    <2>11. ItemsAccounted'
      BY <1>1, <1>2, <2>5, <2>6, <2>7, <2>8, <2>9, <2>10 DEF ItemsAccounted
    <2>12. QED
      BY <1>1, <1>2, <2>2, <2>11, DispatchKnows
  <1>4. CASE ~(nextItem < total[t])
    <2>1. PICK to \in {"awaitQuiet", "leave"} :
             Go(t, "claim", to) /\ (t = Caller => to = "awaitQuiet")
      BY <1>4 DEF Claim
    <2>2. \A u \in Threads :
             /\ pc'[u] = IF u = t THEN to ELSE pc[u]
             /\ idx'[u] = IF u = t THEN 0 ELSE idx[u]
             /\ total'[u] = IF u = t THEN 0 ELSE total[u]
      <3>1. idx' = [idx EXCEPT ![t] = 0] /\ total' = [total EXCEPT ![t] = 0]
        BY <1>4 DEF Claim
      <3>2. QED
        BY <1>0, <2>1, <3>1, GoMoves
    <2>3. pc'[Caller] \in Dispatched
      BY <1>0, <1>2, <2>1, <2>2 DEF Dispatched
    <2>4. nextItem >= call /\ nextItem' >= call
      BY <1>0, <1>1, <1>2, <1>4
    <2>5. \A u \in Threads : pc'[u] \in {"claim", "run"} =>
             pc[u] = pc'[u] /\ idx'[u] = idx[u] /\ total'[u] = total[u] /\ idx[u] \in Nat
      BY <1>0, <2>1, <2>2
    <2>6. \A u \in Threads : pc'[u] = "run" => idx'[u] < nextItem'
      BY <1>0, <1>1, <1>2, <2>5 DEF IInv, ItemsAccounted
    <2>7. \A i \in Items : i >= nextItem' => ran'[i] = 0
      BY <1>0, <1>1, <1>2 DEF IInv, ItemsAccounted, Items
    <2>8. \A i \in Items : i < call' /\ i < nextItem' =>
             \/ ran'[i] = 1
             \/ ran'[i] = 0 /\ \E u \in Threads : pc'[u] = "run" /\ idx'[u] = i
      <3> TAKE i \in Items
      <3> HAVE i < call' /\ i < nextItem'
      <3>1. i < nextItem /\ i < call
        BY <1>0, <1>1, <2>4 DEF Items
      <3>2. \/ ran[i] = 1
            \/ ran[i] = 0 /\ \E u \in Threads : pc[u] = "run" /\ idx[u] = i
        BY <1>2, <3>1 DEF IInv, ItemsAccounted
      <3>3. QED
        BY <1>0, <1>1, <2>2, <3>2
    <2>9. ItemsAccounted'
      BY <1>1, <1>2, <2>4, <2>5, <2>6, <2>7, <2>8 DEF IInv, ItemsAccounted
    <2>10. QED
      BY <1>1, <1>2, <2>3, <2>9, DispatchKnows
  <1>5. QED
    BY <1>3, <1>4

\* The item a thread runs is the one it claimed, for the first time.
LEMMA RunIInv ==
  ASSUME IInv, NEW t \in Threads, RunItem(t)
  PROVE  ItemsAccounted' /\ CallerKnows'
  <1> DEFINE k == idx[t]
  <1>0. /\ TypeOK /\ Caller \in Threads /\ pc[t] = "run" /\ ran \in [Items -> Nat]
        /\ nextItem \in Nat
    BY DEF IInv, WInv, TypeOK, RunItem, Go, Threads
  <1>1. /\ UNCHANGED <<nextItem, totalItems, funcSet, call, total, idx, seqIdx>>
        /\ ran' = [ran EXCEPT ![k] = @ + 1]
        /\ \A u \in Threads : pc'[u] = IF u = t THEN "claim" ELSE pc[u]
    BY <1>0, GoMoves DEF RunItem, items, owned, locals
  <1>2. /\ pc[Caller] \in Dispatched /\ call >= 1 /\ totalItems = call /\ funcSet
        /\ total[t] = call /\ k \in Items /\ k < nextItem /\ ran[k] = 0
    BY <1>0, LoopFacts
  <1>3. \A i \in Items : ran'[i] = IF i = k THEN 1 ELSE ran[i]
    BY <1>0, <1>1, <1>2
  <1>4. pc'[Caller] \in Dispatched /\ (pc'[Caller] = "awaitQuiet" => pc[Caller] = "awaitQuiet")
    BY <1>0, <1>1, <1>2 DEF Dispatched
  <1>5. \A u \in Threads : u # t /\ pc[u] = "run" => idx[u] # k /\ idx[u] \in Items
    BY <1>0, <1>2, LoopFacts DEF IInv, ItemsAccounted
  <1> HIDE DEF k
  <1>6. \A u \in Threads : pc'[u] = "run" => u # t /\ pc[u] = "run"
    BY <1>1
  <1>7. \A u \in Threads : pc'[u] = "run" =>
           idx'[u] < call' /\ idx'[u] < nextItem' /\ ran'[idx'[u]] = 0
    BY <1>1, <1>2, <1>3, <1>5, <1>6 DEF IInv, ItemsAccounted
  <1>8. \A i \in Items : i >= nextItem' => ran'[i] = 0
    BY <1>0, <1>1, <1>2, <1>3 DEF IInv, ItemsAccounted, Items
  <1>9. \A i \in Items : i < call' /\ i < nextItem' =>
            \/ ran'[i] = 1
            \/ ran'[i] = 0 /\ \E u \in Threads : pc'[u] = "run" /\ idx'[u] = i
    <2> TAKE i \in Items
    <2> HAVE i < call' /\ i < nextItem'
    <2>1. CASE i = k
      BY <1>3, <2>1
    <2>2. CASE i # k
      <3>1. \/ ran[i] = 1
            \/ ran[i] = 0 /\ \E u \in Threads : pc[u] = "run" /\ idx[u] = i
        BY <1>1, <1>2 DEF IInv, ItemsAccounted
      <3>2. QED
        BY <1>1, <1>3, <2>2, <3>1 DEF k
    <2>3. QED
      BY <2>1, <2>2
  <1>10. \A u \in Threads : pc'[u] \in {"claim", "run"} => total'[u] = call'
    BY <1>1, <1>2 DEF IInv, ItemsAccounted
  <1>11. ItemsAccounted'
    BY <1>1, <1>2, <1>4, <1>6, <1>7, <1>8, <1>9, <1>10 DEF IInv, ItemsAccounted
  <1>12. QED
    BY <1>1, <1>2, <1>4, <1>11, DispatchKnows

LEMMA WorkerIInv ==
  ASSUME IInv, NEW w \in Workers, WorkerOwn(w)
  PROVE  ItemsAccounted' /\ CallerKnows'
  <1>0. TypeOK /\ w \in Threads /\ w # Caller
    BY PoolAssumption DEF PoolAssumption, IInv, WInv, Threads
  <1>1. UNCHANGED <<items, funcSet, call, ran, total, idx, seqIdx>>
    BY DEF WorkerOwn, TestRunning, Park, RecheckRunning, LeaveItems, SignalQuiet,
           owned, locals
  <1>2. CASE RecheckRunning(w) /\ running
    <2>1. pc[w] = "recheck" /\ \A u \in Threads : pc'[u] = IF u = w THEN "readTotal" ELSE pc[u]
      BY <1>0, <1>2, GoMoves DEF RecheckRunning
    <2>2. QED
      BY <1>0, <1>1, <2>1, QuietGo
  <1>3. CASE Park(w) /\ (gen # myGen[w] \/ ~running)
    <2>1. pc[w] = "park" /\ \A u \in Threads : pc'[u] = IF u = w THEN "recheck" ELSE pc[u]
      BY <1>0, <1>3 DEF Park, TypeOK
    <2>2. QED
      BY <1>0, <1>1, <2>1, QuietGo
  <1>4. CASE Park(w) /\ ~(gen # myGen[w] \/ ~running)
    <2>1. pc' = pc
      BY <1>4 DEF Park
    <2>2. Quiet
      BY <1>1, <2>1 DEF Quiet, SamePhase
    <2>3. QED
      BY <2>2, QuietStep
  <1>5. CASE \/ TestRunning(w) \/ LeaveItems(w) \/ SignalQuiet(w)
             \/ RecheckRunning(w) /\ ~running
    <2>1. PICK from \in {"test", "leave", "signal", "recheck"},
               to \in {"park", "ended", "signal", "test"} :
            Go(w, from, to)
      BY <1>5 DEF TestRunning, LeaveItems, SignalQuiet, RecheckRunning
    <2>2. pc[w] = from /\ \A u \in Threads : pc'[u] = IF u = w THEN to ELSE pc[u]
      BY <1>0, <2>1, GoMoves
    <2>3. QED
      BY <1>0, <1>1, <2>2, QuietGo
  <1>6. QED
    BY <1>2, <1>3, <1>4, <1>5 DEF WorkerOwn

LEMMA StepIInv == IInv /\ [Next]_vars => IInv'
  <1> SUFFICES ASSUME IInv, [Next]_vars PROVE ItemsAccounted' /\ CallerKnows'
    BY StepWInv DEF IInv
  <1>0. TypeOK /\ Caller \in Threads /\ Caller \notin Workers
    BY PoolAssumption DEF PoolAssumption, IInv, WInv, Threads
  <1>1. ASSUME NEW S \in SUBSET Workers, Reprepare(S) PROVE ItemsAccounted' /\ CallerKnows'
    <2>1. PICK to \in {"spawn", "stopBump"} :
             pc[Caller] = "idle" /\ \A u \in Threads : pc'[u] = IF u = Caller THEN to ELSE pc[u]
      BY <1>0, <1>1 DEF Reprepare, TypeOK
    <2>2. UNCHANGED <<items, funcSet, call, ran, total, idx, seqIdx>>
      BY <1>1 DEF Reprepare, locals
    <2>3. QED
      BY <1>0, <2>1, <2>2, QuietGo DEF Outside, Stopping
  <1>2. ASSUME NEW n \in 1..MaxItems, ParallelFor(n) PROVE ItemsAccounted' /\ CallerKnows'
    <2>1. PICK to \in {"seq", "setFunc"} : pc[Caller] = "idle" /\ pc'[Caller] = to
      <3>1. PICK to \in {"seq", "setFunc"} : Go(Caller, "idle", to)
        BY <1>2 DEF ParallelFor
      <3>2. QED
        BY <1>0, <3>1, GoMoves
    <2>2. call' = n /\ UNCHANGED <<ran, seqIdx>>
      BY <1>2 DEF ParallelFor
    <2>3. ran = NoneRan /\ seqIdx = 0
      BY <2>1 DEF IInv, CallerKnows, Outside
    <2>4. \A i \in Items : ran[i] = 0 /\ ~(i < 0)
      BY <2>3 DEF NoneRan, Items
    <2>5. QED
      BY <2>1, <2>2, <2>3, <2>4
         DEF ItemsAccounted, CallerKnows, Dispatched, Outside, Stopping, Setup
  <1>3. CASE CallerOwn
    BY <1>3, CallerIInv
  <1>4. ASSUME NEW w \in Workers, WorkerOwn(w) PROVE ItemsAccounted' /\ CallerKnows'
    BY <1>4, WorkerIInv
  <1>5. ASSUME NEW t \in Threads, ReadTotal(t) \/ Claim(t) \/ RunItem(t)
        PROVE  ItemsAccounted' /\ CallerKnows'
    BY <1>5, ReadTotalIInv, ClaimIInv, RunIInv
  <1>6. ASSUME UNCHANGED <<items, funcSet, call, ran, total, idx, seqIdx, pc>>
        PROVE  ItemsAccounted' /\ CallerKnows'
    <2>1. Quiet
      BY <1>6 DEF Quiet, SamePhase
    <2>2. QED
      BY <2>1, QuietStep
  <1>7. ASSUME NEW t \in Threads, SpuriousWake(t) PROVE ItemsAccounted' /\ CallerKnows'
    BY <1>6, <1>7 DEF SpuriousWake, owned, locals
  <1>8. CASE UNCHANGED vars
    BY <1>6, <1>8 DEF vars, items
  <1>9. QED
    BY NextCases, <1>1, <1>2, <1>3, <1>4, <1>5, <1>7, <1>8

LEMMA InitIInv == Init => IInv
  <1> SUFFICES ASSUME Init PROVE IInv
    OBVIOUS
  <1>1. /\ Caller \notin Workers /\ Caller \in Threads /\ MaxItems \in Nat
        /\ Workers \subseteq Threads /\ Cardinality(Workers) \in Nat
    BY FS_CardinalityType, PoolAssumption DEF PoolAssumption, Threads
  <1>2. pc[Caller] = "idle" /\ \A w \in Workers : pc[w] = "ended"
    BY <1>1 DEF Init
  <1>3. TypeOK
    <2>1. pc \in [Threads -> CallerPoints \cup WorkerPoints]
      BY DEF Init, CallerPoints, WorkerPoints
    <2>2. ran \in [Items -> Nat]
      BY DEF Init, NoneRan
    <2>3. /\ myGen \in [Workers -> Nat] /\ idx \in [Threads -> Nat]
          /\ total \in [Threads -> 0..MaxItems]
      BY <1>1 DEF Init
    <2>4. /\ gen \in Nat /\ nextItem \in Nat
          /\ remaining \in 0..Cardinality(Workers) /\ totalItems \in 0..MaxItems
          /\ alive \in SUBSET Workers /\ respawn \in SUBSET Workers
          /\ asleep \in SUBSET Threads
          /\ call \in 0..MaxItems /\ seqIdx \in 0..MaxItems
      BY <1>1 DEF Init
    <2>5. pc[Caller] \in CallerPoints /\ \A w \in Workers : pc[w] \in WorkerPoints
      BY <1>2 DEF CallerPoints, WorkerPoints
    <2>6. running \in BOOLEAN /\ funcSet \in BOOLEAN
      BY DEF Init
    <2>7. QED
      BY <2>1, <2>2, <2>3, <2>4, <2>5, <2>6 DEF TypeOK
  <1>4. Lifecycle /\ Served /\ Counted
    BY <1>2 DEF Init, Lifecycle, Served, Counted, Dispatched, Setup, Stopping, Inside
  <1>5. ItemsAccounted /\ CallerKnows
    BY <1>2 DEF Init, ItemsAccounted, CallerKnows, Dispatched, Outside, Stopping, Setup
  <1>6. QED
    BY <1>3, <1>4, <1>5 DEF IInv, WInv

\* The bookkeeping of generations, of the barrier and of items holds throughout.
THEOREM Invariance == Spec => []IInv
  BY InitIInv, StepIInv, PTL DEF Spec, Safety

\* TypeOK: every variable keeps its type; in particular workersRemaining never
\* goes below zero or above the number of workers.
THEOREM TypeCorrect == Spec => []TypeOK
  <1>1. IInv => TypeOK
    BY DEF IInv, WInv
  <1>2. QED
    BY Invariance, <1>1, PTL

\* BarrierCountsWorkers: during a dispatch workersRemaining is the number of
\* workers that have not yet served the generation.
THEOREM BarrierExact == Spec => []BarrierCountsWorkers
  <1>1. IInv => BarrierCountsWorkers
    BY DEF IInv, WInv, Counted, BarrierCountsWorkers, Dispatched, ToLeave
  <1>2. QED
    BY Invariance, <1>1, PTL

\* WorkersQuiescent: no worker is anywhere inside executeItems while the caller
\* writes the payload of a dispatch or is outside parallelFor, and whoever is
\* about to call currentFunc finds the function and count of its own call.
THEOREM PayloadNotRaced == Spec => []WorkersQuiescent
  <1>1. ASSUME IInv PROVE WorkersQuiescent
    <2>1. pc[Caller] \notin Dispatched => \A w \in Workers : pc[w] \notin Inside
      BY <1>1 DEF IInv, WInv, Served
    <2>2. \A t \in Threads : pc[t] = "run" => funcSet /\ total[t] = call
      BY <1>1, LoopFacts
    <2>3. QED
      BY <2>1, <2>2 DEF WorkersQuiescent, Dispatched, Inside
  <1>2. QED
    BY Invariance, <1>1, PTL

-------------------------------------------------------------------------------
(* The pool implements ForkJoin, as far as safety goes *)

\* The caller returns from the fallback loop or from a dispatch.
LEMMA CallerReturns ==
  ASSUME IInv, pc[Caller] \in {"seq", "clearFunc"},
         pc[Caller] = "seq" => seqIdx >= call,
         call' = 0, ran' = NoneRan
  PROVE  FJ!Return
  <1>1. call \in 0..MaxItems /\ MaxItems \in Nat /\ seqIdx \in Nat
    BY PoolAssumption DEF PoolAssumption, IInv, WInv, TypeOK
  <1>2. call >= 1 /\ \A i \in Items : i < call => ran[i] = 1
    <2>1. CASE pc[Caller] = "seq"
      BY <1>1, <2>1 DEF IInv, CallerKnows, Items
    <2>2. CASE pc[Caller] = "clearFunc"
      BY <2>2 DEF IInv, CallerKnows
    <2>3. QED
      BY <2>1, <2>2
  <1>3. FJ!Items = Items /\ FJ!NoneRan = NoneRan
    BY DEF FJ!Items, Items, FJ!NoneRan, NoneRan
  <1>4. QED
    BY <1>1, <1>2, <1>3 DEF FJ!Return

\* Every step of the pool is a step of ForkJoin or changes nothing it sees.
LEMMA StepImplements == IInv /\ [Next]_vars => [FJ!Next]_(FJ!fjVars)
  <1> SUFFICES ASSUME IInv, [Next]_vars PROVE FJ!Next \/ (call' = call /\ ran' = ran)
    BY DEF FJ!fjVars
  <1>0. /\ call \in 0..MaxItems /\ MaxItems \in Nat /\ seqIdx \in Nat
        /\ ran \in [Items -> Nat] /\ FJ!Items = Items
    BY PoolAssumption DEF PoolAssumption, IInv, WInv, TypeOK, Items, FJ!Items
  <1> USE DEF owned
  <1>1. ASSUME NEW S \in SUBSET Workers, Reprepare(S) PROVE UNCHANGED <<call, ran>>
    BY <1>1 DEF Reprepare
  <1>2. ASSUME NEW n \in 1..MaxItems, ParallelFor(n) PROVE FJ!Next
    <2>1. call = 0 /\ call' = n /\ UNCHANGED ran
      BY <1>2 DEF ParallelFor, Go, IInv, CallerKnows, Outside
    <2>2. FJ!Start(n)
      BY <2>1 DEF FJ!Start
    <2>3. QED
      BY <2>2 DEF FJ!Next
  <1>3. CASE CallerOwn
    <2>1. CASE SeqItem
      <3>1. /\ seqIdx \in Items /\ seqIdx < call /\ ran[seqIdx] = 0
            /\ ran' = [ran EXCEPT ![seqIdx] = @ + 1] /\ call' = call
        BY <1>0, <2>1 DEF SeqItem, IInv, CallerKnows, Items
      <3>2. ran' = [ran EXCEPT ![seqIdx] = 1]
        BY <1>0, <3>1
      <3>3. FJ!Run(seqIdx)
        BY <3>1, <3>2 DEF FJ!Run
      <3>4. QED
        BY <1>0, <3>1, <3>3 DEF FJ!Next
    <2>2. CASE SeqReturn
      <3>1. FJ!Return
        BY <2>2, CallerReturns DEF SeqReturn, Go
      <3>2. QED
        BY <3>1 DEF FJ!Next
    <2>3. CASE ClearFunc
      <3>1. FJ!Return
        BY <2>3, CallerReturns DEF ClearFunc, Go
      <3>2. QED
        BY <3>1 DEF FJ!Next
    <2>4. CASE ~(SeqItem \/ SeqReturn \/ ClearFunc)
      BY <1>3, <2>4
         DEF CallerOwn, StopBump, StopNotify, Join, Spawn, SetFunc, SetTotal, ResetNext,
             SetRemaining, BumpGen, NotifyWork, AwaitQuiet
    <2>5. QED
      BY <2>1, <2>2, <2>3, <2>4
  <1>4. ASSUME NEW w \in Workers, WorkerOwn(w) PROVE UNCHANGED <<call, ran>>
    BY <1>4 DEF WorkerOwn, TestRunning, Park, RecheckRunning, LeaveItems, SignalQuiet
  <1>5. ASSUME NEW t \in Threads, ReadTotal(t) \/ Claim(t) \/ SpuriousWake(t)
        PROVE  UNCHANGED <<call, ran>>
    BY <1>5 DEF ReadTotal, Claim, SpuriousWake
  <1>6. ASSUME NEW t \in Threads, RunItem(t) PROVE FJ!Next
    <2> DEFINE k == idx[t]
    <2>1. k \in Items /\ k < call /\ ran[k] = 0
      BY <1>6, LoopFacts DEF RunItem, Go
    <2>2. ran' = [ran EXCEPT ![k] = @ + 1] /\ call' = call
      BY <1>6 DEF RunItem
    <2> HIDE DEF k
    <2>3. ran' = [ran EXCEPT ![k] = 1]
      BY <1>0, <2>1, <2>2
    <2>4. FJ!Run(k)
      BY <2>1, <2>2, <2>3 DEF FJ!Run
    <2>5. QED
      BY <1>0, <2>1, <2>4 DEF FJ!Next
  <1>7. CASE UNCHANGED vars
    BY <1>7 DEF vars
  <1>8. QED
    BY NextCases, <1>1, <1>2, <1>3, <1>4, <1>5, <1>6, <1>7

\* parallelFor runs every item of a call exactly once, and returns only after
\* the last of them: each step of the pool is one ForkJoin allows.
THEOREM ExactlyOnce == Spec => FJ!Safety
  <1>1. Init => FJ!Init
    BY DEF Init, FJ!Init, NoneRan, FJ!NoneRan, Items, FJ!Items
  <1>2. QED
    BY <1>1, Invariance, StepImplements, PTL DEF Spec, Safety, FJ!Safety

-------------------------------------------------------------------------------
(* No lost wake-up *)

LEMMA CallerWakes ==
  ASSUME WInv, NoLostWakeup, CallerOwn
  PROVE  NoLostWakeup'
  <1>0. /\ Caller \in Threads /\ Caller \notin Workers /\ TypeOK
        /\ \A w \in Workers : w \in Threads /\ w # Caller
        /\ alive \subseteq Workers /\ respawn \subseteq Workers
        /\ remaining \in Nat /\ gen \in Nat
        /\ pc \in [Threads -> CallerPoints \cup WorkerPoints]
    BY PoolAssumption, FS_CardinalityType DEF PoolAssumption, Threads, WInv, TypeOK
  <1> USE <1>0 DEF items, locals, owned
  <1>1. CASE StopBump
    <2>1. /\ pc[Caller] = "stopBump" /\ pc'[Caller] = "stopNotify"
          /\ \A w \in Workers : pc'[w] = pc[w]
      BY <1>1, GoMoves DEF StopBump
    <2>2. QED
      BY <1>1, <2>1 DEF StopBump, NoLostWakeup
  <1>2. CASE StopNotify
    <2>1. /\ pc[Caller] = "stopNotify" /\ pc'[Caller] = "join"
          /\ \A w \in Workers : pc'[w] = pc[w]
      BY <1>2, GoMoves DEF StopNotify
    <2>2. QED
      BY <1>2, <2>1 DEF StopNotify, NoLostWakeup
  <1>3. CASE SeqReturn
    <2>1. /\ pc[Caller] = "seq" /\ pc'[Caller] = "idle"
          /\ \A w \in Workers : pc'[w] = pc[w]
      BY <1>3, GoMoves DEF SeqReturn
    <2>2. QED
      BY <1>3, <2>1 DEF SeqReturn, NoLostWakeup
  <1>4. CASE SetFunc
    <2>1. /\ pc[Caller] = "setFunc" /\ pc'[Caller] = "setTotal"
          /\ \A w \in Workers : pc'[w] = pc[w]
      BY <1>4, GoMoves DEF SetFunc
    <2>2. QED
      BY <1>4, <2>1 DEF SetFunc, NoLostWakeup
  <1>5. CASE SetTotal
    <2>1. /\ pc[Caller] = "setTotal" /\ pc'[Caller] = "resetNext"
          /\ \A w \in Workers : pc'[w] = pc[w]
      BY <1>5, GoMoves DEF SetTotal
    <2>2. QED
      BY <1>5, <2>1 DEF SetTotal, NoLostWakeup
  <1>6. CASE ResetNext
    <2>1. /\ pc[Caller] = "resetNext" /\ pc'[Caller] = "setRemaining"
          /\ \A w \in Workers : pc'[w] = pc[w]
      BY <1>6, GoMoves DEF ResetNext
    <2>2. QED
      BY <1>6, <2>1 DEF ResetNext, NoLostWakeup
  <1>7. CASE SetRemaining
    <2>1. /\ pc[Caller] = "setRemaining" /\ pc'[Caller] = "bump"
          /\ \A w \in Workers : pc'[w] = pc[w]
      BY <1>7, GoMoves DEF SetRemaining
    <2>2. QED
      BY <1>7, <2>1 DEF SetRemaining, NoLostWakeup
  <1>8. CASE BumpGen
    <2>1. /\ pc[Caller] = "bump" /\ pc'[Caller] = "notifyWork"
          /\ \A w \in Workers : pc'[w] = pc[w]
      BY <1>8, GoMoves DEF BumpGen
    <2>2. QED
      BY <1>8, <2>1 DEF BumpGen, NoLostWakeup
  <1>9. CASE NotifyWork
    <2>1. /\ pc[Caller] = "notifyWork" /\ pc'[Caller] = "readTotal"
          /\ \A w \in Workers : pc'[w] = pc[w]
      BY <1>9, GoMoves DEF NotifyWork
    <2>2. QED
      BY <1>9, <2>1 DEF NotifyWork, NoLostWakeup
  <1>10. CASE ClearFunc
    <2>1. /\ pc[Caller] = "clearFunc" /\ pc'[Caller] = "idle"
          /\ \A w \in Workers : pc'[w] = pc[w]
      BY <1>10, GoMoves DEF ClearFunc
    <2>2. QED
      BY <1>10, <2>1 DEF ClearFunc, NoLostWakeup
  <1>11. CASE Join
    <2>1. pc[Caller] = "join" /\ \A w \in Workers : pc'[w] = pc[w]
      BY <1>11, GoMoves DEF Join
    <2>2. \A w \in Workers : w \notin asleep
      BY <1>11 DEF Join, WInv, Lifecycle, NoLostWakeup
    <2>3. QED
      BY <1>11, <2>1, <2>2 DEF Join, NoLostWakeup
  <1>12. CASE Spawn
    <2>1. pc[Caller] = "spawn"
      BY <1>12 DEF Spawn
    <2>2. \A w \in Workers : w \notin asleep
      BY <2>1 DEF WInv, Lifecycle, NoLostWakeup
    <2>3. QED
      BY <1>12, <2>1, <2>2 DEF Spawn, NoLostWakeup
  <1>13. CASE SeqItem
    BY <1>13 DEF SeqItem, NoLostWakeup
  <1>14. CASE AwaitQuiet
    <2>1. CASE remaining = 0
      BY <1>14, <2>1 DEF AwaitQuiet, NoLostWakeup
    <2>2. CASE remaining # 0
      BY <1>14, <2>2 DEF AwaitQuiet, NoLostWakeup
    <2>3. QED
      BY <2>1, <2>2
  <1>15. QED
    BY <1>1, <1>2, <1>3, <1>4, <1>5, <1>6, <1>7, <1>8, <1>9, <1>10, <1>11, <1>12,
       <1>13, <1>14
       DEF CallerOwn

\* The last worker out of the barrier stands before its signal, so a caller
\* asleep on it is woken.
LEMMA StepWakes == WInv /\ NoLostWakeup /\ [Next]_vars => NoLostWakeup'
  <1> SUFFICES ASSUME WInv, NoLostWakeup, [Next]_vars PROVE NoLostWakeup'
    OBVIOUS
  <1>0. /\ Caller \in Threads /\ Caller \notin Workers /\ TypeOK
        /\ \A w \in Workers : w \in Threads /\ w # Caller
        /\ remaining \in Nat
        /\ pc \in [Threads -> CallerPoints \cup WorkerPoints]
        /\ myGen \in [Workers -> Nat]
    BY PoolAssumption, FS_CardinalityType DEF PoolAssumption, Threads, WInv, TypeOK
  <1> USE <1>0 DEF items, locals, owned
  <1>1. ASSUME NEW S \in SUBSET Workers, Reprepare(S) PROVE NoLostWakeup'
    <2>1. PICK to \in {"spawn", "stopBump"} :
            /\ pc[Caller] = "idle" /\ pc' = [pc EXCEPT ![Caller] = to]
            /\ IF alive = {} THEN to = "spawn" /\ UNCHANGED running
                             ELSE to = "stopBump" /\ running' = FALSE
      BY <1>1 DEF Reprepare
    <2>2. pc'[Caller] = to /\ \A w \in Workers : pc'[w] = pc[w]
      BY <2>1
    <2>3. UNCHANGED <<gen, remaining, alive, myGen, asleep>>
      BY <1>1 DEF Reprepare
    <2>4. QED
      BY <2>1, <2>2, <2>3 DEF NoLostWakeup
  <1>2. ASSUME NEW n \in 1..MaxItems, ParallelFor(n) PROVE NoLostWakeup'
    <2>1. PICK to \in {"seq", "setFunc"} : Go(Caller, "idle", to)
      BY <1>2 DEF ParallelFor
    <2>2. pc[Caller] = "idle" /\ \A w \in Workers : pc'[w] = pc[w]
      BY <2>1, GoMoves
    <2>3. QED
      BY <1>2, <2>2 DEF ParallelFor, NoLostWakeup
  <1>3. CASE CallerOwn
    BY <1>3, CallerWakes
  <1>4. ASSUME NEW w \in Workers, TestRunning(w) \/ RecheckRunning(w) PROVE NoLostWakeup'
    <2>1. PICK from \in {"test", "recheck"}, to \in {"park", "ended", "readTotal"} :
             Go(w, from, to)
      BY <1>4 DEF TestRunning, RecheckRunning
    <2>2. /\ pc[w] = from /\ w \notin asleep
          /\ \A u \in Threads : pc'[u] = IF u = w THEN to ELSE pc[u]
      BY <2>1, GoMoves
    <2>3. UNCHANGED <<running, gen, remaining, myGen, asleep>>
      BY <1>4 DEF TestRunning, RecheckRunning
    <2>4. QED
      BY <2>2, <2>3 DEF NoLostWakeup
  <1>5. ASSUME NEW w \in Workers, Park(w) PROVE NoLostWakeup'
    <2>1. CASE gen # myGen[w] \/ ~running
      BY <1>5, <2>1 DEF Park, NoLostWakeup
    <2>2. CASE ~(gen # myGen[w] \/ ~running)
      BY <1>5, <2>2 DEF Park, NoLostWakeup, WInv, TypeOK
    <2>3. QED
      BY <2>1, <2>2
  <1>6. ASSUME NEW w \in Workers, LeaveItems(w) PROVE NoLostWakeup'
    <2>1. remaining >= 1 /\ remaining' = remaining - 1
      BY <1>6, LeaverCounted DEF LeaveItems, Go
    <2>2. /\ pc[w] = "leave" /\ w \notin asleep
          /\ \A u \in Threads :
                pc'[u] = IF u = w THEN (IF remaining - 1 = 0 THEN "signal" ELSE "test")
                         ELSE pc[u]
      BY <1>6, GoMoves DEF LeaveItems
    <2>3. UNCHANGED <<running, gen, myGen, asleep>>
      BY <1>6 DEF LeaveItems
    <2>4. QED
      BY <2>1, <2>2, <2>3 DEF NoLostWakeup
  <1>7. ASSUME NEW w \in Workers, SignalQuiet(w) PROVE NoLostWakeup'
    <2>1. /\ pc[w] = "signal" /\ w \notin asleep
          /\ \A u \in Threads : pc'[u] = IF u = w THEN "test" ELSE pc[u]
      BY <1>7, GoMoves DEF SignalQuiet
    <2>2. UNCHANGED <<running, gen, remaining, myGen>> /\ asleep' = asleep \ {Caller}
      BY <1>7 DEF SignalQuiet
    <2>3. QED
      BY <2>1, <2>2 DEF NoLostWakeup
  <1>8. ASSUME NEW t \in Threads, ReadTotal(t) \/ Claim(t) \/ RunItem(t) PROVE NoLostWakeup'
    <2>1. PICK from \in {"readTotal", "claim", "run"},
               to \in {"claim", "run", "awaitQuiet", "leave"} :
            Go(t, from, to)
      BY <1>8 DEF ReadTotal, Claim, RunItem
    <2>2. /\ pc[t] = from /\ t \notin asleep
          /\ \A u \in Threads : pc'[u] = IF u = t THEN to ELSE pc[u]
      BY <2>1, GoMoves
    <2>3. UNCHANGED <<running, gen, remaining, myGen, asleep>>
      BY <1>8 DEF ReadTotal, Claim, RunItem
    <2>4. QED
      BY <2>2, <2>3 DEF NoLostWakeup
  <1>9. ASSUME NEW t \in Threads, SpuriousWake(t) PROVE NoLostWakeup'
    BY <1>9 DEF SpuriousWake, NoLostWakeup
  <1>10. CASE UNCHANGED vars
    BY <1>10 DEF vars, NoLostWakeup
  <1>11. QED
    BY NextCases, <1>1, <1>2, <1>3, <1>4, <1>5, <1>6, <1>7, <1>8, <1>9, <1>10 DEF WorkerOwn

\* No worker sleeps through a new generation or a shutdown, and the caller does
\* not sleep on a barrier that has already opened: the notify is still to come.
THEOREM WakeupsArrive == Spec => []NoLostWakeup
  <1>1. Init => WInv
    BY InitIInv DEF IInv
  <1>2. Init => NoLostWakeup
    BY DEF Init, NoLostWakeup
  <1>3. QED
    BY <1>1, <1>2, StepWInv, StepWakes, PTL DEF Spec, Safety
===============================================================================
