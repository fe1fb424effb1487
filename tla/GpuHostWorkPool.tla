---------------------------- MODULE GpuHostWorkPool ----------------------------
(***************************************************************************)
(* The fork-join pool of gpu/GpuHostWorkPool.h.  Each parallelFor is a     *)
(* numbered generation; the caller returns only when every worker has left *)
(* executeItems for it.  The steps are those of AudioParallelFor: atomic   *)
(* accesses, critical sections, condition-variable waits, notifies and     *)
(* calls of the item function.                                             *)
(***************************************************************************)
EXTENDS Integers, FiniteSets

CONSTANTS
    Caller,      \* the pump thread that owns the pool
    Workers,     \* the worker threads prepare() may spawn
    MaxItems,    \* bound: the largest count parallelFor is called with
    MaxGen       \* bound: generations between two prepare() calls

ASSUME PoolAssumption ==
    /\ Caller \notin Workers
    /\ IsFiniteSet(Workers)
    /\ MaxItems \in Nat
    /\ MaxGen \in Nat

Threads == Workers \cup {Caller}
Items == 0..(MaxItems - 1)
NoneRan == [i \in Items |-> 0]

VARIABLES
    running,     \* std::atomic<bool> running
    gen,         \* dispatchGen
    remaining,   \* workersRemaining
    nextItem,    \* std::atomic<int> nextItem
    totalItems,  \* std::atomic<int> totalItems
    funcSet,     \* currentFunc holds the function of the call in progress
    alive,       \* the std::thread objects in `workers`
    respawn,     \* the workers a prepare() in progress spawns after shutdown()
    pc,          \* where each thread stands
    asleep,      \* the threads blocked in a condition-variable wait
    myGen,       \* workerLoop's local myGen
    total,       \* executeItems' local total
    idx,         \* executeItems' local idx
    call,        \* `count` of the parallelFor in progress, 0 outside
    seqIdx,      \* loop index of the sequential fallback
    ran          \* history: how often each item of the call in progress has run

vars == <<running, gen, remaining, nextItem, totalItems, funcSet, alive,
          respawn, pc, asleep, myGen, total, idx, call, seqIdx, ran>>

items  == <<nextItem, totalItems>>
locals == <<myGen, total, idx>>
owned  == <<alive, respawn, call, seqIdx>>

\* A step of thread t from one program point to another.
Go(t, from, to) ==
    /\ pc[t] = from
    /\ t \notin asleep
    /\ pc' = [pc EXCEPT ![t] = to]

-------------------------------------------------------------------------------
(* The caller *)

\* prepare(|S|), which begins with shutdown(); with S = {} it is shutdown().
Reprepare(S) ==
    /\ pc[Caller] = "idle"
    /\ alive # {} \/ S # {}
    /\ respawn' = S
    /\ IF alive = {}
         THEN pc' = [pc EXCEPT ![Caller] = "spawn"] /\ UNCHANGED running
         ELSE pc' = [pc EXCEPT ![Caller] = "stopBump"] /\ running' = FALSE
    /\ UNCHANGED <<gen, remaining, items, funcSet, alive, asleep, locals, call,
                   seqIdx, ran>>

StopBump ==
    /\ Go(Caller, "stopBump", "stopNotify")
    /\ gen' = gen + 1
    /\ UNCHANGED <<running, remaining, items, funcSet, owned, asleep, locals, ran>>

\* Mutant: shutdown() wakes one worker only.
StopNotifyOne ==
    /\ Go(Caller, "stopNotify", "join")
    /\ \/ \E w \in asleep \cap Workers : asleep' = asleep \ {w}
       \/ asleep \cap Workers = {} /\ UNCHANGED asleep
    /\ UNCHANGED <<running, gen, remaining, items, funcSet, owned, locals, ran>>

StopNotify ==
    /\ Go(Caller, "stopNotify", "join")
    /\ asleep' = asleep \ Workers
    /\ UNCHANGED <<running, gen, remaining, items, funcSet, owned, locals, ran>>

Join ==
    /\ \A w \in alive : pc[w] = "ended"
    /\ Go(Caller, "join", IF respawn = {} THEN "idle" ELSE "spawn")
    /\ alive' = {}
    /\ UNCHANGED <<running, gen, remaining, items, funcSet, respawn, asleep,
                   locals, call, seqIdx, ran>>

\* Mutant: prepare() leaves dispatchGen where the last workers left it.
SpawnKeepingGen ==
    /\ pc[Caller] = "spawn"
    /\ remaining' = 0 /\ nextItem' = 0 /\ totalItems' = 0
    /\ running' = TRUE
    /\ alive' = respawn
    /\ respawn' = {}
    /\ myGen' = [w \in Workers |-> IF w \in respawn THEN 0 ELSE myGen[w]]
    /\ pc' = [t \in Threads |-> CASE t = Caller    -> "idle"
                                  [] t \in respawn -> "test"
                                  [] OTHER         -> pc[t]]
    /\ UNCHANGED <<gen, funcSet, asleep, total, idx, call, seqIdx, ran>>

\* The generation restarts at 0 with the workers' own myGen.
Spawn ==
    /\ pc[Caller] = "spawn"
    /\ gen' = 0 /\ remaining' = 0 /\ nextItem' = 0 /\ totalItems' = 0
    /\ running' = TRUE
    /\ alive' = respawn
    /\ respawn' = {}
    /\ myGen' = [w \in Workers |-> IF w \in respawn THEN 0 ELSE myGen[w]]
    /\ pc' = [t \in Threads |-> CASE t = Caller    -> "idle"
                                  [] t \in respawn -> "test"
                                  [] OTHER         -> pc[t]]
    /\ UNCHANGED <<funcSet, asleep, total, idx, call, seqIdx, ran>>

ParallelFor(n) ==
    LET sequential == alive = {} \/ n = 1 IN
    /\ sequential \/ gen < MaxGen
    /\ Go(Caller, "idle", IF sequential THEN "seq" ELSE "setFunc")
    /\ call' = n
    /\ UNCHANGED <<running, gen, remaining, items, funcSet, alive, respawn,
                   asleep, locals, seqIdx, ran>>

\* The sequential fallback runs func(i) itself, in order.
SeqItem ==
    /\ pc[Caller] = "seq"
    /\ seqIdx < call
    /\ ran' = [ran EXCEPT ![seqIdx] = @ + 1]
    /\ seqIdx' = seqIdx + 1
    /\ UNCHANGED <<running, gen, remaining, items, funcSet, alive, respawn, pc,
                   asleep, locals, call>>

SeqReturn ==
    /\ seqIdx >= call
    /\ Go(Caller, "seq", "idle")
    /\ call' = 0
    /\ seqIdx' = 0
    /\ ran' = NoneRan
    /\ UNCHANGED <<running, gen, remaining, items, funcSet, alive, respawn,
                   asleep, locals>>

SetFunc ==
    /\ Go(Caller, "setFunc", "setTotal")
    /\ funcSet' = TRUE
    /\ UNCHANGED <<running, gen, remaining, items, owned, asleep, locals, ran>>

SetTotal ==
    /\ Go(Caller, "setTotal", "resetNext")
    /\ totalItems' = call
    /\ UNCHANGED <<running, gen, remaining, nextItem, funcSet, owned, asleep,
                   locals, ran>>

\* Mutant: nextItem goes on from the previous dispatch.
KeepNext ==
    /\ Go(Caller, "resetNext", "setRemaining")
    /\ UNCHANGED <<running, gen, remaining, items, funcSet, owned, asleep, locals, ran>>

ResetNext ==
    /\ Go(Caller, "resetNext", "setRemaining")
    /\ nextItem' = 0
    /\ UNCHANGED <<running, gen, remaining, totalItems, funcSet, owned, asleep,
                   locals, ran>>

\* Mutant: the barrier counts the caller too.
SetRemainingWithCaller ==
    /\ Go(Caller, "setRemaining", "bump")
    /\ remaining' = Cardinality(alive) + 1
    /\ UNCHANGED <<running, gen, items, funcSet, owned, asleep, locals, ran>>

SetRemaining ==
    /\ Go(Caller, "setRemaining", "bump")
    /\ remaining' = Cardinality(alive)
    /\ UNCHANGED <<running, gen, items, funcSet, owned, asleep, locals, ran>>

BumpGen ==
    /\ Go(Caller, "bump", "notifyWork")
    /\ gen' = gen + 1
    /\ UNCHANGED <<running, remaining, items, funcSet, owned, asleep, locals, ran>>

NotifyWork ==
    /\ Go(Caller, "notifyWork", "readTotal")
    /\ asleep' = asleep \ Workers
    /\ UNCHANGED <<running, gen, remaining, items, funcSet, owned, locals, ran>>

\* Mutant: the caller waits until the items are taken, not until the workers left.
AwaitItems ==
    /\ pc[Caller] = "awaitQuiet"
    /\ Caller \notin asleep
    /\ IF nextItem >= totalItems
         THEN pc' = [pc EXCEPT ![Caller] = "clearFunc"] /\ UNCHANGED asleep
         ELSE asleep' = asleep \cup {Caller} /\ UNCHANGED pc
    /\ UNCHANGED <<running, gen, remaining, items, funcSet, owned, locals, ran>>

\* The barrier: every worker has left executeItems, not just every item run.
AwaitQuiet ==
    /\ pc[Caller] = "awaitQuiet"
    /\ Caller \notin asleep
    /\ IF remaining = 0
         THEN pc' = [pc EXCEPT ![Caller] = "clearFunc"] /\ UNCHANGED asleep
         ELSE asleep' = asleep \cup {Caller} /\ UNCHANGED pc
    /\ UNCHANGED <<running, gen, remaining, items, funcSet, owned, locals, ran>>

ClearFunc ==
    /\ Go(Caller, "clearFunc", "idle")
    /\ funcSet' = FALSE
    /\ call' = 0
    /\ ran' = NoneRan
    /\ UNCHANGED <<running, gen, remaining, items, alive, respawn, asleep,
                   locals, seqIdx>>

-------------------------------------------------------------------------------
(* executeItems(), run by the caller and by the workers *)

ReadTotal(t) ==
    /\ Go(t, "readTotal", "claim")
    /\ total' = [total EXCEPT ![t] = totalItems]
    /\ UNCHANGED <<running, gen, remaining, items, funcSet, owned, asleep, myGen,
                   idx, ran>>

\* total and idx go out of scope when the loop ends.
Claim(t) ==
    LET more == nextItem < total[t] IN
    /\ Go(t, "claim", IF more THEN "run"
                      ELSE IF t = Caller THEN "awaitQuiet" ELSE "leave")
    /\ nextItem' = nextItem + 1
    /\ idx' = [idx EXCEPT ![t] = IF more THEN nextItem ELSE 0]
    /\ total' = [total EXCEPT ![t] = IF more THEN @ ELSE 0]
    /\ UNCHANGED <<running, gen, remaining, totalItems, funcSet, owned, asleep,
                   myGen, ran>>

\* currentFunc (idx), without a null check.
RunItem(t) ==
    /\ Go(t, "run", "claim")
    /\ ran' = [ran EXCEPT ![idx[t]] = @ + 1]
    /\ UNCHANGED <<running, gen, remaining, items, funcSet, owned, asleep, locals>>

-------------------------------------------------------------------------------
(* workerLoop() *)

TestRunning(w) ==
    /\ Go(w, "test", IF running THEN "park" ELSE "ended")
    /\ UNCHANGED <<running, gen, remaining, items, funcSet, owned, asleep, locals,
                   ran>>

\* Parked until the generation moves on; the wait and the read of dispatchGen
\* that follows it share one critical section.
Park(w) ==
    /\ pc[w] = "park"
    /\ w \notin asleep
    /\ IF gen # myGen[w] \/ ~running
         THEN /\ pc' = [pc EXCEPT ![w] = "recheck"]
              /\ myGen' = [myGen EXCEPT ![w] = gen]
              /\ UNCHANGED asleep
         ELSE /\ asleep' = asleep \cup {w}
              /\ UNCHANGED <<pc, myGen>>
    /\ UNCHANGED <<running, gen, remaining, items, funcSet, owned, total, idx, ran>>

RecheckRunning(w) ==
    /\ Go(w, "recheck", IF running THEN "readTotal" ELSE "ended")
    /\ UNCHANGED <<running, gen, remaining, items, funcSet, owned, asleep, locals,
                   ran>>

\* fetch_sub; the last worker out releases the barrier.
LeaveItems(w) ==
    /\ Go(w, "leave", IF remaining - 1 = 0 THEN "signal" ELSE "test")
    /\ remaining' = remaining - 1
    /\ UNCHANGED <<running, gen, items, funcSet, owned, asleep, locals, ran>>

SignalQuiet(w) ==
    /\ Go(w, "signal", "test")
    /\ asleep' = asleep \ {Caller}
    /\ UNCHANGED <<running, gen, remaining, items, funcSet, owned, locals, ran>>

\* A condition variable may wake a thread that nobody notified.
SpuriousWake(t) ==
    /\ t \in asleep
    /\ asleep' = asleep \ {t}
    /\ UNCHANGED <<running, gen, remaining, items, funcSet, owned, pc, locals, ran>>

-------------------------------------------------------------------------------
Init ==
    /\ running = FALSE
    /\ gen = 0 /\ remaining = 0 /\ nextItem = 0 /\ totalItems = 0
    /\ funcSet = FALSE
    /\ alive = {} /\ respawn = {}
    /\ pc = [t \in Threads |-> IF t = Caller THEN "idle" ELSE "ended"]
    /\ asleep = {}
    /\ myGen = [w \in Workers |-> 0]
    /\ total = [t \in Threads |-> 0]
    /\ idx = [t \in Threads |-> 0]
    /\ call = 0 /\ seqIdx = 0
    /\ ran = NoneRan

ExecuteItems(t) == ReadTotal(t) \/ Claim(t) \/ RunItem(t)

\* What the caller does inside a call it has made.
CallerStep ==
    \/ StopBump \/ StopNotify \/ Join \/ Spawn
    \/ SeqItem \/ SeqReturn
    \/ SetFunc \/ SetTotal \/ ResetNext \/ SetRemaining \/ BumpGen \/ NotifyWork
    \/ AwaitQuiet \/ ClearFunc
    \/ ExecuteItems(Caller)

WorkerStep(w) ==
    \/ TestRunning(w) \/ Park(w) \/ RecheckRunning(w) \/ LeaveItems(w)
    \/ SignalQuiet(w) \/ ExecuteItems(w)

Next ==
    \/ \E S \in SUBSET Workers : Reprepare(S)
    \/ \E n \in 1..MaxItems : ParallelFor(n)
    \/ CallerStep
    \/ \E w \in Workers : WorkerStep(w)
    \/ \E t \in Threads : SpuriousWake(t)

Safety == Init /\ [][Next]_vars

\* The operating system runs every thread that can run; nobody has to make a
\* call, and nothing has to wake spuriously.
Fairness == WF_vars(CallerStep) /\ \A w \in Workers : WF_vars(WorkerStep(w))

Spec == Safety /\ Fairness

-------------------------------------------------------------------------------
(* Properties *)

CallerPoints ==
    {"idle", "spawn", "stopBump", "stopNotify", "join", "seq", "setFunc",
     "setTotal", "resetNext", "setRemaining", "bump", "notifyWork", "readTotal",
     "claim", "run", "awaitQuiet", "clearFunc"}
WorkerPoints ==
    {"ended", "test", "park", "recheck", "readTotal", "claim", "run", "leave",
     "signal"}

TypeOK ==
    /\ running \in BOOLEAN /\ funcSet \in BOOLEAN
    /\ gen \in Nat /\ nextItem \in Nat
    /\ remaining \in 0..Cardinality(Workers)
    /\ totalItems \in 0..MaxItems
    /\ alive \in SUBSET Workers /\ respawn \in SUBSET Workers
    /\ pc \in [Threads -> CallerPoints \cup WorkerPoints]
    /\ pc[Caller] \in CallerPoints
    /\ \A w \in Workers : pc[w] \in WorkerPoints
    /\ asleep \in SUBSET Threads
    /\ myGen \in [Workers -> Nat]
    /\ total \in [Threads -> 0..MaxItems] /\ idx \in [Threads -> Nat]
    /\ call \in 0..MaxItems /\ seqIdx \in 0..MaxItems
    /\ ran \in [Items -> Nat]

\* The quiescence barrier: while the caller writes the payload of a dispatch, or
\* is outside parallelFor, no worker is anywhere inside executeItems, so none
\* can pair one call's payload with another's; and whoever is about to call
\* currentFunc finds the function of the call in progress in it.
WorkersQuiescent ==
    /\ pc[Caller] \notin {"notifyWork", "readTotal", "claim", "run", "awaitQuiet"}
         => \A w \in Workers : pc[w] \notin {"readTotal", "claim", "run", "leave"}
    /\ \A t \in Threads : pc[t] = "run" => funcSet /\ total[t] = call

\* A worker serves a generation at most once and never one it was not counted
\* for: the workers still to leave are exactly those that have not served it.
BarrierCountsWorkers ==
    pc[Caller] \in {"notifyWork", "readTotal", "claim", "run", "awaitQuiet"}
        => remaining = Cardinality({w \in alive :
                           myGen[w] # gen
                           \/ pc[w] \in {"recheck", "readTotal", "claim", "run", "leave"}})

\* parallelFor runs each item exactly once, returns only after all of them, and
\* always returns: the promise of ForkJoin.
FJ == INSTANCE ForkJoin
ImplementsForkJoin == FJ!Spec

\* A shutdown (or the shutdown a prepare begins with) ends: every worker,
\* wherever it stands or sleeps, leaves its loop and is joined.
ShutdownEnds == (pc[Caller] = "stopBump") ~> (pc[Caller] = "idle")
===============================================================================
