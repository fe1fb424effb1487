--------------------------- MODULE AudioParallelFor ---------------------------
(***************************************************************************)
(* The fork-join pool of rt/AudioParallelFor.h, one action per atomic      *)
(* access, critical section or call of the item function.                  *)
(*                                                                         *)
(* One thread (Caller) calls prepare, parallelFor and shutdown; Workers    *)
(* are the threads prepare may spawn.  A critical section that stores one  *)
(* flag is one step, and so is a condition-variable wait that tests its    *)
(* predicate and either leaves or falls asleep: the mutex of the section   *)
(* makes each of them atomic for the other threads.  The notify that       *)
(* follows a section is a step of its own, as the code notifies after it   *)
(* has unlocked.                                                           *)
(***************************************************************************)
EXTENDS Integers, FiniteSets

CONSTANTS
    Caller,      \* the thread that owns the pool
    Workers,     \* the worker threads prepare() may spawn
    MaxItems,    \* bound: the largest count parallelFor is called with
    MaxClaim     \* bound: no re-prepare once the claim index has passed this

ASSUME PoolAssumption ==
    /\ Caller \notin Workers
    /\ IsFiniteSet(Workers)
    /\ MaxItems \in Nat
    /\ MaxClaim \in Nat

Threads == Workers \cup {Caller}
Items == 0..(MaxItems - 1)

VARIABLES
    running,     \* std::atomic<bool> running
    dispatch,    \* std::atomic<bool> dispatch
    claim,       \* nextClaim: the published count and the next unclaimed index
    doneCount,   \* std::atomic<int> doneCount
    funcSet,     \* currentFunc holds the function of the call in progress
    alive,       \* the std::thread objects in `workers`
    respawn,     \* the workers a prepare() in progress spawns after shutdown()
    pc,          \* where each thread stands
    asleep,      \* the threads blocked in a condition-variable wait
    mine,        \* the claim a thread is serving: its index and its count
    call,        \* `count` of the parallelFor in progress, 0 outside
    seqIdx,      \* loop index of the sequential fallback
    ran          \* history: how often each item of the call in progress has run

NoneRan == [i \in Items |-> 0]
NoClaim == [total |-> 0, idx |-> 0]

vars == <<running, dispatch, claim, doneCount, funcSet, alive, respawn, pc,
          asleep, mine, call, seqIdx, ran>>

shared == <<running, dispatch, claim, doneCount, funcSet>>
owned  == <<alive, respawn, call, seqIdx>>

\* A step of thread t from one program point to another.
Go(t, from, to) ==
    /\ pc[t] = from
    /\ t \notin asleep
    /\ pc' = [pc EXCEPT ![t] = to]

\* A condition-variable wait of t at `at`: leave for `to` when the predicate
\* holds, fall asleep otherwise; a notified thread tests the predicate again.
WaitFor(t, at, pred, to) ==
    /\ pc[t] = at
    /\ t \notin asleep
    /\ IF pred
         THEN pc' = [pc EXCEPT ![t] = to] /\ UNCHANGED asleep
         ELSE asleep' = asleep \cup {t} /\ UNCHANGED pc

-------------------------------------------------------------------------------
(* The caller *)

\* prepare(|S|), which begins with shutdown(); with S = {} it is shutdown().
Reprepare(S) ==
    /\ pc[Caller] = "idle"
    /\ alive # {} \/ S # {}
    /\ S # {} => claim.next <= MaxClaim
    /\ respawn' = S
    /\ IF alive = {}
         THEN pc' = [pc EXCEPT ![Caller] = "spawn"] /\ UNCHANGED running
         ELSE pc' = [pc EXCEPT ![Caller] = "stopRaise"] /\ running' = FALSE
    /\ UNCHANGED <<dispatch, claim, doneCount, funcSet, alive, asleep, mine,
                   call, seqIdx, ran>>

\* Mutant: shutdown() lowers `running` and leaves `dispatch` alone.
StopWithoutDispatch ==
    /\ Go(Caller, "stopRaise", "stopNotify")
    /\ UNCHANGED <<shared, owned, asleep, mine, ran>>

StopRaise ==
    /\ Go(Caller, "stopRaise", "stopNotify")
    /\ dispatch' = TRUE
    /\ UNCHANGED <<running, claim, doneCount, funcSet, owned, asleep, mine, ran>>

StopNotify ==
    /\ Go(Caller, "stopNotify", "join")
    /\ asleep' = asleep \ Workers
    /\ UNCHANGED <<shared, owned, mine, ran>>

\* join() returns once every worker has left workerLoop.
Join ==
    /\ \A w \in alive : pc[w] = "ended"
    /\ Go(Caller, "join", IF respawn = {} THEN "idle" ELSE "spawn")
    /\ alive' = {}
    /\ UNCHANGED <<shared, respawn, asleep, mine, call, seqIdx, ran>>

Spawn ==
    /\ pc[Caller] = "spawn"
    /\ running' = TRUE
    /\ alive' = respawn
    /\ respawn' = {}
    /\ pc' = [t \in Threads |-> CASE t = Caller    -> "idle"
                                  [] t \in respawn -> "test"
                                  [] OTHER         -> pc[t]]
    /\ UNCHANGED <<dispatch, claim, doneCount, funcSet, asleep, mine, call,
                   seqIdx, ran>>

ParallelFor(n) ==
    /\ Go(Caller, "idle", IF alive = {} \/ n = 1 THEN "seq" ELSE "setFunc")
    /\ call' = n
    /\ UNCHANGED <<shared, alive, respawn, asleep, mine, seqIdx, ran>>

\* Mutant: the fallback loop counts i <= count.
SeqItemPastEnd ==
    /\ pc[Caller] = "seq"
    /\ seqIdx <= call
    /\ ran' = [ran EXCEPT ![seqIdx] = @ + 1]
    /\ seqIdx' = seqIdx + 1
    /\ UNCHANGED <<shared, alive, respawn, pc, asleep, mine, call>>

\* The sequential fallback runs func(i) itself, in order.
SeqItem ==
    /\ pc[Caller] = "seq"
    /\ seqIdx < call
    /\ ran' = [ran EXCEPT ![seqIdx] = @ + 1]
    /\ seqIdx' = seqIdx + 1
    /\ UNCHANGED <<shared, alive, respawn, pc, asleep, mine, call>>

SeqReturn ==
    /\ seqIdx >= call
    /\ Go(Caller, "seq", "idle")
    /\ call' = 0
    /\ seqIdx' = 0
    /\ ran' = NoneRan
    /\ UNCHANGED <<shared, alive, respawn, asleep, mine>>

SetFunc ==
    /\ Go(Caller, "setFunc", "resetDone")
    /\ funcSet' = TRUE
    /\ UNCHANGED <<running, dispatch, claim, doneCount, owned, asleep, mine, ran>>

\* Mutant: doneCount keeps the count of the previous dispatch.
KeepDone ==
    /\ Go(Caller, "resetDone", "publish")
    /\ UNCHANGED <<shared, owned, asleep, mine, ran>>

ResetDone ==
    /\ Go(Caller, "resetDone", "publish")
    /\ doneCount' = 0
    /\ UNCHANGED <<running, dispatch, claim, funcSet, owned, asleep, mine, ran>>

PublishClaim ==
    /\ Go(Caller, "publish", "raise")
    /\ claim' = [total |-> call, next |-> 0]
    /\ UNCHANGED <<running, dispatch, doneCount, funcSet, owned, asleep, mine, ran>>

RaiseDispatch ==
    /\ Go(Caller, "raise", "notifyWork")
    /\ dispatch' = TRUE
    /\ UNCHANGED <<running, claim, doneCount, funcSet, owned, asleep, mine, ran>>

\* Mutant: notify_one, which wakes a single worker, in place of notify_all.
NotifyOneWorker ==
    /\ Go(Caller, "notifyWork", "claim")
    /\ \/ \E w \in asleep \cap Workers : asleep' = asleep \ {w}
       \/ asleep \cap Workers = {} /\ UNCHANGED asleep
    /\ UNCHANGED <<shared, owned, mine, ran>>

NotifyWork ==
    /\ Go(Caller, "notifyWork", "claim")
    /\ asleep' = asleep \ Workers
    /\ UNCHANGED <<shared, owned, mine, ran>>

\* Mutant: the caller stops waiting one item early.
AwaitAllButOne ==
    /\ WaitFor(Caller, "awaitDone", doneCount >= call - 1, "lower")
    /\ UNCHANGED <<shared, owned, mine, ran>>

AwaitDone ==
    /\ WaitFor(Caller, "awaitDone", doneCount >= call, "lower")
    /\ UNCHANGED <<shared, owned, mine, ran>>

LowerDispatch ==
    /\ Go(Caller, "lower", "notifyIdle")
    /\ dispatch' = FALSE
    /\ UNCHANGED <<running, claim, doneCount, funcSet, owned, asleep, mine, ran>>

NotifyIdle ==
    /\ Go(Caller, "notifyIdle", "clearFunc")
    /\ asleep' = asleep \ Workers
    /\ UNCHANGED <<shared, owned, mine, ran>>

ClearFunc ==
    /\ Go(Caller, "clearFunc", "idle")
    /\ funcSet' = FALSE
    /\ call' = 0
    /\ ran' = NoneRan
    /\ UNCHANGED <<running, dispatch, claim, doneCount, alive, respawn, asleep,
                   mine, seqIdx>>

-------------------------------------------------------------------------------
(* executeItems(), run by the caller and by the workers *)

\* One fetch_add takes the next index together with the count it belongs to.
Claim(t) ==
    LET won == claim.next < claim.total IN
    /\ Go(t, "claim", IF won THEN "run"
                      ELSE IF t = Caller THEN "awaitDone" ELSE "awaitIdle")
    /\ mine' = IF won
                 THEN [mine EXCEPT ![t] = [total |-> claim.total, idx |-> claim.next]]
                 ELSE mine
    /\ claim' = [claim EXCEPT !.next = @ + 1]
    /\ UNCHANGED <<running, dispatch, doneCount, funcSet, owned, asleep, ran>>

\* `if (currentFunc) currentFunc (idx);`
RunItem(t) ==
    /\ Go(t, "run", "count")
    /\ ran' = IF funcSet THEN [ran EXCEPT ![mine[t].idx] = @ + 1] ELSE ran
    /\ UNCHANGED <<shared, owned, asleep, mine>>

CountItem(t) ==
    /\ Go(t, "count", IF doneCount + 1 >= mine[t].total THEN "signal" ELSE "claim")
    /\ doneCount' = doneCount + 1
    /\ mine' = [mine EXCEPT ![t] = NoClaim]
    /\ UNCHANGED <<running, dispatch, claim, funcSet, owned, asleep, ran>>

\* notify_one under doneMutex: only the caller ever waits on doneCV.
SignalDone(t) ==
    /\ Go(t, "signal", "claim")
    /\ asleep' = asleep \ {Caller}
    /\ UNCHANGED <<shared, owned, mine, ran>>

-------------------------------------------------------------------------------
(* workerLoop() *)

TestRunning(w) ==
    /\ Go(w, "test", IF running THEN "awaitWork" ELSE "ended")
    /\ UNCHANGED <<shared, owned, asleep, mine, ran>>

AwaitWork(w) ==
    /\ WaitFor(w, "awaitWork", dispatch, "recheck")
    /\ UNCHANGED <<shared, owned, mine, ran>>

RecheckRunning(w) ==
    /\ Go(w, "recheck", IF running THEN "claim" ELSE "ended")
    /\ UNCHANGED <<shared, owned, asleep, mine, ran>>

AwaitIdle(w) ==
    /\ WaitFor(w, "awaitIdle", ~dispatch \/ ~running, "test")
    /\ UNCHANGED <<shared, owned, mine, ran>>

\* A condition variable may wake a thread that nobody notified.
SpuriousWake(t) ==
    /\ t \in asleep
    /\ asleep' = asleep \ {t}
    /\ UNCHANGED <<shared, owned, pc, mine, ran>>

-------------------------------------------------------------------------------
Init ==
    /\ running = FALSE
    /\ dispatch = FALSE
    /\ claim = [total |-> 0, next |-> 0]
    /\ doneCount = 0
    /\ funcSet = FALSE
    /\ alive = {}
    /\ respawn = {}
    /\ pc = [t \in Threads |-> IF t = Caller THEN "idle" ELSE "ended"]
    /\ asleep = {}
    /\ mine = [t \in Threads |-> NoClaim]
    /\ call = 0
    /\ seqIdx = 0
    /\ ran = NoneRan

ExecuteItems(t) == Claim(t) \/ RunItem(t) \/ CountItem(t) \/ SignalDone(t)

\* What the caller does inside a call it has made.
CallerStep ==
    \/ StopRaise \/ StopNotify \/ Join \/ Spawn
    \/ SeqItem \/ SeqReturn
    \/ SetFunc \/ ResetDone \/ PublishClaim \/ RaiseDispatch \/ NotifyWork
    \/ AwaitDone \/ LowerDispatch \/ NotifyIdle \/ ClearFunc
    \/ ExecuteItems(Caller)

WorkerStep(w) ==
    \/ TestRunning(w) \/ AwaitWork(w) \/ RecheckRunning(w) \/ AwaitIdle(w)
    \/ ExecuteItems(w)

Next ==
    \/ \E S \in SUBSET Workers : Reprepare(S)
    \/ \E n \in 1..MaxItems : ParallelFor(n)
    \/ CallerStep
    \/ \E w \in Workers : WorkerStep(w)
    \/ \E t \in Threads : SpuriousWake(t)

Safety == Init /\ [][Next]_vars

\* The operating system runs every thread that can run; nobody has to make a
\* call, and nothing has to wake spuriously.
Fairness == WF_vars(CallerStep) /\ \A w \in Workers : WF_vars(WorkerStep(w))

Spec == Safety /\ Fairness

-------------------------------------------------------------------------------
(* Properties *)

CallerPoints ==
    {"idle", "spawn", "stopRaise", "stopNotify", "join", "seq", "setFunc",
     "resetDone", "publish", "raise", "notifyWork", "claim", "run", "count",
     "signal", "awaitDone", "lower", "notifyIdle", "clearFunc"}
WorkerPoints ==
    {"ended", "test", "awaitWork", "recheck", "claim", "run", "count", "signal",
     "awaitIdle"}

\* Every variable keeps its type, and an item index in use is one of the call.
TypeOK ==
    /\ running \in BOOLEAN /\ dispatch \in BOOLEAN /\ funcSet \in BOOLEAN
    /\ claim \in [total : 0..MaxItems, next : Nat]
    /\ doneCount \in Nat
    /\ alive \in SUBSET Workers /\ respawn \in SUBSET Workers
    /\ pc \in [Threads -> CallerPoints \cup WorkerPoints]
    /\ pc[Caller] \in CallerPoints
    /\ \A w \in Workers : pc[w] \in WorkerPoints
    /\ asleep \in SUBSET Threads
    /\ mine \in [Threads -> [total : 0..MaxItems, idx : Nat]]
    /\ call \in 0..MaxItems
    /\ seqIdx \in 0..MaxItems
    /\ ran \in [Items -> Nat]

\* currentFunc is a plain std::function holding a reference to the caller's
\* frame: while the caller is about to write it, or is outside parallelFor, no
\* worker may be about to call it, stragglers of an earlier dispatch included.
NoFunctionRace ==
    pc[Caller] \in {"setFunc", "clearFunc", "idle", "spawn", "seq", "stopRaise"}
        => \A w \in Workers : pc[w] # "run"

\* No lost wake-up: a worker sleeps through a raised dispatch, a lowered one or
\* a shutdown only while the notify that wakes it is still to come.
NoLostWakeup ==
    \A w \in asleep \cap Workers :
        /\ pc[w] = "awaitWork" /\ dispatch
             => pc[Caller] \in {"notifyWork", "stopNotify"}
        /\ pc[w] = "awaitIdle" /\ ~dispatch => pc[Caller] = "notifyIdle"
        /\ ~running => pc[Caller] \in {"stopRaise", "stopNotify"}

\* parallelFor runs each item exactly once, with the function of its own call,
\* returns only after all of them, and always returns: the promise of ForkJoin.
FJ == INSTANCE ForkJoin
ImplementsForkJoin == FJ!Spec

\* A shutdown (or the shutdown a prepare begins with) ends: every worker,
\* wherever it stands or sleeps, leaves its loop and is joined.
ShutdownEnds == (pc[Caller] = "stopRaise") ~> (pc[Caller] = "idle")
===============================================================================
