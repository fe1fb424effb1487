----------------------------- MODULE EffectsEngine -----------------------------
(***************************************************************************)
(* effects/EffectsEngine.h and the batch of effects/EffectsEngineCore.h:   *)
(* the audio callback pulls the return of each effect, writes a block of   *)
(* every source into its ring and raises dataReady; the driver thread      *)
(* drains the rings in batches, each of which leaves a block in every      *)
(* return ring; the message thread prepares and releases the engine while  *)
(* the callback goes on.                                                   *)
(*                                                                         *)
(* Chains, matrices, guards and meters are left out: what is kept is which *)
(* samples a batch takes, how full the return rings are, and who may touch *)
(* the engine when.  A return ring is its fill; the pool's sweep is one    *)
(* step, after which the driver holds its join.                            *)
(***************************************************************************)
EXTENDS SharedInputRingBuffer, Sequences, SequencesExt

CONSTANTS
    SourceOrder,        \* the sources, in the row order the callback writes
    Effects,            \* the live effect channels
    Cushion,            \* returnCushionBlocks
    BacklogBlocks,      \* maxSourceBacklogBlocks
    ReturnRingBlocks,   \* returnRingBlocks
    MaxBatchesPerWake,  \* kMaxBatchesPerWake
    MaxCallbacks,       \* bound on the device callbacks
    MaxRebuilds         \* bound on prepare() and release()

\* prepare() refuses an engine without a source or without an effect; a source is
\* one row.
ASSUME EffectsAssumption ==
    /\ SourceOrder \in Seq(Sources) /\ ToSet(SourceOrder) = Sources
    /\ \A i, j \in DOMAIN SourceOrder : SourceOrder[i] = SourceOrder[j] => i = j
    /\ Sources # {} /\ Effects # {}
    /\ {Cushion, BacklogBlocks, ReturnRingBlocks, MaxBatchesPerWake} \subseteq Nat \ {0}
    /\ MaxCallbacks \in Nat /\ MaxRebuilds \in Nat

VARIABLES
    ready, procLock,      \* the flag, and who holds the spin lock
    cursors, consumed,    \* Sources -> the driver's cursor and its running total
    returnRing,           \* Effects -> samples in the return ring
    overflows,            \* Effects -> whether a block has not fitted whole
    dataReady,
    driver,               \* the driver thread: its place and locals
    audio,                \* the audio callback: its place and locals
    owner,                \* the message thread: its place and locals
    callbacks, rebuilds   \* so far

engine == <<ready, procLock, cursors, consumed, returnRing, overflows>>
vars == <<rvars, engine, dataReady, driver, audio, owner, callbacks, rebuilds>>

jmax(a, b) == IF a >= b THEN a ELSE b
First == SourceOrder[1]
Row(s) == CHOOSE i \in DOMAIN SourceOrder : SourceOrder[i] = s
IsLast(s) == Row(s) = Len(SourceOrder)
NextSource(s) == SourceOrder[Row(s) + 1]

returnRingBlocks == jmax(ReturnRingBlocks, jmax(1, Cushion) + 3)
returnCushion == jmax(1, Cushion)

\* A LockFreeRingBuffer keeps one slot empty.
ReturnCapacity == returnRingBlocks * Block - 1

Idle == [at |-> "idle", src |-> First, lapped |-> FALSE, minAvail |-> 0,
         counted |-> 0, batches |-> 0]

Init ==
    /\ RingsInit
    /\ ready = FALSE
    /\ procLock = "free"
    /\ cursors = [s \in Sources |-> 0]
    /\ consumed = [s \in Sources |-> 0]
    /\ returnRing = [f \in Effects |-> 0]
    /\ overflows = [f \in Effects |-> FALSE]
    /\ dataReady = FALSE
    /\ driver = [Idle EXCEPT !.at = "stopped"]
    /\ audio = [at |-> "idle", src |-> First, avail |-> 0, left |-> Effects]
    /\ owner = [at |-> "idle", src |-> First, then |-> "none"]
    /\ callbacks = 0
    /\ rebuilds = 0
-------------------------------------------------------------------------------
\* The driver thread.

DriverAt(place) == driver.at = place
Drive(next) ==
    /\ driver' = next
    /\ UNCHANGED <<rvars, ready, procLock, returnRing, overflows, audio, owner,
                   callbacks, rebuilds>>
Look(next) == Drive(next) /\ UNCHANGED <<cursors, consumed, dataReady>>

\* run(): threadShouldExit, then the flag.
Exit ==
    /\ DriverAt("idle") /\ owner.at = "join"
    /\ Look([driver EXCEPT !.at = "stopped"])

Wake ==
    /\ DriverAt("idle") /\ dataReady
    /\ dataReady' = FALSE
    /\ Drive([Idle EXCEPT !.at = "batch"])
    /\ UNCHANGED <<cursors, consumed>>

\* drainAvailable: the next batch, or none.
BeginBatch ==
    /\ DriverAt("batch")
    /\ Look(IF ready /\ driver.batches < MaxBatchesPerWake
            THEN [driver EXCEPT !.at = "lap", !.src = First, !.lapped = FALSE]
            ELSE Idle)

\* written - taken > capacity - n, in unsigned arithmetic: a total behind
\* what was taken wraps to something enormous.
Lapped(s) ==
    \/ totalWritten[s] < consumed[s]
    \/ totalWritten[s] - consumed[s] > RingSize - Block

\* Where the driver goes when it is done with source s in one of its loops.
After(s, loop, done) ==
    IF IsLast(s) THEN [driver EXCEPT !.at = done, !.src = First]
                 ELSE [driver EXCEPT !.at = loop, !.src = NextSource(s)]

TestLap ==
    LET s == driver.src IN
    /\ DriverAt("lap")
    /\ Look(IF Lapped(s) /\ RingSize > Block
            THEN [driver EXCEPT !.at = "lapCount", !.lapped = TRUE]
            ELSE After(s, "lap", "gate"))

\* resyncSourceToNewest: the counter first, then the position.
ResyncCount ==
    /\ driver.at \in {"lapCount", "skipCount"}
    /\ Look([driver EXCEPT !.counted = totalWritten[driver.src],
                           !.at = IF @ = "lapCount" THEN "lapMove" ELSE "skipMove"])

ResyncMove ==
    LET s == driver.src
        avail == getAvailableAt(s, cursors[s])
        lag == jmin(avail, Block) IN
    /\ driver.at \in {"lapMove", "skipMove"}
    /\ cursors' = [cursors EXCEPT ![s] = (@ + jmax(0, avail - Block)) % RingSize]
    /\ consumed' = [consumed EXCEPT ![s] = jmax(0, driver.counted - lag)]
    /\ Drive(IF DriverAt("lapMove") THEN After(s, "lap", "gate")
                                    ELSE After(s, "skipCount", "read"))
    /\ UNCHANGED dataReady

\* Mutant: a backlog is worked through.
WorkThrough(least) ==
    IF least < Block THEN Idle
    ELSE [driver EXCEPT !.src = First, !.minAvail = least, !.at = "read"]

\* What the least available decides: nothing to do, a backlog to skip, a batch.
Decide(least) ==
    IF least < Block THEN Idle
    ELSE [driver EXCEPT !.src = First, !.minAvail = least,
            !.at = IF least > BacklogBlocks * Block THEN "skipCount" ELSE "read"]

Least(s) ==
    LET avail == getAvailableAt(s, cursors[s]) IN
    IF s = First THEN avail ELSE jmin(driver.minAvail, avail)

\* Mutant: the flag is cleared again when there is nothing left to do.
GateClearingFlag ==
    LET s == driver.src IN
    /\ DriverAt("gate")
    /\ dataReady' = (dataReady /\ ~(IsLast(s) /\ Least(s) < Block))
    /\ Drive(IF IsLast(s) THEN Decide(Least(s))
             ELSE [driver EXCEPT !.minAvail = Least(s), !.src = NextSource(s)])
    /\ UNCHANGED <<cursors, consumed>>

\* The availability gate: the least available of the sources, which are
\* looked at one after the other.
Gate ==
    LET s == driver.src IN
    /\ DriverAt("gate")
    /\ Look(IF IsLast(s) THEN Decide(Least(s))
            ELSE [driver EXCEPT !.minAvail = Least(s), !.src = NextSource(s)])

\* readWithPosition, one source after the other.
Read ==
    LET s == driver.src
        got == jmin(Block, getAvailableAt(s, cursors[s])) IN
    /\ DriverAt("read")
    /\ cursors' = [cursors EXCEPT ![s] = (@ + got) % RingSize]
    /\ consumed' = [consumed EXCEPT ![s] = @ + got]
    /\ Drive(After(s, "read", "sweep"))
    /\ UNCHANGED dataReady

\* The sweep: every channel writes its return ring, as much as fits.
Sweep ==
    /\ DriverAt("sweep")
    /\ returnRing' = [f \in Effects |-> jmin(returnRing[f] + Block, ReturnCapacity)]
    /\ overflows' = [f \in Effects |->
                       overflows[f] \/ returnRing[f] + Block > ReturnCapacity]
    /\ driver' = [driver EXCEPT !.at = "batch", !.batches = @ + 1]
    /\ UNCHANGED <<rvars, ready, procLock, cursors, consumed, dataReady, audio,
                   owner, callbacks, rebuilds>>

Driver ==
    \/ Exit \/ Wake \/ BeginBatch \/ TestLap \/ ResyncCount \/ ResyncMove
    \/ Gate \/ Read \/ Sweep
-------------------------------------------------------------------------------
\* The audio callback.

Play(next) ==
    /\ audio' = next
    /\ UNCHANGED <<ready, cursors, consumed, driver, owner, rebuilds>>

Callback ==
    /\ audio.at = "idle" /\ callbacks < MaxCallbacks
    /\ callbacks' = callbacks + 1
    /\ Play([audio EXCEPT !.at = "pull", !.left = Effects])
    /\ UNCHANGED <<rvars, procLock, returnRing, overflows, dataReady>>

Pulled(f) == LET rest == audio.left \ {f} IN
    [audio EXCEPT !.left = rest, !.avail = 0, !.at = IF rest = {} THEN "count" ELSE "pull",
                  !.src = First]

\* pullReturn of the next effect: silence when the engine is not ready, when
\* the lock is taken, or when the flag fell before it was.
PullSilence ==
    /\ audio.at = "pull"
    /\ ~ready \/ procLock # "free"
    /\ Play(Pulled(CHOOSE f \in audio.left : TRUE))
    /\ UNCHANGED <<rvars, procLock, returnRing, overflows, dataReady, callbacks>>

\* Mutant: the try-lock's answer is not looked at.
PullAnyway ==
    /\ audio.at = "pull"
    /\ ready
    /\ procLock' = "audio"
    /\ Play([audio EXCEPT !.at = "locked",
                          !.avail = returnRing[CHOOSE f \in audio.left : TRUE]])
    /\ UNCHANGED <<rvars, returnRing, overflows, dataReady, callbacks>>

PullLock ==
    /\ audio.at = "pull"
    /\ ready /\ procLock = "free"
    /\ procLock' = "audio"
    /\ Play([audio EXCEPT !.at = "locked",
                          !.avail = returnRing[CHOOSE f \in audio.left : TRUE]])
    /\ UNCHANGED <<rvars, returnRing, overflows, dataReady, callbacks>>

\* Under the lock: what is above the cushion is discarded, then a block is
\* read if there is one.
PullRead ==
    LET f == CHOOSE g \in audio.left : TRUE
        surplus == jmax(0, audio.avail - jmax(returnCushion * Block, Block))
        block == IF audio.avail - surplus < Block THEN 0 ELSE Block IN
    /\ audio.at = "locked"
    /\ returnRing' = [returnRing EXCEPT ![f] = @ - surplus - block]
    /\ procLock' = "free"
    /\ Play(Pulled(f))
    /\ UNCHANGED <<rvars, overflows, dataReady, callbacks>>

\* The callback writes its sources one after the other, two stores each.
WriteCount ==
    /\ audio.at = "count"
    /\ CountWritten(audio.src)
    /\ Play([audio EXCEPT !.at = "publish"])
    /\ UNCHANGED <<procLock, returnRing, overflows, dataReady, callbacks>>

WritePublish ==
    /\ audio.at = "publish"
    /\ PublishPosition(audio.src)
    /\ Play(IF IsLast(audio.src) THEN [audio EXCEPT !.at = "notify", !.src = First]
            ELSE [audio EXCEPT !.at = "count", !.src = NextSource(@)])
    /\ UNCHANGED <<procLock, returnRing, overflows, dataReady, callbacks>>

notifyInputAvailable ==
    /\ audio.at = "notify"
    /\ dataReady' = TRUE
    /\ Play([audio EXCEPT !.at = "idle"])
    /\ UNCHANGED <<rvars, procLock, returnRing, overflows, callbacks>>

Audio ==
    \/ PullSilence \/ PullLock \/ PullRead
    \/ WriteCount \/ WritePublish \/ notifyInputAvailable
-------------------------------------------------------------------------------
\* The message thread: EffectsEngine::prepare and release join the driver,
\* then EffectsEngineCore's take the lock.

Own(next) ==
    /\ owner' = next
    /\ UNCHANGED <<rvars, audio, callbacks>>

BeginRebuild ==
    /\ owner.at = "idle" /\ rebuilds < MaxRebuilds
    /\ rebuilds' = rebuilds + 1
    /\ \E call \in {"prepare", "release"} :
         Own([owner EXCEPT !.at = "join", !.then = call])
    /\ UNCHANGED <<engine, dataReady, driver>>

Joined ==
    /\ owner.at = "join" /\ DriverAt("stopped")
    /\ dataReady' = FALSE
    /\ Own([owner EXCEPT !.at = "lock"])
    /\ UNCHANGED <<engine, driver, rebuilds>>

\* The lock is held from here to the end; ready falls and everything is freed.
LockAndFree ==
    /\ owner.at = "lock" /\ procLock = "free"
    /\ procLock' = "owner"
    /\ ready' = FALSE
    /\ returnRing' = [f \in Effects |-> 0]
    /\ cursors' = [s \in Sources |-> 0]
    /\ consumed' = [s \in Sources |-> 0]
    /\ Own([owner EXCEPT !.src = First,
              !.at = IF owner.then = "prepare" /\ RingSize >= 2 * Block
                     THEN "seedCursor" ELSE "unlock"])
    /\ UNCHANGED <<overflows, dataReady, driver, rebuilds>>

\* Every source starts at the head: the position first, then the counter.
SeedCursor ==
    /\ owner.at = "seedCursor"
    /\ cursors' = [cursors EXCEPT ![owner.src] = getAvailableAt(owner.src, 0)]
    /\ Own([owner EXCEPT !.at = "seedCount"])
    /\ UNCHANGED <<ready, procLock, consumed, returnRing, overflows, dataReady, driver,
                   rebuilds>>

SeedCount ==
    /\ owner.at = "seedCount"
    /\ consumed' = [consumed EXCEPT ![owner.src] = totalWritten[owner.src]]
    /\ Own(IF IsLast(owner.src) THEN [owner EXCEPT !.at = "publish", !.src = First]
           ELSE [owner EXCEPT !.at = "seedCursor", !.src = NextSource(@)])
    /\ UNCHANGED <<ready, procLock, cursors, returnRing, overflows, dataReady, driver,
                   rebuilds>>

\* The return rings are primed with the cushion, the telemetry is cleared and
\* ready is raised.
PublishReady ==
    /\ owner.at = "publish"
    /\ returnRing' = [f \in Effects |-> returnCushion * Block]
    /\ overflows' = [f \in Effects |-> FALSE]
    /\ ready' = TRUE
    /\ Own([owner EXCEPT !.at = "unlock"])
    /\ UNCHANGED <<procLock, cursors, consumed, dataReady, driver, rebuilds>>

\* The owner starts the thread again when prepare() has said yes.
UnlockAndStart ==
    /\ owner.at = "unlock"
    /\ procLock' = "free"
    /\ driver' = IF ready THEN Idle ELSE driver
    /\ Own([owner EXCEPT !.at = "idle", !.then = "none"])
    /\ UNCHANGED <<ready, cursors, consumed, returnRing, overflows, dataReady, rebuilds>>

Owner ==
    \/ Joined \/ LockAndFree \/ SeedCursor \/ SeedCount \/ PublishReady \/ UnlockAndStart

Next == Callback \/ Audio \/ Driver \/ BeginRebuild \/ Owner

\* The scheduler runs the threads; the callback never blocks, and the driver
\* looks at the flag at least every millisecond.
Fairness == WF_vars(Audio) /\ WF_vars(Driver) /\ WF_vars(Owner)
Spec == Init /\ [][Next]_vars /\ Fairness
-------------------------------------------------------------------------------
Places == {"stopped", "idle", "batch", "lap", "lapCount", "lapMove", "gate",
           "skipCount", "skipMove", "read", "sweep"}
InBatch == driver.at \notin {"stopped", "idle"}

\* Types, and what the lock and the flag bound.
TypeOK ==
    /\ totalWritten \in [Sources -> Nat] /\ writePos \in [Sources -> 0..(RingSize - 1)]
    /\ ready \in BOOLEAN /\ procLock \in {"free", "audio", "owner"}
    /\ cursors \in [Sources -> 0..(RingSize - 1)] /\ consumed \in [Sources -> Nat]
    /\ returnRing \in [Effects -> 0..ReturnCapacity]
    /\ overflows \in [Effects -> BOOLEAN] /\ dataReady \in BOOLEAN
    /\ driver.at \in Places /\ driver.src \in Sources
    /\ driver.batches \in 0..MaxBatchesPerWake

\* Nobody is inside what a rebuild frees: while the owner rebuilds, the driver
\* is out of run() and the callback holds no return ring; and a callback that
\* holds one holds it of a prepared engine (EffectsEngineCore.h:104-111).
RebuildAlone ==
    /\ owner.at \in {"seedCursor", "seedCount", "publish", "unlock"} =>
         driver.at = "stopped" /\ audio.at # "locked" /\ procLock = "owner"
    /\ audio.at = "locked" => ready /\ procLock = "audio"

\* However late the driver is, what it makes up for between two pulls fits in
\* the return rings: the backlog skip bounds the batches, the callback's
\* discard the rest.  A block that does not fit is cut, and every block after
\* it is heard shifted by the cut.
ReturnsFit == \A f \in Effects : ~overflows[f]

\* No wake-up is lost: a driver left alone always comes to the end of what is
\* complete on every source, also when the last notification came during a
\* batch (EffectsEngine.h:27-31).
DrainsToTheEnd ==
    (DriverAt("idle") /\ \A s \in Sources : getAvailableAt(s, cursors[s]) >= Block)
    ~> (DriverAt("stopped") \/ \E s \in Sources : getAvailableAt(s, cursors[s]) < Block)

\* The backlog skip leaves no latency behind: "it jumps to the newest block
\* rather than working through the backlog, so latency never creeps here
\* either" (EffectsEngineCore.h:166-167).  When everything is handled no source
\* has a complete block waiting.
LatencyNeverCreeps ==
    (DriverAt("idle") /\ ~dataReady /\ audio.at = "idle" /\ owner.at = "idle") =>
      \A s \in Sources : getAvailableAt(s, cursors[s]) < Block
===============================================================================
