---------------------------- MODULE RtTripleBuffer ----------------------------
(***************************************************************************)
(* The wait-free hand-off of rt/RtTripleBuffer.h: one writer thread that   *)
(* calls publish(), one reader thread that calls acquire() and             *)
(* hasPending().  The copy into a slot is not atomic: between its first    *)
(* and its last store the slot holds Torn.  The load and the exchange of   *)
(* `latest` are one step each.  A name LockFreeRingBuffer has too begins   *)
(* with Buffer here: RtProofs extends both modules.                        *)
(***************************************************************************)
EXTENDS Naturals

CONSTANTS
    Values,       \* the snapshots that can be published
    Default,      \* T{}, the value of every slot at construction
    Torn          \* a slot whose copy is under way

ASSUME BufferAssumption == Default \in Values /\ Torn \notin Values

Indices == 0..2

VARIABLES
    slots,        \* std::array<T, 3> slots
    latest,       \* std::atomic<uint8_t> latest: the index and the dirty bit
    writeIndex,   \* writer thread only
    readIndex,    \* reader thread only
    writerPc,     \* where the writer stands in publish()
    readerPc,     \* where the reader stands in acquire()
    next,         \* the argument of the publish() under way
    sawPending,   \* hasPending() returned true since the last acquire()
    published     \* history: the value of the last publish() that took effect

bufferVars == <<slots, latest, writeIndex, readIndex, writerPc, readerPc, next,
                sawPending, published>>

writerOwn == <<writeIndex, writerPc, next>>
readerOwn == <<readIndex, readerPc, sawPending>>

BufferInit ==
    /\ slots = [i \in Indices |-> Default]
    /\ latest = [idx |-> 2, dirty |-> FALSE]
    /\ writeIndex = 0
    /\ readIndex = 1
    /\ writerPc = "idle"
    /\ readerPc = "idle"
    /\ next = Default
    /\ sawPending = FALSE
    /\ published = Default

-------------------------------------------------------------------------------
(* publish (next) *)

BeginCopy(v) ==
    /\ writerPc = "idle"
    /\ writerPc' = "copying"
    /\ next' = v
    /\ slots' = [slots EXCEPT ![writeIndex] = Torn]
    /\ UNCHANGED <<latest, writeIndex, readerOwn, published>>

EndCopy ==
    /\ writerPc = "copying"
    /\ writerPc' = "exchange"
    /\ slots' = [slots EXCEPT ![writeIndex] = next]
    /\ UNCHANGED <<latest, writeIndex, next, readerOwn, published>>

\* Mutant: the exchanged byte is used as an index with its dirty bit.
PublishUnmasked ==
    /\ writerPc = "exchange"
    /\ writerPc' = "idle"
    /\ latest' = [idx |-> writeIndex, dirty |-> TRUE]
    /\ writeIndex' = latest.idx + IF latest.dirty THEN 4 ELSE 0
    /\ published' = next
    /\ UNCHANGED <<slots, next, readerOwn>>

\* Mutant: the writer stores its index and does not take the old one.
PublishKeepingSlot ==
    /\ writerPc = "exchange"
    /\ writerPc' = "idle"
    /\ latest' = [idx |-> writeIndex, dirty |-> TRUE]
    /\ published' = next
    /\ UNCHANGED <<slots, writeIndex, next, readerOwn>>

PublishExchange ==
    /\ writerPc = "exchange"
    /\ writerPc' = "idle"
    /\ latest' = [idx |-> writeIndex, dirty |-> TRUE]
    /\ writeIndex' = latest.idx
    /\ published' = next
    /\ UNCHANGED <<slots, next, readerOwn>>

-------------------------------------------------------------------------------
(* acquire() and hasPending() *)

CallAcquire ==
    /\ readerPc = "idle"
    /\ readerPc' = "load"
    /\ UNCHANGED <<slots, latest, writerOwn, readIndex, sawPending, published>>

\* Mutant: acquire() returns without looking at the dirty bit.
AcquireBlindly ==
    /\ readerPc = "load"
    /\ readerPc' = "idle"
    /\ sawPending' = FALSE
    /\ UNCHANGED <<slots, latest, writerOwn, readIndex, published>>

\* Nothing new: return the slot the reader holds already.
AcquireClean ==
    /\ readerPc = "load"
    /\ ~latest.dirty
    /\ readerPc' = "idle"
    /\ sawPending' = FALSE
    /\ UNCHANGED <<slots, latest, writerOwn, readIndex, published>>

AcquireDirty ==
    /\ readerPc = "load"
    /\ latest.dirty
    /\ readerPc' = "exchange"
    /\ UNCHANGED <<slots, latest, writerOwn, readIndex, sawPending, published>>

AcquireExchange ==
    /\ readerPc = "exchange"
    /\ readerPc' = "idle"
    /\ latest' = [idx |-> readIndex, dirty |-> FALSE]
    /\ readIndex' = latest.idx
    /\ sawPending' = FALSE
    /\ UNCHANGED <<slots, writerOwn, published>>

HasPending ==
    /\ readerPc = "idle"
    /\ sawPending' = (sawPending \/ latest.dirty)
    /\ UNCHANGED <<slots, latest, writerOwn, readIndex, readerPc, published>>

-------------------------------------------------------------------------------
BufferNext ==
    \/ \E v \in Values : BeginCopy(v)
    \/ EndCopy
    \/ PublishExchange
    \/ CallAcquire
    \/ AcquireClean
    \/ AcquireDirty
    \/ AcquireExchange
    \/ HasPending

BufferSpec == BufferInit /\ [][BufferNext]_bufferVars

-------------------------------------------------------------------------------
(* Properties *)

BufferTypeOK ==
    /\ slots \in [Indices -> Values \cup {Torn}]
    /\ latest \in [idx : Indices, dirty : BOOLEAN]
    /\ writeIndex \in Indices /\ readIndex \in Indices
    /\ writerPc \in {"idle", "copying", "exchange"}
    /\ readerPc \in {"idle", "load", "exchange"}
    /\ next \in Values /\ published \in Values
    /\ sawPending \in BOOLEAN

\* "The three indices are always a permutation of {0, 1, 2}": the writer never
\* fills a slot the reader is reading or a slot that is up for taking.
Permutation ==
    /\ writeIndex # readIndex
    /\ writeIndex # latest.idx
    /\ readIndex # latest.idx

\* Contract 5: the reference acquire() returned stays valid until the next
\* acquire(): the slot behind it is whole and nobody writes it, through any
\* number of publishes, until the reader itself swaps it away.
HeldStable ==
    [][/\ slots[readIndex] # Torn
       /\ (slots'[readIndex] # slots[readIndex] \/ readIndex' # readIndex)
            => AcquireExchange]_bufferVars

\* hasPending() may miss a publish, but a true answer is not taken back: until
\* the reader acquires there is a value it has not taken.
PendingKept == sawPending => latest.dirty

\* Contract 4, latest wins: acquire() returns the value published last, and it
\* is what the reader holds until its next acquire().
Register == INSTANCE LatestValue
    WITH current <- published, held <- slots[readIndex], acquiring <- readerPc # "idle"
ImplementsLatestValue == Register!Spec
===============================================================================
