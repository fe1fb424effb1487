------------------------- MODULE SharedInputRingBuffer -------------------------
(***************************************************************************)
(* The rings of rt/SharedInputRingBuffer.h, one per render source: the     *)
(* audio callback writes a block with two stores, the running total and    *)
(* then the position; every consumer keeps a cursor of its own.  Positions *)
(* and totals count samples; the samples themselves are left out.          *)
(***************************************************************************)
EXTENDS Integers

CONSTANTS
    Sources,   \* render sources, each with a ring
    RingSize,  \* bufferSize
    Block      \* samples of a device block

ASSUME RingAssumption ==
    /\ Block \in Nat \ {0}
    /\ RingSize \in Nat \ {0}

VARIABLES
    totalWritten,  \* Sources -> samples ever written
    writePos       \* Sources -> the published position

rvars == <<totalWritten, writePos>>

jmin(a, b) == IF a <= b THEN a ELSE b

RingsInit ==
    /\ totalWritten = [s \in Sources |-> 0]
    /\ writePos = [s \in Sources |-> 0]

toWrite == jmin(Block, RingSize - 1)

\* The two stores of write().
CountWritten(s) ==
    /\ totalWritten' = [totalWritten EXCEPT ![s] = @ + toWrite]
    /\ UNCHANGED writePos
\* Mutant: the position does not wrap.
PublishUnwrapped(s) ==
    /\ writePos' = [writePos EXCEPT ![s] = @ + toWrite]
    /\ UNCHANGED totalWritten

PublishPosition(s) ==
    /\ writePos' = [writePos EXCEPT ![s] = (@ + toWrite) % RingSize]
    /\ UNCHANGED totalWritten

\* The samples between a cursor and the head, modulo the ring: a consumer that
\* was lapped sees a small number.
getAvailableAt(s, cursor) ==
    IF writePos[s] >= cursor THEN writePos[s] - cursor
                             ELSE RingSize - cursor + writePos[s]
===============================================================================
