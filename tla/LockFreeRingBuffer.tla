-------------------------- MODULE LockFreeRingBuffer --------------------------
(***************************************************************************)
(* The single-producer single-consumer ring of rt/LockFreeRingBuffer.h.    *)
(* write() and read() each load the other side's position, copy sample by  *)
(* sample and then publish their own position; the copies of the two sides *)
(* interleave freely.  A position is written by one side only, so its own  *)
(* loads of it need no step.                                               *)
(***************************************************************************)
EXTENDS Integers, Sequences

CONSTANTS
    Samples,        \* sample values
    Silence,        \* what setSize() and reset() fill the buffer with
    BufferSize,     \* setSize (numSamples)
    MaxBurst        \* bound: the largest numSamples of a read or a write

ASSUME RingAssumption ==
    /\ Silence \in Samples
    /\ BufferSize \in Nat \ {0}
    /\ MaxBurst \in Nat \ {0}

Slots == 0..(BufferSize - 1)

VARIABLES
    buffer,         \* juce::AudioBuffer<float> buffer
    writePosition,  \* std::atomic<int> writePosition
    readPosition,   \* std::atomic<int> readPosition
    data,           \* argument of the write() under way, <<>> between writes
    space,          \* the free space that write() saw
    toWrite,        \* how many samples that write() stores
    written,        \* how many of them are stored
    numSamples,     \* argument of the read() under way, 0 between reads
    there,          \* the available data that read() saw
    toRead,         \* how many samples that read() loads
    dest,           \* what the last read() has loaded so far
    answer          \* the consumer's last getAvailableData(), 0 once it reads

vars == <<buffer, writePosition, readPosition, data, space, toWrite, written,
          numSamples, there, toRead, dest, answer>>

writer == <<writePosition, data, space, toWrite, written>>
reader == <<readPosition, numSamples, there, toRead, dest, answer>>

jmin(a, b) == IF a <= b THEN a ELSE b

\* Mutant: equal positions read as a full ring.
AvailableWhenEqual(writePos, readPos) ==
    IF writePos > readPos THEN writePos - readPos
                          ELSE BufferSize - readPos + writePos

getAvailableData(writePos, readPos) ==
    IF writePos >= readPos THEN writePos - readPos
                           ELSE BufferSize - readPos + writePos

\* Mutant: no slot is kept empty.
SpaceWithoutGap(writePos, readPos) ==
    BufferSize - getAvailableData(writePos, readPos)

\* One slot stays empty to tell full from empty.
getAvailableSpace(writePos, readPos) ==
    BufferSize - getAvailableData(writePos, readPos) - 1

\* The slot i samples after a position, past the seam if need be.
SlotAfter(pos, i) == (pos + i) % BufferSize

Init ==
    /\ buffer = [i \in Slots |-> Silence]
    /\ writePosition = 0
    /\ readPosition = 0
    /\ data = <<>> /\ space = 0 /\ toWrite = 0 /\ written = 0
    /\ numSamples = 0 /\ there = 0 /\ toRead = 0 /\ dest = <<>>
    /\ answer = 0

-------------------------------------------------------------------------------
(* The producer: write (data, Len (data)) *)

BeginWrite(s) ==
    /\ data = <<>>
    /\ data' = s
    /\ space' = getAvailableSpace(writePosition, readPosition)
    /\ toWrite' = jmin(Len(s), space')
    /\ UNCHANGED <<buffer, writePosition, written, reader>>

\* memcpy into the one or two chunks before and after the seam.
CopyIn ==
    /\ written < toWrite
    /\ buffer' = [buffer EXCEPT ![SlotAfter(writePosition, written)] = data[written + 1]]
    /\ written' = written + 1
    /\ UNCHANGED <<writePosition, data, space, toWrite, reader>>

\* Mutant: the position is published before the last sample is stored.
PublishBeforeCopy ==
    /\ data # <<>> /\ written + 1 >= toWrite
    /\ writePosition' = SlotAfter(writePosition, toWrite)
    /\ data' = <<>> /\ space' = 0 /\ toWrite' = 0 /\ written' = 0
    /\ UNCHANGED <<buffer, reader>>

\* Mutant: the position runs past the seam.
EndWriteUnwrapped ==
    /\ data # <<>> /\ written = toWrite
    /\ writePosition' = writePosition + toWrite
    /\ data' = <<>> /\ space' = 0 /\ toWrite' = 0 /\ written' = 0
    /\ UNCHANGED <<buffer, reader>>

EndWrite ==
    /\ data # <<>> /\ written = toWrite
    /\ writePosition' = SlotAfter(writePosition, toWrite)
    /\ data' = <<>> /\ space' = 0 /\ toWrite' = 0 /\ written' = 0
    /\ UNCHANGED <<buffer, reader>>

-------------------------------------------------------------------------------
(* The consumer: getAvailableData() and read (dest, numSamples) *)

AskAvailable ==
    /\ numSamples = 0
    /\ answer' = getAvailableData(writePosition, readPosition)
    /\ UNCHANGED <<buffer, writer, readPosition, numSamples, there, toRead, dest>>

BeginRead(n) ==
    /\ numSamples = 0
    /\ numSamples' = n
    /\ there' = getAvailableData(writePosition, readPosition)
    /\ toRead' = jmin(n, there')
    /\ dest' = <<>>
    /\ UNCHANGED <<buffer, writer, readPosition, answer>>

CopyOut ==
    /\ Len(dest) < toRead
    /\ numSamples # 0
    /\ dest' = Append(dest, buffer[SlotAfter(readPosition, Len(dest))])
    /\ UNCHANGED <<buffer, writer, readPosition, numSamples, there, toRead, answer>>

EndRead ==
    /\ numSamples # 0 /\ Len(dest) = toRead
    /\ readPosition' = SlotAfter(readPosition, toRead)
    /\ numSamples' = 0 /\ there' = 0 /\ toRead' = 0 /\ answer' = 0
    /\ UNCHANGED <<buffer, writer, dest>>

\* reset(), and setSize() with the same size: the owner has stopped both sides.
reset ==
    /\ data = <<>> /\ numSamples = 0
    /\ writePosition' = 0
    /\ readPosition' = 0
    /\ buffer' = [i \in Slots |-> Silence]
    /\ answer' = 0
    /\ UNCHANGED <<data, space, toWrite, written, numSamples, there, toRead, dest>>

-------------------------------------------------------------------------------
Next ==
    \/ \E n \in 1..MaxBurst : \E s \in [1..n -> Samples] : BeginWrite(s)
    \/ CopyIn
    \/ EndWrite
    \/ AskAvailable
    \/ \E n \in 1..MaxBurst : BeginRead(n)
    \/ CopyOut
    \/ EndRead
    \/ reset

Spec == Init /\ [][Next]_vars

-------------------------------------------------------------------------------
(* Properties *)

TypeOK ==
    /\ buffer \in [Slots -> Samples]
    /\ writePosition \in Slots /\ readPosition \in Slots
    /\ data \in Seq(Samples) /\ Len(data) <= MaxBurst
    /\ space \in Slots
    /\ toWrite \in 0..jmin(Len(data), space)
    /\ written \in 0..toWrite
    /\ numSamples \in 0..MaxBurst
    /\ there \in Slots
    /\ toRead \in 0..jmin(numSamples, there)
    /\ dest \in Seq(Samples) /\ Len(dest) <= MaxBurst
    /\ answer \in Slots

\* The slots a write() under way stores to, and those a read() under way loads.
WriteRegion == {SlotAfter(writePosition, i) : i \in 0..(toWrite - 1)}
ReadRegion  == {SlotAfter(readPosition, i) : i \in 0..(toRead - 1)}

\* No sample is loaded by read() while write() may be storing it: the regions
\* of the two copies, each sized from a position that has moved on since, never
\* share a slot.
RegionsDisjoint == WriteRegion \cap ReadRegion = {}

\* What callers rely on when they test getAvailableData() and read afterwards
\* (pump loop, engine loop, popOutput): until the consumer reads, at least as
\* much as it was told stays available, and its read() is not shortened below it.
AnswerStands ==
    /\ answer <= getAvailableData(writePosition, readPosition)
    /\ numSamples # 0 => toRead >= jmin(numSamples, answer)

\* The ring is a bounded FIFO of BufferSize - 1 samples: what was accepted comes
\* out once each, in order and whole; a write drops samples, and a read comes up
\* short, only by what did not fit or was not there when it was called.
Contents == [i \in 1..getAvailableData(writePosition, readPosition)
                |-> buffer[SlotAfter(readPosition, i - 1)]]
Fifo == INSTANCE BoundedFifo
    WITH Capacity <- BufferSize - 1, queue <- Contents, offer <- data, room <- space,
         want <- numSamples, taken <- IF numSamples = 0 THEN dest ELSE <<>>
ImplementsFifo == Fifo!Spec
===============================================================================
