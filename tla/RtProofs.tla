------------------------------- MODULE RtProofs -------------------------------
(***************************************************************************)
(* The two lock-free hand-offs of rt/.  For any buffer size, any burst and *)
(* any set of samples: LockFreeRingBuffer is a bounded FIFO.  For any set  *)
(* of snapshots: the indices of RtTripleBuffer stay a permutation, the     *)
(* slot the reader holds is whole and untouched, a pending value stays     *)
(* pending, and the buffer is a LatestValue register.                      *)
(***************************************************************************)
EXTENDS LockFreeRingBuffer, RtTripleBuffer, SequenceTheorems, TLAPS

-------------------------------------------------------------------------------
(* Positions and slots *)

\* A slot less than one turn after a position: at most one seam is crossed.
LEMMA SlotValue ==
    ASSUME NEW pos \in Slots, NEW i \in 0..BufferSize
    PROVE  /\ SlotAfter(pos, i) \in Slots
           /\ pos + i < BufferSize => SlotAfter(pos, i) = pos + i
           /\ pos + i >= BufferSize => SlotAfter(pos, i) = pos + i - BufferSize
<1>1. BufferSize \in Nat \ {0}
  BY RingAssumption DEF RingAssumption
<1>2. pos \in Nat /\ pos < BufferSize /\ i \in Nat /\ i <= BufferSize
  BY <1>1 DEF Slots
<1>3. CASE pos + i < BufferSize
  <2>1. (pos + i) % BufferSize = pos + i
    BY <1>1, <1>2, <1>3, SMT
  <2>2. QED
    BY <1>1, <1>2, <1>3, <2>1 DEF SlotAfter, Slots
<1>4. CASE pos + i >= BufferSize
  <2>1. (pos + i) % BufferSize = pos + i - BufferSize
    BY <1>1, <1>2, <1>4, SMT
  <2>2. QED
    BY <1>1, <1>2, <1>4, <2>1 DEF SlotAfter, Slots
<1>5. QED
  BY <1>1, <1>2, <1>3, <1>4

\* Data and space are numbers of slots, and one slot belongs to neither.
LEMMA AvailableType ==
    ASSUME NEW w \in Slots, NEW r \in Slots
    PROVE  /\ getAvailableData(w, r) \in Slots
           /\ getAvailableSpace(w, r) \in Slots
           /\ getAvailableData(w, r) + getAvailableSpace(w, r) + 1 = BufferSize
BY RingAssumption DEF RingAssumption, Slots, getAvailableData, getAvailableSpace

\* Two steps round the ring, less than one turn together, are one.
LEMMA SlotChain ==
    ASSUME NEW pos \in Slots, NEW k \in Nat, NEW i \in Nat, k + i <= BufferSize
    PROVE  SlotAfter(SlotAfter(pos, k), i) = SlotAfter(pos, k + i)
<1>1. BufferSize \in Nat \ {0}
  BY RingAssumption DEF RingAssumption
<1>2. k \in 0..BufferSize /\ i \in 0..BufferSize /\ k + i \in 0..BufferSize
  BY <1>1
<1> DEFINE p == SlotAfter(pos, k)
<1>3. /\ p \in Slots
      /\ pos + k < BufferSize => p = pos + k
      /\ pos + k >= BufferSize => p = pos + k - BufferSize
  BY <1>2, SlotValue
<1>4. /\ p + i < BufferSize => SlotAfter(p, i) = p + i
      /\ p + i >= BufferSize => SlotAfter(p, i) = p + i - BufferSize
  BY <1>2, <1>3, SlotValue
<1>5. /\ pos + (k + i) < BufferSize => SlotAfter(pos, k + i) = pos + (k + i)
      /\ pos + (k + i) >= BufferSize
           => SlotAfter(pos, k + i) = pos + (k + i) - BufferSize
  BY <1>2, SlotValue
<1>6. p \in Nat /\ pos \in Nat /\ pos < BufferSize
  BY <1>1, <1>3 DEF Slots
<1> HIDE DEF p
<1>7. SlotAfter(p, i) = SlotAfter(pos, k + i)
  BY <1>1, <1>2, <1>3, <1>4, <1>5, <1>6
<1>8. QED
  BY <1>7 DEF p

\* The consumer's position moves on over the data it has read.
LEMMA AdvanceRead ==
    ASSUME NEW w \in Slots, NEW r \in Slots, NEW k \in 0..getAvailableData(w, r)
    PROVE  /\ SlotAfter(r, k) \in Slots
           /\ getAvailableData(w, SlotAfter(r, k)) = getAvailableData(w, r) - k
           /\ getAvailableSpace(w, SlotAfter(r, k)) = getAvailableSpace(w, r) + k
<1>1. BufferSize \in Nat \ {0}
  BY RingAssumption DEF RingAssumption
<1>2. getAvailableData(w, r) \in Slots
  BY AvailableType
<1>3. k \in 0..BufferSize
  BY <1>1, <1>2 DEF Slots
<1> DEFINE p == SlotAfter(r, k)
<1>4. /\ p \in Slots
      /\ r + k < BufferSize => p = r + k
      /\ r + k >= BufferSize => p = r + k - BufferSize
  BY <1>3, SlotValue
<1> HIDE DEF p
<1>5. getAvailableData(w, p) = getAvailableData(w, r) - k
  BY <1>1, <1>4 DEF Slots, getAvailableData
<1>6. getAvailableSpace(w, p) = getAvailableSpace(w, r) + k
  BY <1>1, <1>2, <1>4, <1>5 DEF Slots, getAvailableSpace
<1>7. QED
  BY <1>4, <1>5, <1>6 DEF p

\* The producer's position moves on over the space it has filled.
LEMMA AdvanceWrite ==
    ASSUME NEW w \in Slots, NEW r \in Slots, NEW k \in 0..getAvailableSpace(w, r)
    PROVE  /\ SlotAfter(w, k) \in Slots
           /\ getAvailableData(SlotAfter(w, k), r) = getAvailableData(w, r) + k
           /\ getAvailableSpace(SlotAfter(w, k), r) = getAvailableSpace(w, r) - k
<1>1. BufferSize \in Nat \ {0}
  BY RingAssumption DEF RingAssumption
<1>2. getAvailableSpace(w, r) \in Slots /\ getAvailableData(w, r) \in Slots
  BY AvailableType
<1>3. k \in 0..BufferSize
  BY <1>1, <1>2 DEF Slots
<1> DEFINE p == SlotAfter(w, k)
<1>4. /\ p \in Slots
      /\ w + k < BufferSize => p = w + k
      /\ w + k >= BufferSize => p = w + k - BufferSize
  BY <1>3, SlotValue
<1> HIDE DEF p
<1>5. getAvailableData(p, r) = getAvailableData(w, r) + k
  BY <1>1, <1>4 DEF Slots, getAvailableData, getAvailableSpace
<1>6. getAvailableSpace(p, r) = getAvailableSpace(w, r) - k
  BY <1>1, <1>2, <1>4, <1>5 DEF Slots, getAvailableSpace
<1>7. QED
  BY <1>4, <1>5, <1>6 DEF p

\* A free slot is not a slot with data.
LEMMA SlotsApart ==
    ASSUME NEW w \in Slots, NEW r \in Slots, NEW i \in Nat, NEW j \in Nat,
           i < getAvailableSpace(w, r), j < getAvailableData(w, r)
    PROVE  SlotAfter(w, i) # SlotAfter(r, j)
<1>1. BufferSize \in Nat \ {0}
  BY RingAssumption DEF RingAssumption
<1>2. getAvailableSpace(w, r) \in Slots /\ getAvailableData(w, r) \in Slots
  BY AvailableType
<1>3. i \in 0..BufferSize /\ j \in 0..BufferSize
  BY <1>1, <1>2 DEF Slots
<1>4. /\ w + i < BufferSize => SlotAfter(w, i) = w + i
      /\ w + i >= BufferSize => SlotAfter(w, i) = w + i - BufferSize
      /\ r + j < BufferSize => SlotAfter(r, j) = r + j
      /\ r + j >= BufferSize => SlotAfter(r, j) = r + j - BufferSize
  BY <1>3, SlotValue
<1>5. w \in Nat /\ r \in Nat /\ w < BufferSize /\ r < BufferSize
  BY <1>1 DEF Slots
<1> DEFINE a == SlotAfter(w, i)
           b == SlotAfter(r, j)
<1> HIDE DEF a, b
<1>6. /\ w + i < BufferSize => a = w + i
      /\ w + i >= BufferSize => a = w + i - BufferSize
      /\ r + j < BufferSize => b = r + j
      /\ r + j >= BufferSize => b = r + j - BufferSize
  BY <1>4 DEF a, b
<1>7. a # b
  BY <1>1, <1>5, <1>6 DEF getAvailableData, getAvailableSpace
<1>8. QED
  BY <1>7 DEF a, b

\* Past the data of the consumer the free slots of the producer begin.
LEMMA SlotsMeet ==
    ASSUME NEW w \in Slots, NEW r \in Slots, NEW i \in Nat,
           i <= getAvailableSpace(w, r)
    PROVE  SlotAfter(r, getAvailableData(w, r) + i) = SlotAfter(w, i)
<1>1. BufferSize \in Nat \ {0}
  BY RingAssumption DEF RingAssumption
<1>2. /\ getAvailableData(w, r) \in Slots
      /\ getAvailableSpace(w, r) \in Slots
      /\ getAvailableData(w, r) + getAvailableSpace(w, r) + 1 = BufferSize
  BY AvailableType
<1>3. /\ getAvailableData(w, r) \in Nat
      /\ getAvailableData(w, r) \in 0..BufferSize
      /\ getAvailableData(w, r) + i <= BufferSize
  BY <1>1, <1>2 DEF Slots
<1>4. SlotAfter(SlotAfter(r, getAvailableData(w, r)), i)
        = SlotAfter(r, getAvailableData(w, r) + i)
  BY <1>3, SlotChain
<1> DEFINE p == SlotAfter(r, getAvailableData(w, r))
<1>5. /\ r + getAvailableData(w, r) < BufferSize => p = r + getAvailableData(w, r)
      /\ r + getAvailableData(w, r) >= BufferSize
           => p = r + getAvailableData(w, r) - BufferSize
  BY <1>3, SlotValue
<1> HIDE DEF p
<1>6. p = w
  BY <1>1, <1>5 DEF Slots, getAvailableData
<1>7. QED
  BY <1>4, <1>6 DEF p

-------------------------------------------------------------------------------
(* The inductive invariant *)

\* What a call saw when it began is still there: only the other side can have
\* moved, and the other side only ever adds to it.
ViewsHold ==
    /\ space <= getAvailableSpace(writePosition, readPosition)
    /\ toWrite = jmin(Len(data), space)
    /\ there <= getAvailableData(writePosition, readPosition)
    /\ numSamples = 0 => there = 0
    /\ toRead = jmin(numSamples, there)

\* What write() has stored so far is its argument, and what read() has loaded so
\* far is what the slots it goes over hold.
CopiesMatch ==
    /\ \A i \in 0..(written - 1) : buffer[SlotAfter(writePosition, i)] = data[i + 1]
    /\ numSamples # 0 =>
         /\ Len(dest) <= toRead
         /\ \A j \in 0..(Len(dest) - 1) : dest[j + 1] = buffer[SlotAfter(readPosition, j)]

IInv == TypeOK /\ ViewsHold /\ AnswerStands /\ CopiesMatch

LEMMA InitHolds == Init => IInv
<1> SUFFICES ASSUME Init PROVE IInv
  OBVIOUS
<1>1. BufferSize \in Nat \ {0} /\ MaxBurst \in Nat \ {0} /\ Silence \in Samples
  BY RingAssumption DEF RingAssumption
<1>2. 0 \in Slots
  BY <1>1 DEF Slots
<1>3. getAvailableSpace(0, 0) = BufferSize - 1 /\ getAvailableData(0, 0) = 0
  BY <1>1 DEF getAvailableSpace, getAvailableData
<1>4. TypeOK
  BY <1>1, <1>2 DEF Init, TypeOK, jmin
<1>5. ViewsHold /\ AnswerStands
  BY <1>1, <1>3 DEF Init, ViewsHold, AnswerStands, jmin
<1>6. CopiesMatch
  BY DEF Init, CopiesMatch
<1>7. QED
  BY <1>4, <1>5, <1>6 DEF IInv

\* The numbers of a state that satisfies the invariant.
LEMMA Numbers ==
    ASSUME IInv
    PROVE  /\ BufferSize \in Nat \ {0} /\ MaxBurst \in Nat \ {0}
           /\ writePosition \in Slots /\ readPosition \in Slots
           /\ Len(data) \in Nat /\ Len(dest) \in Nat
           /\ space \in Nat /\ toWrite \in Nat /\ written \in Nat
           /\ written <= toWrite /\ toWrite <= space /\ toWrite <= Len(data)
           /\ space < BufferSize
           /\ numSamples \in Nat /\ there \in Nat /\ toRead \in Nat /\ answer \in Nat
           /\ toRead <= there /\ toRead <= numSamples /\ there < BufferSize
           /\ answer < BufferSize
           /\ getAvailableData(writePosition, readPosition) \in Slots
           /\ getAvailableSpace(writePosition, readPosition) \in Slots
           /\ getAvailableData(writePosition, readPosition) \in Nat
           /\ getAvailableSpace(writePosition, readPosition) \in Nat
<1>1. BufferSize \in Nat \ {0} /\ MaxBurst \in Nat \ {0}
  BY RingAssumption DEF RingAssumption
<1>2. writePosition \in Slots /\ readPosition \in Slots
  BY DEF IInv, TypeOK
<1>3. Len(data) \in Nat /\ Len(dest) \in Nat
  BY LenProperties DEF IInv, TypeOK
<1>4. getAvailableData(writePosition, readPosition) \in Slots
      /\ getAvailableSpace(writePosition, readPosition) \in Slots
  BY <1>2, AvailableType
<1>5. space \in Slots /\ there \in Slots /\ answer \in Slots
      /\ toWrite \in 0..jmin(Len(data), space) /\ written \in 0..toWrite
      /\ numSamples \in 0..MaxBurst /\ toRead \in 0..jmin(numSamples, there)
  BY DEF IInv, TypeOK
<1>6. QED
  BY <1>1, <1>2, <1>3, <1>4, <1>5 DEF Slots, jmin

-------------------------------------------------------------------------------
(* One lemma per action *)

LEMMA BeginWriteStep ==
    ASSUME IInv, NEW n \in 1..MaxBurst, NEW s \in [1..n -> Samples], BeginWrite(s)
    PROVE  IInv'
<1>1. s \in Seq(Samples) /\ Len(s) = n /\ n \in Nat /\ n <= MaxBurst
  BY Numbers, SeqDef, LenProperties
<1>2. data = <<>> /\ data' = s
      /\ space' = getAvailableSpace(writePosition, readPosition)
      /\ toWrite' = jmin(Len(s), space')
      /\ UNCHANGED <<buffer, writePosition, written, readPosition, numSamples,
                     there, toRead, dest, answer>>
  BY DEF BeginWrite, reader
<1>3. written = 0
  BY <1>2, Numbers
<1>4. TypeOK'
  BY <1>1, <1>2, <1>3, Numbers DEF IInv, TypeOK, Slots, jmin
<1>5. ViewsHold'
  BY <1>1, <1>2, Numbers DEF IInv, ViewsHold, jmin
<1>6. AnswerStands'
  BY <1>2 DEF IInv, AnswerStands
<1>7. CopiesMatch'
  BY <1>2, <1>3 DEF IInv, CopiesMatch
<1>8. QED
  BY <1>4, <1>5, <1>6, <1>7 DEF IInv

\* The slot CopyIn stores to is free, so no sample that waits is touched.
LEMMA StoreIsFree ==
    ASSUME IInv, written < toWrite, NEW j \in Nat,
           j < getAvailableData(writePosition, readPosition)
    PROVE  SlotAfter(writePosition, written) # SlotAfter(readPosition, j)
<1>1. written < getAvailableSpace(writePosition, readPosition)
  BY Numbers DEF IInv, ViewsHold
<1>2. QED
  BY <1>1, Numbers, SlotsApart

\* Slots less than a turn after one position differ.
LEMMA SlotsDiffer ==
    ASSUME NEW pos \in Slots, NEW i \in Nat, NEW j \in Nat,
           i < j, j < BufferSize
    PROVE  SlotAfter(pos, i) # SlotAfter(pos, j)
<1>1. BufferSize \in Nat \ {0}
  BY RingAssumption DEF RingAssumption
<1>2. i \in 0..BufferSize /\ j \in 0..BufferSize /\ pos \in Nat
  BY <1>1 DEF Slots
<1> DEFINE a == SlotAfter(pos, i)
           b == SlotAfter(pos, j)
<1>3. /\ pos + i < BufferSize => a = pos + i
      /\ pos + i >= BufferSize => a = pos + i - BufferSize
      /\ pos + j < BufferSize => b = pos + j
      /\ pos + j >= BufferSize => b = pos + j - BufferSize
  BY <1>2, SlotValue
<1> HIDE DEF a, b
<1>4. a # b
  BY <1>1, <1>2, <1>3
<1>5. QED
  BY <1>4 DEF a, b

LEMMA CopyInStep ==
    ASSUME IInv, CopyIn
    PROVE  IInv'
<1> DEFINE here == SlotAfter(writePosition, written)
<1>1. written < toWrite
      /\ buffer' = [buffer EXCEPT ![here] = data[written + 1]]
      /\ written' = written + 1
      /\ UNCHANGED <<writePosition, data, space, toWrite, readPosition, numSamples,
                     there, toRead, dest, answer>>
  BY DEF CopyIn, reader
<1>2. here \in Slots /\ written \in 0..BufferSize
  BY <1>1, Numbers, SlotValue
<1>3. buffer \in [Slots -> Samples]
  BY DEF IInv, TypeOK
<1>4. data[written + 1] \in Samples
  BY <1>1, Numbers, ElementOfSeq DEF IInv, TypeOK
<1>5. TypeOK'
  <2>1. buffer' \in [Slots -> Samples]
    BY <1>1, <1>2, <1>3, <1>4
  <2>2. written' \in 0..toWrite'
    BY <1>1, Numbers
  <2>3. QED
    BY <1>1, <2>1, <2>2 DEF IInv, TypeOK
<1>6. ViewsHold' /\ AnswerStands'
  BY <1>1 DEF IInv, ViewsHold, AnswerStands
<1>7. ASSUME NEW i \in 0..(written' - 1)
      PROVE  buffer'[SlotAfter(writePosition', i)] = data'[i + 1]
  <2>1. i \in Nat /\ i <= written
    BY <1>1, <1>7, Numbers
  <2>2. SlotAfter(writePosition, i) \in Slots
    BY <1>1, <2>1, Numbers, SlotValue
  <2>3. CASE i = written
    BY <1>1, <1>2, <1>3, <2>3
  <2>4. CASE i # written
    <3>1. SlotAfter(writePosition, i) # here
      BY <1>1, <2>1, <2>4, Numbers, SlotsDiffer
    <3>2. buffer[SlotAfter(writePosition, i)] = data[i + 1]
      BY <2>1, <2>4, Numbers DEF IInv, CopiesMatch
    <3>3. QED
      BY <1>1, <1>3, <2>2, <3>1, <3>2
  <2>5. QED
    BY <2>3, <2>4
<1>8. ASSUME numSamples # 0, NEW j \in 0..(Len(dest) - 1)
      PROVE  dest[j + 1] = buffer'[SlotAfter(readPosition, j)]
  <2>1. /\ Len(dest) <= toRead
        /\ dest[j + 1] = buffer[SlotAfter(readPosition, j)]
    BY <1>8 DEF IInv, CopiesMatch
  <2>2. j \in Nat /\ j < getAvailableData(writePosition, readPosition)
    BY <1>8, <2>1, Numbers DEF IInv, ViewsHold
  <2>3. SlotAfter(readPosition, j) # here
    BY <1>1, <2>2, StoreIsFree
  <2>4. j \in 0..BufferSize
    BY <1>8, <2>1, Numbers
  <2>5. SlotAfter(readPosition, j) \in Slots
    BY <2>4, Numbers, SlotValue
  <2>6. QED
    BY <1>1, <1>3, <2>1, <2>3, <2>5
<1>9. CopiesMatch'
  BY <1>1, <1>7, <1>8 DEF IInv, CopiesMatch
<1>10. QED
  BY <1>5, <1>6, <1>9 DEF IInv

LEMMA EndWriteStep ==
    ASSUME IInv, EndWrite
    PROVE  IInv'
<1>1. /\ data # <<>> /\ written = toWrite
      /\ writePosition' = SlotAfter(writePosition, toWrite)
      /\ data' = <<>> /\ space' = 0 /\ toWrite' = 0 /\ written' = 0
      /\ UNCHANGED <<buffer, readPosition, numSamples, there, toRead, dest, answer>>
  BY DEF EndWrite, reader
<1>2. toWrite \in 0..getAvailableSpace(writePosition, readPosition)
  BY Numbers DEF IInv, ViewsHold
<1>3. /\ writePosition' \in Slots
      /\ getAvailableData(writePosition', readPosition)
           = getAvailableData(writePosition, readPosition) + toWrite
      /\ getAvailableSpace(writePosition', readPosition)
           = getAvailableSpace(writePosition, readPosition) - toWrite
  BY <1>1, <1>2, Numbers, AdvanceWrite
<1>4. TypeOK'
  <2>1. data' \in Seq(Samples) /\ Len(data') = 0
    BY <1>1
  <2>2. 0 \in Slots /\ 0 \in 0..jmin(0, 0) /\ 0 <= MaxBurst
    BY Numbers DEF Slots, jmin
  <2>3. /\ space' \in Slots /\ toWrite' \in 0..jmin(Len(data'), space')
        /\ written' \in 0..toWrite' /\ Len(data') <= MaxBurst
    <3>1. jmin(Len(data'), space') = 0
      BY <1>1, <2>1 DEF jmin
    <3>2. QED
      BY <1>1, <2>1, <2>2, <3>1
  <2>4. /\ buffer \in [Slots -> Samples] /\ readPosition \in Slots
        /\ numSamples \in 0..MaxBurst /\ there \in Slots
        /\ toRead \in 0..jmin(numSamples, there)
        /\ dest \in Seq(Samples) /\ Len(dest) <= MaxBurst /\ answer \in Slots
    BY DEF IInv, TypeOK
  <2>5. QED
    BY <1>1, <1>3, <2>1, <2>3, <2>4, ZenonT(40) DEF TypeOK
<1>5. ViewsHold'
  BY <1>1, <1>2, <1>3, Numbers DEF IInv, ViewsHold, jmin
<1>6. AnswerStands'
  BY <1>1, <1>3, Numbers DEF IInv, AnswerStands
<1>7. CopiesMatch'
  BY <1>1 DEF IInv, CopiesMatch
<1>8. QED
  BY <1>4, <1>5, <1>6, <1>7 DEF IInv

LEMMA AskAvailableStep ==
    ASSUME IInv, AskAvailable
    PROVE  IInv'
<1>1. /\ numSamples = 0
      /\ answer' = getAvailableData(writePosition, readPosition)
      /\ UNCHANGED <<buffer, writePosition, data, space, toWrite, written,
                     readPosition, numSamples, there, toRead, dest>>
  BY DEF AskAvailable, writer
<1>2. TypeOK'
  BY <1>1, Numbers DEF IInv, TypeOK
<1>3. ViewsHold' /\ CopiesMatch'
  BY <1>1 DEF IInv, ViewsHold, CopiesMatch
<1>4. AnswerStands'
  BY <1>1, Numbers DEF AnswerStands
<1>5. QED
  BY <1>2, <1>3, <1>4 DEF IInv

LEMMA BeginReadStep ==
    ASSUME IInv, NEW n \in 1..MaxBurst, BeginRead(n)
    PROVE  IInv'
<1>1. /\ numSamples = 0 /\ numSamples' = n
      /\ there' = getAvailableData(writePosition, readPosition)
      /\ toRead' = jmin(n, there')
      /\ dest' = <<>>
      /\ UNCHANGED <<buffer, writePosition, data, space, toWrite, written,
                     readPosition, answer>>
  BY DEF BeginRead, writer
<1>2. n \in Nat /\ n <= MaxBurst
  BY Numbers
<1>3. Len(dest') = 0 /\ dest' \in Seq(Samples)
  BY <1>1, EmptySeq
<1>4. TypeOK'
  <2>1. toRead' \in 0..jmin(numSamples', there')
    BY <1>1, <1>2, Numbers DEF jmin
  <2>2. Len(dest') <= MaxBurst
    BY <1>3, Numbers
  <2>3. numSamples' \in 0..MaxBurst /\ there' \in Slots
    BY <1>1, <1>2, Numbers
  <2>4. QED
    BY <1>1, <1>3, <2>1, <2>2, <2>3 DEF IInv, TypeOK
<1>5. ViewsHold'
  BY <1>1, <1>2, Numbers DEF IInv, ViewsHold, jmin
<1>6. AnswerStands'
  <2>1. answer <= getAvailableData(writePosition, readPosition)
    BY DEF IInv, AnswerStands
  <2>2. QED
    BY <1>1, <1>2, <2>1, Numbers DEF AnswerStands, jmin
<1>7. CopiesMatch'
  <2>1. toRead' >= 0
    BY <1>1, <1>2, Numbers DEF jmin
  <2>2. \A i \in 0..(written' - 1) : buffer'[SlotAfter(writePosition', i)] = data'[i + 1]
    BY <1>1 DEF IInv, CopiesMatch
  <2>3. \A j \in 0..(Len(dest') - 1) : dest'[j + 1] = buffer'[SlotAfter(readPosition', j)]
    BY <1>3
  <2>4. QED
    BY <1>3, <2>1, <2>2, <2>3 DEF CopiesMatch
<1>8. QED
  BY <1>4, <1>5, <1>6, <1>7 DEF IInv

LEMMA CopyOutStep ==
    ASSUME IInv, CopyOut
    PROVE  IInv'
<1> DEFINE here == SlotAfter(readPosition, Len(dest))
<1>1. /\ Len(dest) < toRead /\ numSamples # 0
      /\ dest' = Append(dest, buffer[here])
      /\ UNCHANGED <<buffer, writePosition, data, space, toWrite, written,
                     readPosition, numSamples, there, toRead, answer>>
  BY DEF CopyOut, writer
<1>2. Len(dest) \in 0..BufferSize
  BY <1>1, Numbers
<1>3. here \in Slots
  BY <1>2, Numbers, SlotValue
<1>4. dest \in Seq(Samples) /\ buffer[here] \in Samples
  BY <1>3 DEF IInv, TypeOK
<1>5. /\ dest' \in Seq(Samples)
      /\ Len(dest') = Len(dest) + 1
      /\ \A j \in 1..Len(dest) : dest'[j] = dest[j]
      /\ dest'[Len(dest) + 1] = buffer[here]
  BY <1>1, <1>4, AppendProperties
<1>6. TypeOK'
  <2>1. numSamples <= MaxBurst
    BY DEF IInv, TypeOK
  <2>2. Len(dest') <= MaxBurst
    BY <1>1, <1>5, <2>1, Numbers
  <2>3. QED
    BY <1>1, <1>5, <2>2 DEF IInv, TypeOK
<1>7. ViewsHold' /\ AnswerStands'
  BY <1>1 DEF IInv, ViewsHold, AnswerStands
<1>8. ASSUME NEW j \in 0..(Len(dest') - 1)
      PROVE  dest'[j + 1] = buffer'[SlotAfter(readPosition', j)]
  <2>1. CASE j = Len(dest)
    BY <1>1, <1>5, <2>1
  <2>2. CASE j # Len(dest)
    <3>1. j \in 0..(Len(dest) - 1) /\ j + 1 \in 1..Len(dest)
      BY <1>5, <1>8, <2>2, Numbers
    <3>2. dest[j + 1] = buffer[SlotAfter(readPosition, j)]
      BY <1>1, <3>1 DEF IInv, CopiesMatch
    <3>3. QED
      BY <1>1, <1>5, <3>1, <3>2
  <2>3. QED
    BY <2>1, <2>2
<1>9. CopiesMatch'
  <2>1. Len(dest') <= toRead'
    BY <1>1, <1>5, Numbers
  <2>2. \A i \in 0..(written' - 1) : buffer'[SlotAfter(writePosition', i)] = data'[i + 1]
    BY <1>1 DEF IInv, CopiesMatch
  <2>3. QED
    BY <1>8, <2>1, <2>2 DEF CopiesMatch
<1>10. QED
  BY <1>6, <1>7, <1>9 DEF IInv

LEMMA EndReadStep ==
    ASSUME IInv, EndRead
    PROVE  IInv'
<1>1. /\ numSamples # 0 /\ Len(dest) = toRead
      /\ readPosition' = SlotAfter(readPosition, toRead)
      /\ numSamples' = 0 /\ there' = 0 /\ toRead' = 0 /\ answer' = 0
      /\ UNCHANGED <<buffer, writePosition, data, space, toWrite, written, dest>>
  BY DEF EndRead, writer
<1>2. toRead \in 0..getAvailableData(writePosition, readPosition)
  BY Numbers DEF IInv, ViewsHold
<1>3. /\ readPosition' \in Slots
      /\ getAvailableData(writePosition, readPosition')
           = getAvailableData(writePosition, readPosition) - toRead
      /\ getAvailableSpace(writePosition, readPosition')
           = getAvailableSpace(writePosition, readPosition) + toRead
  BY <1>1, <1>2, Numbers, AdvanceRead
<1>4. 0 \in Slots
  BY Numbers DEF Slots
<1>5. TypeOK'
  BY <1>1, <1>3, <1>4, Numbers DEF IInv, TypeOK, jmin
<1>6. ViewsHold'
  BY <1>1, <1>2, <1>3, Numbers DEF IInv, ViewsHold, jmin
<1>7. AnswerStands'
  BY <1>1, <1>2, <1>3, Numbers DEF IInv, AnswerStands
<1>8. CopiesMatch'
  BY <1>1 DEF IInv, CopiesMatch
<1>9. QED
  BY <1>5, <1>6, <1>7, <1>8 DEF IInv

LEMMA ResetStep ==
    ASSUME IInv, reset
    PROVE  IInv'
<1>1. /\ data = <<>> /\ numSamples = 0
      /\ writePosition' = 0 /\ readPosition' = 0
      /\ buffer' = [i \in Slots |-> Silence]
      /\ answer' = 0
      /\ UNCHANGED <<data, space, toWrite, written, numSamples, there, toRead, dest>>
  BY DEF reset
<1>2. Len(data) = 0
  BY <1>1, EmptySeq
<1>3. written = 0 /\ there = 0
  BY <1>1, <1>2, Numbers DEF IInv, ViewsHold
<1>4. getAvailableSpace(0, 0) = BufferSize - 1 /\ getAvailableData(0, 0) = 0
  BY Numbers DEF getAvailableSpace, getAvailableData
<1>5. 0 \in Slots
  BY Numbers DEF Slots
<1>6. TypeOK'
  BY <1>1, <1>5, RingAssumption DEF IInv, TypeOK, RingAssumption
<1>7. ViewsHold'
  BY <1>1, <1>3, <1>4, Numbers DEF IInv, ViewsHold
<1>8. AnswerStands' /\ CopiesMatch'
  BY <1>1, <1>3, <1>4 DEF AnswerStands, CopiesMatch
<1>9. QED
  BY <1>6, <1>7, <1>8 DEF IInv

LEMMA StutterStep ==
    ASSUME IInv, UNCHANGED vars
    PROVE  IInv'
BY DEF IInv, TypeOK, ViewsHold, AnswerStands, CopiesMatch, vars

\* Every reachable state satisfies the invariant.
THEOREM Invariance == Spec => []IInv
<1>1. IInv /\ [Next]_vars => IInv'
  <2> SUFFICES ASSUME IInv, [Next]_vars PROVE IInv'
    OBVIOUS
  <2>1. CASE UNCHANGED vars
    BY <2>1, StutterStep
  <2>2. ASSUME NEW n \in 1..MaxBurst, NEW s \in [1..n -> Samples], BeginWrite(s)
        PROVE  IInv'
    BY <2>2, BeginWriteStep
  <2>3. CASE CopyIn
    BY <2>3, CopyInStep
  <2>4. CASE EndWrite
    BY <2>4, EndWriteStep
  <2>5. CASE AskAvailable
    BY <2>5, AskAvailableStep
  <2>6. ASSUME NEW n \in 1..MaxBurst, BeginRead(n) PROVE IInv'
    BY <2>6, BeginReadStep
  <2>7. CASE CopyOut
    BY <2>7, CopyOutStep
  <2>8. CASE EndRead
    BY <2>8, EndReadStep
  <2>9. CASE reset
    BY <2>9, ResetStep
  <2>10. QED
    BY <2>1, <2>2, <2>3, <2>4, <2>5, <2>6, <2>7, <2>8, <2>9 DEF Next
<1>2. QED
  BY InitHolds, <1>1, PTL DEF Spec

\* Positions stay inside the buffer and every count inside its bounds.
THEOREM TypeCorrect == Spec => []TypeOK
<1>1. IInv => TypeOK
  BY DEF IInv
<1>2. QED
  BY Invariance, <1>1, PTL

\* read() never loads a slot that write() may be storing to.
THEOREM CopiesApart == Spec => []RegionsDisjoint
<1>1. IInv => RegionsDisjoint
  <2> SUFFICES ASSUME IInv,
                      NEW i \in 0..(toWrite - 1), NEW j \in 0..(toRead - 1)
               PROVE  SlotAfter(writePosition, i) # SlotAfter(readPosition, j)
    BY DEF RegionsDisjoint, WriteRegion, ReadRegion
  <2>1. /\ i \in Nat /\ i < getAvailableSpace(writePosition, readPosition)
        /\ j \in Nat /\ j < getAvailableData(writePosition, readPosition)
    BY Numbers DEF IInv, ViewsHold
  <2>2. QED
    BY <2>1, Numbers, SlotsApart
<1>2. QED
  BY Invariance, <1>1, PTL

\* A getAvailableData() of the consumer stands until its next read(), and that
\* read() returns what was asked for up to the answer.
THEOREM AnswersStand == Spec => []AnswerStands
<1>1. IInv => AnswerStands
  BY DEF IInv
<1>2. QED
  BY Invariance, <1>1, PTL

-------------------------------------------------------------------------------
(* The ring implements the bounded FIFO *)

\* The samples that wait, as a sequence.
ContentsInOrder ==
    /\ Contents \in Seq(Samples)
    /\ Len(Contents) = getAvailableData(writePosition, readPosition)
    /\ \A i \in 1..getAvailableData(writePosition, readPosition) :
         Contents[i] = buffer[SlotAfter(readPosition, i - 1)]

LEMMA ContentsSeq == IInv => ContentsInOrder
<1> SUFFICES ASSUME IInv PROVE ContentsInOrder
  OBVIOUS
<1> DEFINE n == getAvailableData(writePosition, readPosition)
<1>1. n \in Nat /\ n < BufferSize
  BY Numbers DEF Slots
<1>2. buffer \in [Slots -> Samples]
  BY DEF IInv, TypeOK
<1>3. ASSUME NEW i \in 1..n PROVE buffer[SlotAfter(readPosition, i - 1)] \in Samples
  <2>1. i - 1 \in 0..BufferSize
    BY <1>1, <1>3, Numbers
  <2>2. SlotAfter(readPosition, i - 1) \in Slots
    BY <2>1, Numbers, SlotValue
  <2>3. QED
    BY <1>2, <2>2
<1>4. Contents \in [1..n -> Samples]
  BY <1>3 DEF Contents
<1>5. Contents \in Seq(Samples)
  BY <1>1, <1>4, SeqDef
<1>6. Len(Contents) = n
  BY <1>1, <1>4, <1>5, LenProperties
<1>7. QED
  BY <1>5, <1>6 DEF Contents, ContentsInOrder

\* Storing to a free slot leaves the waiting samples alone.
LEMMA CopyInKeepsContents ==
    ASSUME IInv, CopyIn
    PROVE  Contents' = Contents
<1> DEFINE n == getAvailableData(writePosition, readPosition)
           here == SlotAfter(writePosition, written)
<1>1. written < toWrite
      /\ buffer' = [buffer EXCEPT ![here] = data[written + 1]]
      /\ writePosition' = writePosition /\ readPosition' = readPosition
  BY DEF CopyIn, reader
<1>2. n \in Nat /\ n < BufferSize
  BY Numbers DEF Slots
<1>3. ASSUME NEW i \in 1..n
      PROVE  buffer'[SlotAfter(readPosition, i - 1)] = buffer[SlotAfter(readPosition, i - 1)]
  <2>1. i - 1 \in Nat /\ i - 1 < n /\ i - 1 \in 0..BufferSize
    BY <1>2, <1>3, Numbers
  <2>2. SlotAfter(readPosition, i - 1) # here
    BY <1>1, <2>1, StoreIsFree
  <2>3. SlotAfter(readPosition, i - 1) \in Slots
    BY <2>1, Numbers, SlotValue
  <2>4. QED
    BY <1>1, <2>2, <2>3 DEF IInv, TypeOK
<1>4. Contents' = [i \in 1..n |-> buffer'[SlotAfter(readPosition, i - 1)]]
  BY <1>1 DEF Contents
<1>5. QED
  BY <1>3, <1>4 DEF Contents

\* Publishing the write position appends the samples that were stored.
LEMMA EndWriteAppends ==
    ASSUME IInv, EndWrite
    PROVE  Contents' = Contents \o SubSeq(data, 1, toWrite)
<1> DEFINE n == getAvailableData(writePosition, readPosition)
           t == SubSeq(data, 1, toWrite)
<1>1. /\ data # <<>> /\ written = toWrite
      /\ writePosition' = SlotAfter(writePosition, toWrite)
      /\ buffer' = buffer /\ readPosition' = readPosition
  BY DEF EndWrite, reader
<1>2. toWrite \in 0..getAvailableSpace(writePosition, readPosition)
  BY Numbers DEF IInv, ViewsHold
<1>3. getAvailableData(writePosition', readPosition') = n + toWrite
  BY <1>1, <1>2, Numbers, AdvanceWrite
<1>4. IInv'
  BY EndWriteStep
<1>5. /\ Contents' \in Seq(Samples)
      /\ Len(Contents') = n + toWrite
      /\ \A i \in 1..(n + toWrite) : Contents'[i] = buffer[SlotAfter(readPosition, i - 1)]
  <2>1. ContentsInOrder'
    BY <1>4, ContentsSeq, PTL
  <2>2. QED
    BY <1>1, <1>3, <2>1 DEF ContentsInOrder
<1>6. /\ t \in Seq(Samples) /\ Len(t) = toWrite
      /\ \A i \in 1..toWrite : t[i] = data[i]
  <2>1. data \in Seq(Samples)
    BY DEF IInv, TypeOK
  <2>2. toWrite \in Nat /\ toWrite <= Len(data) /\ Len(data) \in Nat
    BY Numbers
  <2>3. \A i \in 1..toWrite : i \in 1..Len(data)
    BY <2>2
  <2>4. QED
    BY <2>1, <2>2, <2>3, SubSeqProperties
<1>7. /\ Contents \in Seq(Samples) /\ Len(Contents) = n
      /\ \A i \in 1..n : Contents[i] = buffer[SlotAfter(readPosition, i - 1)]
  BY ContentsSeq DEF ContentsInOrder
<1>8. n \in Nat /\ toWrite \in Nat
  BY Numbers
<1>9. /\ Contents \o t \in Seq(Samples)
      /\ Len(Contents \o t) = n + toWrite
      /\ \A i \in 1..(n + toWrite) :
           (Contents \o t)[i] = IF i <= n THEN Contents[i] ELSE t[i - n]
  <2> HIDE DEF t, n
  <2>1. QED
    BY <1>6, <1>7, ConcatProperties
<1>a. ASSUME NEW j \in 0..(toWrite - 1)
      PROVE  SlotAfter(readPosition, n + j) = SlotAfter(writePosition, j)
  <2>1. getAvailableSpace(writePosition, readPosition) \in Nat
    BY Numbers
  <2>2. j \in Nat /\ j <= getAvailableSpace(writePosition, readPosition)
    BY <1>2, <1>8, <2>1
  <2>3. writePosition \in Slots /\ readPosition \in Slots
    BY Numbers
  <2>4. QED
    BY <2>2, <2>3, SlotsMeet
<1>10. ASSUME NEW i \in 1..(n + toWrite) PROVE Contents'[i] = (Contents \o t)[i]
  <2>1. CASE i <= n
    <3>1. i \in 1..n
      BY <1>8, <1>10, <2>1
    <3>2. (Contents \o t)[i] = Contents[i]
      BY <1>9, <1>10, <2>1
    <3>3. QED
      BY <1>5, <1>7, <1>10, <3>1, <3>2
  <2>2. CASE ~(i <= n)
    <3>1. i - n \in 1..toWrite /\ i - n - 1 \in 0..(toWrite - 1) /\ i - n - 1 \in Nat
      BY <1>8, <1>10, <2>2
    <3>2. buffer[SlotAfter(writePosition, i - n - 1)] = data[(i - n - 1) + 1]
      BY <1>1, <3>1 DEF IInv, CopiesMatch
    <3>3. (i - n - 1) + 1 = i - n /\ n + (i - n - 1) = i - 1
      <4> HIDE DEF n
      <4>1. i \in Int /\ n \in Int
        <5>1. n + toWrite \in Int
          BY <1>8
        <5>2. QED
          BY <1>8, <1>10, <5>1
      <4>2. QED
        BY <4>1
    <3>4. SlotAfter(readPosition, n + (i - n - 1)) = SlotAfter(writePosition, i - n - 1)
      BY <1>a, <3>1
    <3>5. Contents'[i] = data[i - n]
      <4>1. Contents'[i] = buffer[SlotAfter(readPosition, i - 1)]
        BY <1>5, <1>10
      <4>2. QED
        BY <3>2, <3>3, <3>4, <4>1
    <3>6. (Contents \o t)[i] = data[i - n]
      <4>1. (Contents \o t)[i] = t[i - n]
        BY <1>9, <1>10, <2>2
      <4>2. QED
        BY <1>6, <3>1, <4>1
    <3>7. QED
      BY <3>5, <3>6
  <2>3. QED
    BY <2>1, <2>2
<1>11. QED
  BY <1>5, <1>9, <1>10, SeqEqual

\* Publishing the read position drops what was loaded, which was the oldest.
LEMMA EndReadTakes ==
    ASSUME IInv, EndRead
    PROVE  /\ dest = SubSeq(Contents, 1, toRead)
           /\ Contents' = SubSeq(Contents, toRead + 1, Len(Contents))
<1> DEFINE n == getAvailableData(writePosition, readPosition)
<1>1. /\ numSamples # 0 /\ Len(dest) = toRead
      /\ readPosition' = SlotAfter(readPosition, toRead)
      /\ buffer' = buffer /\ writePosition' = writePosition
  BY DEF EndRead, writer
<1>2. toRead \in 0..n /\ toRead \in Nat /\ n \in Nat /\ n < BufferSize
  BY Numbers DEF IInv, ViewsHold, Slots
<1>3. getAvailableData(writePosition', readPosition') = n - toRead
  BY <1>1, <1>2, Numbers, AdvanceRead
<1>4. /\ Contents \in Seq(Samples) /\ Len(Contents) = n
      /\ \A i \in 1..n : Contents[i] = buffer[SlotAfter(readPosition, i - 1)]
  BY ContentsSeq DEF ContentsInOrder
<1>5. /\ Contents' \in Seq(Samples)
      /\ Len(Contents') = n - toRead
      /\ \A i \in 1..(n - toRead) : Contents'[i] = buffer[SlotAfter(readPosition', i - 1)]
  <2>1. IInv'
    BY EndReadStep
  <2>2. ContentsInOrder'
    BY <2>1, ContentsSeq, PTL
  <2>3. QED
    BY <1>1, <1>3, <2>2 DEF ContentsInOrder
<1>6. dest = SubSeq(Contents, 1, toRead)
  <2>1. /\ SubSeq(Contents, 1, toRead) \in Seq(Samples)
        /\ Len(SubSeq(Contents, 1, toRead)) = toRead
        /\ \A i \in 1..toRead : SubSeq(Contents, 1, toRead)[i] = Contents[i]
    BY <1>2, <1>4, SubSeqProperties
  <2>2. dest \in Seq(Samples)
    BY DEF IInv, TypeOK
  <2>3. ASSUME NEW i \in 1..toRead PROVE dest[i] = Contents[i]
    <3>1. i - 1 \in 0..(Len(dest) - 1) /\ (i - 1) + 1 = i /\ i \in 1..n
      BY <1>1, <1>2, <2>3
    <3>2. dest[(i - 1) + 1] = buffer[SlotAfter(readPosition, i - 1)]
      BY <1>1, <3>1 DEF IInv, CopiesMatch
    <3>3. QED
      BY <1>4, <3>1, <3>2
  <2>4. QED
    BY <1>1, <2>1, <2>2, <2>3, SeqEqual
<1>7. Contents' = SubSeq(Contents, toRead + 1, n)
  <2> DEFINE u == SubSeq(Contents, toRead + 1, n)
  <2>1. /\ u \in Seq(Samples)
        /\ Len(u) = n - toRead
        /\ \A i \in 1..(n - toRead) : u[i] = Contents[toRead + i]
    <3>1. /\ toRead + 1 \in Int /\ n \in Int
          /\ n - (toRead + 1) + 1 = n - toRead
          /\ IF toRead + 1 <= n THEN TRUE ELSE n - toRead = 0
          /\ \A i \in 1..(n - toRead) : (toRead + 1) + i - 1 = toRead + i
          /\ \A i \in (toRead + 1)..n : i \in 1..n
      BY <1>2
    <3>2. \A i \in (toRead + 1)..n : Contents[i] \in Samples
      BY <1>4, <3>1, ElementOfSeq
    <3>3. /\ u \in Seq(Samples)
          /\ Len(u) = IF toRead + 1 <= n THEN n - (toRead + 1) + 1 ELSE 0
          /\ \A i \in 1..(n - (toRead + 1) + 1) : u[i] = Contents[(toRead + 1) + i - 1]
      BY <3>1, <3>2, SubSeqProperties
    <3>4. QED
      BY <3>1, <3>3
  <2>2. ASSUME NEW i \in 1..(n - toRead) PROVE Contents'[i] = u[i]
    <3>1. /\ i - 1 \in Nat /\ toRead + (i - 1) = (toRead + i) - 1
          /\ toRead + i \in 1..n /\ toRead + (i - 1) <= BufferSize
      BY <1>2, <2>2, Numbers
    <3>2. SlotAfter(SlotAfter(readPosition, toRead), i - 1)
            = SlotAfter(readPosition, toRead + (i - 1))
      BY <1>2, <3>1, Numbers, SlotChain
    <3>3. Contents[toRead + i] = buffer[SlotAfter(readPosition, (toRead + i) - 1)]
      BY <1>4, <3>1
    <3>4. QED
      BY <1>1, <1>5, <2>1, <2>2, <3>1, <3>2, <3>3
  <2> HIDE DEF u
  <2>3. Contents' = u
    BY <1>5, <2>1, <2>2, SeqEqual
  <2>4. QED
    BY <2>3 DEF u
<1>8. QED
  BY <1>4, <1>6, <1>7

\* Each step of the ring is a step of the FIFO or leaves it as it was.
LEMMA StepImplements ==
    ASSUME IInv, [Next]_vars
    PROVE  [Fifo!Next]_Fifo!fifoVars
<1> DEFINE n == getAvailableData(writePosition, readPosition)
<1>1. Len(Contents) = n /\ n \in Nat
  BY ContentsSeq, Numbers DEF ContentsInOrder
<1>2. BufferSize - 1 - Len(Contents) = getAvailableSpace(writePosition, readPosition)
  BY <1>1, Numbers DEF getAvailableSpace
<1>3. CASE UNCHANGED vars
  BY <1>3 DEF vars, Fifo!fifoVars, Contents
<1>4. ASSUME NEW m \in 1..MaxBurst, NEW s \in [1..m -> Samples], BeginWrite(s)
      PROVE  [Fifo!Next]_Fifo!fifoVars
  <2>1. /\ data = <<>> /\ data' = s
        /\ space' = getAvailableSpace(writePosition, readPosition)
        /\ UNCHANGED <<buffer, writePosition, readPosition, numSamples, there, dest>>
    BY <1>4 DEF BeginWrite, reader
  <2>2. Fifo!CallPut(s)
    BY <1>2, <2>1 DEF Fifo!CallPut, Contents
  <2>3. QED
    BY <2>2 DEF Fifo!Next
<1>5. CASE CopyIn
  <2>1. UNCHANGED <<data, space, numSamples, there, dest>>
    BY <1>5 DEF CopyIn, reader
  <2>2. Contents' = Contents
    BY <1>5, CopyInKeepsContents
  <2>3. QED
    BY <2>1, <2>2 DEF Fifo!fifoVars
<1>6. CASE EndWrite
  <2>1. /\ data # <<>> /\ data' = <<>> /\ space' = 0
        /\ UNCHANGED <<numSamples, there, dest>>
    BY <1>6 DEF EndWrite, reader
  <2>2. Contents' = Contents \o SubSeq(data, 1, toWrite)
    BY <1>6, EndWriteAppends
  <2>3. /\ toWrite >= Fifo!Smaller(Len(data), space)
        /\ toWrite <= Fifo!Smaller(Len(data), BufferSize - 1 - Len(Contents))
    BY <1>2, Numbers DEF IInv, ViewsHold, jmin, Fifo!Smaller
  <2>4. toWrite \in 0..MaxBurst
    BY Numbers DEF IInv, TypeOK
  <2>5. Fifo!Put(toWrite)
    BY <2>1, <2>2, <2>3 DEF Fifo!Put
  <2>6. QED
    BY <2>4, <2>5 DEF Fifo!Next
<1>7. CASE AskAvailable
  BY <1>7 DEF AskAvailable, writer, Fifo!fifoVars, Contents
<1>8. ASSUME NEW m \in 1..MaxBurst, BeginRead(m)
      PROVE  [Fifo!Next]_Fifo!fifoVars
  <2>1. /\ numSamples = 0 /\ numSamples' = m /\ there' = n /\ dest' = <<>>
        /\ UNCHANGED <<buffer, writePosition, readPosition, data, space>>
    BY <1>8 DEF BeginRead, writer
  <2>2. m # 0
    BY Numbers
  <2>3. Fifo!CallTake(m)
    BY <1>1, <2>1, <2>2 DEF Fifo!CallTake, Contents
  <2>4. QED
    BY <2>3 DEF Fifo!Next
<1>9. CASE CopyOut
  BY <1>9 DEF CopyOut, writer, Fifo!fifoVars, Contents
<1>10. CASE EndRead
  <2>1. /\ numSamples # 0 /\ numSamples' = 0 /\ there' = 0
        /\ UNCHANGED <<data, space, dest>>
    BY <1>10 DEF EndRead, writer
  <2>2. /\ dest = SubSeq(Contents, 1, toRead)
        /\ Contents' = SubSeq(Contents, toRead + 1, Len(Contents))
    BY <1>10, EndReadTakes
  <2>3. /\ toRead >= Fifo!Smaller(numSamples, there)
        /\ toRead <= Fifo!Smaller(numSamples, Len(Contents))
    BY <1>1, Numbers DEF IInv, ViewsHold, jmin, Fifo!Smaller
  <2>4. toRead \in 0..MaxBurst
    BY Numbers DEF IInv, TypeOK
  <2>5. Fifo!Take(toRead)
    BY <2>1, <2>2, <2>3 DEF Fifo!Take
  <2>6. QED
    BY <2>4, <2>5 DEF Fifo!Next
<1>11. CASE reset
  <2>1. /\ data = <<>> /\ numSamples = 0
        /\ writePosition' = 0 /\ readPosition' = 0
        /\ UNCHANGED <<data, space, numSamples, there, dest>>
    BY <1>11 DEF reset
  <2>2. getAvailableData(0, 0) = 0
    BY Numbers DEF getAvailableData
  <2>3. Contents' = <<>>
    BY <2>1, <2>2 DEF Contents
  <2>4. Fifo!Clear
    BY <2>1, <2>3 DEF Fifo!Clear
  <2>5. QED
    BY <2>4 DEF Fifo!Next
<1>12. QED
  BY <1>3, <1>4, <1>5, <1>6, <1>7, <1>8, <1>9, <1>10, <1>11 DEF Next

\* The ring implements BoundedFifo: the samples it accepts come out once each, in
\* order and whole, whatever the interleaving of the two copies.
THEOREM RingIsFifo == Spec => ImplementsFifo
<1>1. Init => Fifo!Init
  <2> SUFFICES ASSUME Init PROVE Fifo!Init
    OBVIOUS
  <2>1. getAvailableData(0, 0) = 0
    BY RingAssumption DEF RingAssumption, getAvailableData
  <2>2. Contents = <<>>
    BY <2>1 DEF Init, Contents
  <2>3. QED
    BY <2>2 DEF Init, Fifo!Init
<1>2. IInv /\ [Next]_vars => [Fifo!Next]_Fifo!fifoVars
  BY StepImplements
<1>3. QED
  BY Invariance, <1>1, <1>2, PTL DEF Spec, ImplementsFifo, Fifo!Spec

-------------------------------------------------------------------------------
(* The triple buffer *)

\* Which slots are whole: all of them but the one under the writer's copy; the
\* writer's slot holds the argument once the copy is done.
SlotsWhole ==
    /\ \A i \in Indices : slots[i] = Torn => writerPc = "copying" /\ i = writeIndex
    /\ writerPc = "exchange" => slots[writeIndex] = next

\* Where the newest value lies: in the shared slot while it is dirty, in the
\* reader's own slot once it is clean.
NewestPlaced ==
    /\ latest.dirty => slots[latest.idx] = published
    /\ ~latest.dirty => slots[readIndex] = published

\* Only the reader itself makes `latest` clean, so a reader that saw it dirty
\* still finds it dirty at its exchange.
DirtyForReader == readerPc = "exchange" => latest.dirty

BufferInv ==
    /\ BufferTypeOK /\ Permutation /\ SlotsWhole /\ NewestPlaced /\ DirtyForReader
    /\ PendingKept

LEMMA InitBufferInv == BufferInit => BufferInv
  <1> SUFFICES ASSUME BufferInit PROVE BufferInv
    OBVIOUS
  <1> USE DEF BufferInit, Indices
  <1>0. Default \in Values /\ Torn \notin Values
    BY BufferAssumption DEF BufferAssumption
  <1>1. BufferTypeOK
    <2>1. latest \in [idx : Indices, dirty : BOOLEAN]
      OBVIOUS
    <2>2. slots \in [Indices -> Values \cup {Torn}]
      BY <1>0
    <2>3. sawPending \in BOOLEAN
      OBVIOUS
    <2>4. QED
      BY <1>0, <2>1, <2>2, <2>3 DEF BufferTypeOK
  <1>2. Permutation
    BY DEF Permutation
  <1>3. SlotsWhole
    BY <1>0 DEF SlotsWhole
  <1>4. NewestPlaced /\ DirtyForReader /\ PendingKept
    BY DEF NewestPlaced, DirtyForReader, PendingKept
  <1>5. QED
    BY <1>1, <1>2, <1>3, <1>4 DEF BufferInv

\* The type invariant is preserved by each step on its own.
LEMMA StepBufferTypeOK == BufferTypeOK /\ [BufferNext]_bufferVars => BufferTypeOK'
  <1> SUFFICES ASSUME BufferTypeOK, [BufferNext]_bufferVars PROVE BufferTypeOK'
    OBVIOUS
  <1> USE DEF BufferTypeOK, Indices
  <1>1. ASSUME NEW v \in Values, BeginCopy(v) PROVE BufferTypeOK'
    BY <1>1 DEF BeginCopy, readerOwn
  <1>2. CASE EndCopy
    BY <1>2 DEF EndCopy, readerOwn
  <1>3. CASE PublishExchange
    BY <1>3 DEF PublishExchange, readerOwn
  <1>4. CASE CallAcquire \/ AcquireClean \/ AcquireDirty \/ HasPending
    BY <1>4 DEF CallAcquire, AcquireClean, AcquireDirty, HasPending, writerOwn
  <1>5. CASE AcquireExchange
    BY <1>5 DEF AcquireExchange, writerOwn
  <1>6. CASE UNCHANGED bufferVars
    BY <1>6 DEF bufferVars
  <1>7. QED
    BY <1>1, <1>2, <1>3, <1>4, <1>5, <1>6 DEF BufferNext

LEMMA StepBufferInv == BufferInv /\ [BufferNext]_bufferVars => BufferInv'
  <1> SUFFICES ASSUME BufferInv, [BufferNext]_bufferVars PROVE BufferInv'
    OBVIOUS
  <1>t. BufferTypeOK'
    BY StepBufferTypeOK DEF BufferInv
  <1> USE DEF BufferTypeOK, Indices, Permutation, SlotsWhole, NewestPlaced, DirtyForReader,
              PendingKept
  <1>1. ASSUME NEW v \in Values, BeginCopy(v) PROVE BufferInv'
    BY <1>1, <1>t DEF BeginCopy, readerOwn, BufferInv
  <1>2. CASE EndCopy
    BY <1>2, <1>t, BufferAssumption DEF EndCopy, readerOwn, BufferInv, BufferAssumption
  <1>3. CASE PublishExchange
    BY <1>3, <1>t DEF PublishExchange, readerOwn, BufferInv
  <1>4. CASE CallAcquire
    BY <1>4, <1>t DEF CallAcquire, writerOwn, BufferInv
  <1>5. CASE AcquireClean
    BY <1>5, <1>t DEF AcquireClean, writerOwn, BufferInv
  <1>6. CASE AcquireDirty
    BY <1>6, <1>t DEF AcquireDirty, writerOwn, BufferInv
  <1>7. CASE HasPending
    BY <1>7, <1>t DEF HasPending, writerOwn, BufferInv
  <1>8. CASE AcquireExchange
    BY <1>8, <1>t DEF AcquireExchange, writerOwn, BufferInv
  <1>9. CASE UNCHANGED bufferVars
    BY <1>9 DEF bufferVars, BufferInv
  <1>10. QED
    BY <1>1, <1>2, <1>3, <1>4, <1>5, <1>6, <1>7, <1>8, <1>9 DEF BufferNext

THEOREM BufferInvariance == BufferSpec => []BufferInv
  BY InitBufferInv, StepBufferInv, PTL DEF BufferSpec

-------------------------------------------------------------------------------
\* The variables keep their types, whatever the values published.
THEOREM BufferTypeCorrect == BufferSpec => []BufferTypeOK
  BY BufferInvariance, PTL DEF BufferInv

\* "The three indices are always a permutation of {0, 1, 2}".
THEOREM IndicesPermuted == BufferSpec => []Permutation
  BY BufferInvariance, PTL DEF BufferInv

\* A value hasPending() has reported is there until the reader takes it.
THEOREM PendingStays == BufferSpec => []PendingKept
  BY BufferInvariance, PTL DEF BufferInv

\* The reference acquire() returned stays valid until the next acquire().
THEOREM HeldIsStable == BufferSpec => HeldStable
  <1>1. ASSUME BufferInv, [BufferNext]_bufferVars
        PROVE  [/\ slots[readIndex] # Torn
                /\ (slots'[readIndex] # slots[readIndex] \/ readIndex' # readIndex)
                     => AcquireExchange]_bufferVars
    <2> USE DEF BufferInv, BufferTypeOK, Indices, Permutation, SlotsWhole
    <2>1. slots[readIndex] # Torn
      BY <1>1
    <2>2. ASSUME NEW v \in Values, BeginCopy(v)
          PROVE  slots'[readIndex] = slots[readIndex] /\ readIndex' = readIndex
      BY <1>1, <2>2 DEF BeginCopy, readerOwn
    <2>3. ASSUME EndCopy
          PROVE  slots'[readIndex] = slots[readIndex] /\ readIndex' = readIndex
      BY <1>1, <2>3 DEF EndCopy, readerOwn
    <2>4. ASSUME PublishExchange \/ CallAcquire \/ AcquireClean \/ AcquireDirty \/ HasPending
          PROVE  slots'[readIndex] = slots[readIndex] /\ readIndex' = readIndex
      BY <1>1, <2>4 DEF PublishExchange, CallAcquire, AcquireClean, AcquireDirty,
                        HasPending, readerOwn
    <2>5. QED
      BY <1>1, <2>1, <2>2, <2>3, <2>4 DEF BufferNext
  <1>2. QED
    BY <1>1, BufferInvariance, PTL DEF BufferSpec, HeldStable

-------------------------------------------------------------------------------
(* Refinement of LatestValue *)

LEMMA InitRefines == BufferInit => Register!Init
  BY DEF BufferInit, Register!Init, Indices

LEMMA StepRefines == BufferInv /\ [BufferNext]_bufferVars => [Register!Next]_(Register!lvVars)
  <1> SUFFICES ASSUME BufferInv, [BufferNext]_bufferVars
               PROVE  Register!Next \/ UNCHANGED Register!lvVars
    OBVIOUS
  <1> USE DEF BufferInv, BufferTypeOK, Indices, Permutation, Register!lvVars
  <1>1. ASSUME NEW v \in Values, BeginCopy(v) PROVE UNCHANGED Register!lvVars
    BY <1>1 DEF BeginCopy, readerOwn
  <1>2. CASE EndCopy
    BY <1>2 DEF EndCopy, readerOwn
  <1>3. CASE PublishExchange
    <2>1. Register!Publish(next)
      BY <1>3 DEF PublishExchange, readerOwn, Register!Publish
    <2>2. QED
      BY <2>1 DEF Register!Next
  <1>4. CASE CallAcquire
    <2>1. Register!BeginAcquire
      BY <1>4 DEF CallAcquire, Register!BeginAcquire
    <2>2. QED
      BY <2>1 DEF Register!Next
  <1>5. CASE AcquireClean
    <2>1. Register!EndAcquire
      BY <1>5 DEF AcquireClean, NewestPlaced, Register!EndAcquire
    <2>2. QED
      BY <2>1 DEF Register!Next
  <1>6. CASE AcquireDirty \/ HasPending
    BY <1>6 DEF AcquireDirty, HasPending
  <1>7. CASE AcquireExchange
    <2>1. Register!EndAcquire
      BY <1>7 DEF AcquireExchange, NewestPlaced, DirtyForReader, Register!EndAcquire
    <2>2. QED
      BY <2>1 DEF Register!Next
  <1>8. CASE UNCHANGED bufferVars
    BY <1>8 DEF bufferVars
  <1>9. QED
    BY <1>1, <1>2, <1>3, <1>4, <1>5, <1>6, <1>7, <1>8 DEF BufferNext

\* Latest wins: the triple buffer is a LatestValue register.
THEOREM LatestWins == BufferSpec => ImplementsLatestValue
  BY BufferInvariance, InitRefines, StepRefines, PTL DEF BufferSpec, ImplementsLatestValue, Register!Spec
===============================================================================
