------------------------ MODULE GpuAsyncPipelineProofs ------------------------
(***************************************************************************)
(* Proofs about GpuAsyncPipeline, for any numbers of channels, any block   *)
(* size, depth and ring space, and any sizes of the host's calls: the      *)
(* rings are destroyed only while nobody uses them, every variable has its *)
(* type, the latency of the front channel is accounted for, and as long as *)
(* nothing goes wrong it is the cushion.  Four inductive invariants, each  *)
(* above the ones before it: IInv (control), DataInv (what is carried),    *)
(* LedgerInv (the stream of the front channel), HeardInv (what is heard).  *)
(***************************************************************************)
EXTENDS GpuAsyncPipeline, SequenceTheorems, TLAPS

AudioPcs == {"idle", "lock", "test", "pushTest", "push", "popTest", "pop", "silence"}
PumpPcs  == {"check", "read", "launch", "fail", "write", "ended"}
OwnerPcs == {"idle", "release", "join", "clear", "backend", "raise", "unlock"}

\* The rings are there, one per channel.
Up == DOMAIN ringsIn = Ins /\ DOMAIN ringsOut = Outs

ControlTypes ==
    /\ audio \in [pc : AudioPcs, n : Int, ch : Int]
    /\ pump \in [pc : PumpPcs, ch : Int]
    /\ owner \in [pc : OwnerPcs, op : {"prepare", "release"}]

\* procLock is held by the thread that stands inside a section of it.
LockHeld ==
    /\ procLock = "audio" <=> audio.pc \notin {"idle", "lock"}
    /\ procLock = "owner" <=> owner.pc # "idle"

\* From release() on the pipeline is not ready, and once the pump has been waited
\* for it stays ended until pipeline.prepare() starts it on new rings.
OwnerKnows ==
    /\ owner.pc \in {"join", "clear", "backend", "raise"} => ~readyFlag
    /\ owner.pc \in {"clear", "backend"} => pump.pc = "ended"
    /\ owner.pc = "raise" => Up

\* Whoever may touch a ring finds it.
UsersFindRings == readyFlag \/ pump.pc # "ended" \/ audio.pc \in {"push", "pop"} => Up

IInv == ControlTypes /\ LockHeld /\ OwnerKnows /\ UsersFindRings

LEMMA InitHolds == Init => IInv
BY DEF Init, IdleAudio, IInv, ControlTypes, LockHeld, OwnerKnows, UsersFindRings,
       AudioPcs, PumpPcs, OwnerPcs

-------------------------------------------------------------------------------
(* One lemma per thread *)

LEMMA CallTypes == \A n \in Calls : n \in Int
BY PipelineAssumption DEF PipelineAssumption

\* A step inside the section of the audio thread that leaves the other threads alone.
LEMMA InsideSection ==
    ASSUME IInv, audio.pc \notin {"idle", "lock"}, audio'.pc \notin {"idle", "lock"},
           audio' \in [pc : AudioPcs, n : Int, ch : Int],
           UNCHANGED <<pump, owner, readyFlag, procLock>>, Up => Up',
           audio'.pc \in {"push", "pop"} => readyFlag \/ audio.pc \in {"push", "pop"}
    PROVE  IInv'
BY DEF IInv, ControlTypes, LockHeld, OwnerKnows, UsersFindRings

\* Moving the audio thread on: its record and its program counter.
LEMMA AudioMoves ==
    ASSUME IInv, NEW from, NEW to \in AudioPcs, AudioGo(from, to)
    PROVE  /\ audio.pc = from /\ audio'.pc = to
           /\ audio' \in [pc : AudioPcs, n : Int, ch : Int]
<1>1. audio \in [pc : AudioPcs, n : Int, ch : Int]
  BY DEF IInv, ControlTypes
<1>2. audio.pc = from /\ audio' = [audio EXCEPT !.pc = to, !.ch = 1]
  BY DEF AudioGo
<1>3. audio' = [pc |-> to, n |-> audio.n, ch |-> 1] /\ audio.n \in Int
  BY <1>1, <1>2
<1>4. QED
  BY <1>2, <1>3

\* The end of a block gives the lock back.
LEMMA BlockEnds ==
    ASSUME IInv, audio.pc \notin {"idle", "lock"}, AudioDone,
           UNCHANGED <<pump, owner, readyFlag>>, Up => Up'
    PROVE  IInv'
<1>1. audio' = IdleAudio /\ procLock' = "free"
  BY DEF AudioDone
<1>2. audio'.pc = "idle" /\ audio' \in [pc : AudioPcs, n : Int, ch : Int]
  BY <1>1 DEF IdleAudio, AudioPcs
<1>3. owner.pc = "idle"
  BY DEF IInv, LockHeld
<1>4. QED
  BY <1>1, <1>2, <1>3 DEF IInv, ControlTypes, LockHeld, OwnerKnows, UsersFindRings

LEMMA AudioStepKeeps ==
    ASSUME IInv, AudioStep
    PROVE  IInv'
<1>1. ASSUME NEW n \in Calls, ProcessBlock(n) PROVE IInv'
  BY <1>1, CallTypes
  DEF ProcessBlock, IInv, ControlTypes, LockHeld, OwnerKnows, UsersFindRings, Up, AudioPcs,
      flags, rings
<1>2. CASE TryLock
  <2>1. UNCHANGED <<pump, owner, readyFlag, ringsIn, ringsOut>>
    BY <1>2 DEF TryLock, flags, rings
  <2>2. CASE procLock = "free"
    <3>1. AudioGo("lock", "test") /\ procLock' = "audio"
      BY <1>2, <2>2 DEF TryLock
    <3>2. /\ audio.pc = "lock" /\ audio'.pc = "test"
          /\ audio' \in [pc : AudioPcs, n : Int, ch : Int]
      BY <3>1, AudioMoves DEF AudioPcs
    <3>3. QED
      BY <2>1, <2>2, <3>1, <3>2
      DEF IInv, ControlTypes, LockHeld, OwnerKnows, UsersFindRings, Up
  <2>3. CASE procLock # "free"
    <3>1. audio.pc = "lock" /\ audio' = IdleAudio /\ procLock' = procLock
      BY <1>2, <2>3 DEF TryLock
    <3>2. audio'.pc = "idle" /\ audio' \in [pc : AudioPcs, n : Int, ch : Int]
      BY <3>1 DEF IdleAudio, AudioPcs
    <3>3. QED
      BY <2>1, <3>1, <3>2
      DEF IInv, ControlTypes, LockHeld, OwnerKnows, UsersFindRings, Up
  <2>4. QED
    BY <2>2, <2>3
<1>3. CASE TestPipeline
  <2>1. /\ audio.pc = "test" /\ audio'.pc = "pushTest"
        /\ audio' \in [pc : AudioPcs, n : Int, ch : Int]
    BY <1>3, AudioMoves DEF TestPipeline, AudioPcs
  <2>2. QED
    BY <1>3, <2>1, InsideSection DEF TestPipeline, flags, rings, Up
<1>4. CASE Bypass
  BY <1>4, BlockEnds DEF Bypass, rings, Up
<1>5. CASE PushTest
  <2>1. CASE readyFlag
    <3>1. AudioGo("pushTest", "push")
      BY <1>5, <2>1 DEF PushTest
    <3>2. /\ audio.pc = "pushTest" /\ audio'.pc = "push"
          /\ audio' \in [pc : AudioPcs, n : Int, ch : Int]
      BY <3>1, AudioMoves DEF AudioPcs
    <3>3. QED
      BY <1>5, <2>1, <3>2, InsideSection DEF PushTest, flags, rings, Up
  <2>2. CASE ~readyFlag
    <3>1. AudioGo("pushTest", "popTest")
      BY <1>5, <2>2 DEF PushTest
    <3>2. /\ audio.pc = "pushTest" /\ audio'.pc = "popTest"
          /\ audio' \in [pc : AudioPcs, n : Int, ch : Int]
      BY <3>1, AudioMoves DEF AudioPcs
    <3>3. QED
      BY <1>5, <3>2, InsideSection DEF PushTest, flags, rings, Up
  <2>3. QED
    BY <2>1, <2>2
<1>6. CASE PushChannel
  <2>1. /\ audio.pc = "push"
        /\ UNCHANGED <<pump, owner, readyFlag, procLock, ringsOut>>
        /\ DOMAIN ringsIn' = DOMAIN ringsIn
    BY <1>6 DEF PushChannel, flags
  <2>2. Up => Up'
    BY <2>1 DEF Up
  <2>3. CASE audio.ch = NumIns
    <3>1. AudioGo("push", "popTest")
      BY <1>6, <2>3 DEF PushChannel
    <3>2. audio'.pc = "popTest" /\ audio' \in [pc : AudioPcs, n : Int, ch : Int]
      BY <3>1, AudioMoves DEF AudioPcs
    <3>3. QED
      BY <2>1, <2>2, <3>2, InsideSection
  <2>4. CASE audio.ch # NumIns
    <3>1. audio' = [audio EXCEPT !.ch = audio.ch + 1]
      BY <1>6, <2>4 DEF PushChannel
    <3>2. audio'.pc = "push" /\ audio' \in [pc : AudioPcs, n : Int, ch : Int]
      BY <2>1, <3>1 DEF IInv, ControlTypes
    <3>3. QED
      BY <2>1, <2>2, <3>2, InsideSection
  <2>5. QED
    BY <2>3, <2>4
<1>7. CASE PopTest
  <2> DEFINE enough == readyFlag /\ ringsOut # <<>> /\ Len(ringsOut[1]) >= audio.n
  <2>1. CASE enough
    <3>1. AudioGo("popTest", "pop")
      BY <1>7, <2>1 DEF PopTest
    <3>2. /\ audio.pc = "popTest" /\ audio'.pc = "pop"
          /\ audio' \in [pc : AudioPcs, n : Int, ch : Int]
      BY <3>1, AudioMoves DEF AudioPcs
    <3>3. QED
      BY <1>7, <2>1, <3>2, InsideSection DEF PopTest, flags, rings, Up
  <2>2. CASE ~enough
    <3>1. AudioGo("popTest", "silence")
      BY <1>7, <2>2 DEF PopTest
    <3>2. /\ audio.pc = "popTest" /\ audio'.pc = "silence"
          /\ audio' \in [pc : AudioPcs, n : Int, ch : Int]
      BY <3>1, AudioMoves DEF AudioPcs
    <3>3. QED
      BY <1>7, <3>2, InsideSection DEF PopTest, flags, rings, Up
  <2>3. QED
    BY <2>1, <2>2
<1>8. CASE PopSilence
  BY <1>8, BlockEnds DEF PopSilence, flags, rings, Up
<1>9. CASE PopChannel
  <2>1. /\ audio.pc = "pop"
        /\ UNCHANGED <<pump, owner, readyFlag, ringsIn>>
        /\ DOMAIN ringsOut' = DOMAIN ringsOut
    BY <1>9 DEF PopChannel, flags
  <2>2. Up => Up'
    BY <2>1 DEF Up
  <2>3. CASE audio.ch = NumOuts
    <3>1. AudioDone
      BY <1>9, <2>3 DEF PopChannel
    <3>2. QED
      BY <2>1, <2>2, <3>1, BlockEnds
  <2>4. CASE audio.ch # NumOuts
    <3>1. audio' = [audio EXCEPT !.ch = audio.ch + 1] /\ procLock' = procLock
      BY <1>9, <2>4 DEF PopChannel
    <3>2. audio'.pc = "pop" /\ audio' \in [pc : AudioPcs, n : Int, ch : Int]
      BY <2>1, <3>1 DEF IInv, ControlTypes
    <3>3. QED
      BY <2>1, <2>2, <3>1, <3>2, InsideSection
  <2>5. QED
    BY <2>3, <2>4
<1>10. QED
  BY <1>1, <1>2, <1>3, <1>4, <1>5, <1>6, <1>7, <1>8, <1>9 DEF AudioStep

LEMMA PumpStepKeeps ==
    ASSUME IInv, PumpStep
    PROVE  IInv'
<1> USE DEF IInv, ControlTypes, LockHeld, OwnerKnows, UsersFindRings, Up,
            PumpPcs, PumpGo, flags, rings
<1>1. CASE PumpEnd
  BY <1>1 DEF PumpEnd
<1>2. CASE PumpTake
  BY <1>2 DEF PumpTake
<1>3. CASE PumpRead
  BY <1>3 DEF PumpRead
<1>4. CASE Launch
  BY <1>4 DEF Launch
<1>5. CASE LaunchFails
  BY <1>5 DEF LaunchFails
<1>6. CASE PumpFails
  BY <1>6 DEF PumpFails
<1>7. CASE PumpWrite
  BY <1>7 DEF PumpWrite
<1>8. QED
  BY <1>1, <1>2, <1>3, <1>4, <1>5, <1>6, <1>7 DEF PumpStep

LEMMA OwnerStepKeeps ==
    ASSUME IInv, OwnerStep
    PROVE  IInv'
<1> USE DEF IInv, ControlTypes, LockHeld, OwnerKnows, UsersFindRings, Up,
            PumpPcs, OwnerPcs, OwnerGo, flags, rings
<1>1. CASE Release
  BY <1>1 DEF Release
<1>2. CASE Join
  BY <1>2 DEF Join
<1>3. CASE Kill
  BY <1>3 DEF Kill
<1>4. CASE ClearRings
  BY <1>4 DEF ClearRings
<1>5. CASE BackendFails
  BY <1>5 DEF BackendFails
<1>6. CASE Rebuild
  BY <1>6 DEF Rebuild
<1>7. CASE RaiseReady
  BY <1>7 DEF RaiseReady
<1>8. CASE Unlock
  BY <1>8 DEF Unlock
<1>9. QED
  BY <1>1, <1>2, <1>3, <1>4, <1>5, <1>6, <1>7, <1>8 DEF OwnerStep

LEMMA CallKeeps ==
    ASSUME IInv, NEW op \in {"prepare", "release"}, NEW on, Call(op, on)
    PROVE  IInv'
BY DEF IInv, ControlTypes, LockHeld, OwnerKnows, UsersFindRings, Up, OwnerPcs, rings, Call

LEMMA EnablingKeeps ==
    ASSUME IInv, NEW on, setProcessingEnabled(on)
    PROVE  IInv'
BY DEF IInv, ControlTypes, LockHeld, OwnerKnows, UsersFindRings, Up, rings,
       setProcessingEnabled

LEMMA StutterKeeps ==
    ASSUME IInv, UNCHANGED vars
    PROVE  IInv'
BY DEF IInv, ControlTypes, LockHeld, OwnerKnows, UsersFindRings, Up, vars

\* Every reachable state satisfies the invariant.
THEOREM Invariance == Spec => []IInv
<1>1. IInv /\ [Next]_vars => IInv'
  <2> SUFFICES ASSUME IInv, [Next]_vars PROVE IInv'
    OBVIOUS
  <2>1. CASE UNCHANGED vars
    BY <2>1, StutterKeeps
  <2>2. CASE AudioStep
    BY <2>2, AudioStepKeeps
  <2>3. CASE PumpStep
    BY <2>3, PumpStepKeeps
  <2>4. CASE OwnerStep
    BY <2>4, OwnerStepKeeps
  <2>5. ASSUME NEW op \in {"prepare", "release"}, NEW on \in BOOLEAN, Call(op, on)
        PROVE  IInv'
    BY <2>5, CallKeeps
  <2>6. ASSUME NEW on \in BOOLEAN, setProcessingEnabled(on) PROVE IInv'
    BY <2>6, EnablingKeeps
  <2>7. QED
    BY <2>1, <2>2, <2>3, <2>4, <2>5, <2>6 DEF Next
<1>2. QED
  BY InitHolds, <1>1, PTL DEF Spec

\* No thread uses a ring that release() has destroyed.
THEOREM RingsOutliveUsers == Spec => []RingsHeld
<1>1. IInv => RingsHeld
  <2> SUFFICES ASSUME IInv PROVE RingsHeld
    OBVIOUS
  <2>1. 1 \in Ins /\ 1 \in Outs
    BY PipelineAssumption DEF PipelineAssumption, Ins, Outs
  <2>2. Up => ringsIn # <<>> /\ ringsOut # <<>>
    BY <2>1 DEF Up
  <2>3. QED
    BY <2>2 DEF IInv, UsersFindRings, RingsHeld
<1>2. QED
  BY Invariance, <1>1, PTL
-------------------------------------------------------------------------------
(* The data: the second inductive invariant, above the first one *)

Moments == [Ins -> Instants]

Values ==
    /\ ready \in BOOLEAN /\ enabled \in BOOLEAN /\ readyFlag \in BOOLEAN
    /\ pumpFailed \in BOOLEAN /\ shouldExit \in BOOLEAN /\ dropped \in BOOLEAN
    /\ ringsIn = <<>> \/ ringsIn \in [Ins -> Seq(Instants)]
    /\ ringsOut = <<>> \/ ringsOut \in [Outs -> Seq(Moments)]
    /\ pumpIn \in [Ins -> [1..BlockSize -> Instants]]
    /\ pumpOut \in [1..BlockSize -> Moments]
    /\ time \in Instants /\ underrun \in 0..time /\ lost \in Nat

\* A ring holds at most its capacity.
Capacity ==
    /\ \A c \in DOMAIN ringsIn : Len(ringsIn[c]) <= RingCapacity
    /\ \A o \in DOMAIN ringsOut : Len(ringsOut[o]) <= RingCapacity

\* The pipeline carries samples: it is ready, or about to be.
Live == readyFlag \/ owner.pc = "raise"

\* The channel a loop stands at.
Channels ==
    /\ audio.pc = "push" => audio.ch \in Ins
    /\ audio.pc = "pop" => audio.ch \in Outs
    /\ pump.pc = "read" => pump.ch \in Ins
    /\ pump.pc = "write" => pump.ch \in Outs

\* A block fits in the time that is left, unless it will be bypassed.
TimeLeft ==
    audio.pc # "idle" =>
        /\ audio.n \in Calls
        /\ time + audio.n <= MaxTime \/ (audio.pc \in {"lock", "test"} /\ ~Live)

\* What a thread has found in a front ring stays there until it takes it, and
\* before the pipeline is raised nothing has been queued.
FrontFound ==
    /\ pump.pc = "read" /\ pump.ch = 1 => Len(ringsIn[1]) >= BlockSize
    /\ audio.pc = "pop" /\ audio.ch = 1 => Len(ringsOut[1]) >= audio.n
    /\ owner.pc = "raise" => ringsIn[1] = <<>> /\ pump.pc \in {"check", "ended"} /\ time = 0

DataInv == Values /\ Capacity /\ Channels /\ TimeLeft /\ FrontFound

\* A sequence that ends at an instant and counts down from there, silence before
\* the first.
Dated(s, last) ==
    \A i \in 1..Len(s) : s[i] = LET t == last - Len(s) + i IN IF t > 0 THEN t ELSE 0
-------------------------------------------------------------------------------
(* Lemmas about numbers, sequences and rings *)

LEMMA Numbers ==
    /\ NumIns \in Nat \ {0} /\ NumOuts \in Nat \ {0} /\ BlockSize \in Nat \ {0}
    /\ MaxTime \in Nat /\ Calls \subseteq 1..BlockSize /\ Calls \subseteq 1..MaxTime
    /\ 1 \in Ins /\ 1 \in Outs
BY PipelineAssumption DEF PipelineAssumption, Ins, Outs

\* The cushion fits in a ring, with a block less one to spare.
LEMMA RingSizes == Cushion \in Nat /\ RingCapacity \in Nat /\ Cushion <= RingCapacity
<1>1. /\ BlockSize \in Nat \ {0} /\ Depth \in Nat \ {0} /\ SpareBlocks \in Nat \ {0}
  BY PipelineAssumption DEF PipelineAssumption
<1>2. BlockSize * (Depth + SpareBlocks) = Depth * BlockSize + BlockSize * SpareBlocks
  BY <1>1
<1>3. BlockSize * SpareBlocks >= 1 /\ BlockSize * SpareBlocks \in Nat /\ Depth * BlockSize \in Nat
  BY <1>1
<1>4. QED
  BY <1>2, <1>3 DEF Cushion, RingCapacity

LEMMA FunctionIsSeq ==
    ASSUME NEW S, NEW n \in Nat, NEW f \in [1..n -> S]
    PROVE  f \in Seq(S) /\ Len(f) = n
<1>1. f \in Seq(S)
  BY SeqDef
<1>2. DOMAIN f = 1..Len(f) /\ Len(f) \in Nat /\ DOMAIN f = 1..n
  BY <1>1, LenProperties
<1>3. QED
  BY <1>1, <1>2

\* A write keeps what is there, adds what fits and never exceeds the capacity.
LEMMA WriteFacts ==
    ASSUME NEW S, NEW r \in Seq(S), Len(r) <= RingCapacity, NEW s \in Seq(S)
    PROVE  /\ Write(r, s) \in Seq(S) /\ Len(Write(r, s)) <= RingCapacity
           /\ Excess(r, s) \in 0..Len(s) /\ Len(Write(r, s)) = Len(r) + Len(s) - Excess(r, s)
           /\ \A i \in 1..Len(r) : Write(r, s)[i] = r[i]
           /\ Excess(r, s) = 0 => Write(r, s) = r \o s
<1> DEFINE m == jmin(Len(s), RingCapacity - Len(r))
<1>1. Len(r) \in Nat /\ Len(s) \in Nat
  BY LenProperties
<1>2. m \in 0..Len(s) /\ m <= RingCapacity - Len(r) /\ Excess(r, s) = Len(s) - m
  BY <1>1, RingSizes DEF jmin, Excess
<1> HIDE DEF m
<1>3. SubSeq(s, 1, m) \in Seq(S) /\ Len(SubSeq(s, 1, m)) = m
  <2>1. \A i \in 1..m : s[i] \in S
    BY <1>1, <1>2, ElementOfSeq
  <2>2. m \in Int /\ 1 \in Int
    BY <1>2
  <2>3. /\ SubSeq(s, 1, m) \in Seq(S)
        /\ Len(SubSeq(s, 1, m)) = IF 1 <= m THEN m - 1 + 1 ELSE 0
    BY <2>1, <2>2, SubSeqProperties
  <2>4. QED
    BY <1>2, <2>3
<1>4. Write(r, s) = r \o SubSeq(s, 1, m)
  BY DEF Write, m
<1>5. /\ Write(r, s) \in Seq(S) /\ Len(Write(r, s)) = Len(r) + m
      /\ \A i \in 1..Len(r) : Write(r, s)[i] = r[i]
  BY <1>1, <1>2, <1>3, <1>4, ConcatProperties
<1>6. Excess(r, s) = 0 => Write(r, s) = r \o s
  BY <1>1, <1>2, <1>4, SubSeqFull
<1>7. QED
  BY <1>1, <1>2, <1>5, <1>6, RingSizes

\* A read takes the front of a ring.
LEMMA LeftFacts ==
    ASSUME NEW S, NEW r \in Seq(S), NEW k \in Nat
    PROVE  /\ Left(r, k) \in Seq(S) /\ Len(Left(r, k)) <= Len(r)
           /\ k <= Len(r) => /\ Left(r, k) = SubSeq(r, k + 1, Len(r))
                             /\ Len(Left(r, k)) = Len(r) - k
<1> DEFINE m == jmin(k, Len(r)) + 1
<1>1. Len(r) \in Nat
  BY LenProperties
<1>2. m \in 1..Len(r) + 1 /\ (k <= Len(r) => m = k + 1)
  BY <1>1 DEF jmin
<1>3. Left(r, k) = SubSeq(r, m, Len(r))
  BY DEF Left
<1> HIDE DEF m
<1>4. /\ SubSeq(r, m, Len(r)) \in Seq(S)
      /\ Len(SubSeq(r, m, Len(r))) = IF m <= Len(r) THEN Len(r) - m + 1 ELSE 0
  <2>1. \A i \in m..Len(r) : r[i] \in S
    BY <1>1, <1>2, ElementOfSeq
  <2>2. QED
    BY <1>1, <1>2, <2>1, SubSeqProperties
<1>5. QED
  BY <1>1, <1>2, <1>3, <1>4

LEMMA ReadFacts ==
    ASSUME NEW S, NEW r \in Seq(S), NEW k \in Nat, NEW old \in [1..k -> S]
    PROVE  /\ Read(r, k, old) \in [1..k -> S]
           /\ k <= Len(r) => Read(r, k, old) = SubSeq(r, 1, k)
<1>1. Len(r) \in Nat /\ \A i \in 1..Len(r) : r[i] \in S
  BY LenProperties, ElementOfSeq
<1>2. Read(r, k, old) \in [1..k -> S]
  BY <1>1 DEF Read
<1>3. ASSUME k <= Len(r) PROVE Read(r, k, old) = SubSeq(r, 1, k)
  <2>1. Read(r, k, old) \in Seq(S) /\ Len(Read(r, k, old)) = k
    BY <1>2, FunctionIsSeq
  <2>2. \A i \in 1..k : Read(r, k, old)[i] = r[i]
    BY <1>1, <1>3 DEF Read
  <2>3. /\ SubSeq(r, 1, k) \in Seq(S) /\ Len(SubSeq(r, 1, k)) = IF 1 <= k THEN k - 1 + 1 ELSE 0
        /\ \A i \in 1..k - 1 + 1 : SubSeq(r, 1, k)[i] = r[1 + i - 1]
    <3>1. \A i \in 1..k : r[i] \in S
      BY <1>1, <1>3
    <3>2. QED
      BY <3>1, SubSeqProperties
  <2>4. Len(SubSeq(r, 1, k)) = k /\ \A i \in 1..k : SubSeq(r, 1, k)[i] = r[i]
    BY <2>3
  <2>5. QED
    BY <2>1, <2>2, <2>3, <2>4, SeqEqual
<1>4. QED
  BY <1>2, <1>3
-------------------------------------------------------------------------------
(* Steps of the data invariant: what is carried *)

LEMMA RingsThere ==
    ASSUME Values, Up
    PROVE  ringsIn \in [Ins -> Seq(Instants)] /\ ringsOut \in [Outs -> Seq(Moments)]
BY Numbers DEF Values, Up

LEMMA TimeFacts ==
    ASSUME DataInv
    PROVE  /\ time \in Nat /\ time <= MaxTime /\ underrun \in Nat /\ underrun <= time
           /\ lost \in Nat
           /\ audio.pc # "idle" => audio.n \in Nat \ {0}
           /\ audio.pc \notin {"idle", "lock", "test"} => time + audio.n <= MaxTime
<1>1. time \in Nat /\ time <= MaxTime /\ underrun \in Nat /\ underrun <= time /\ lost \in Nat
  <2>1. time \in 0..MaxTime /\ underrun \in 0..time /\ lost \in Nat
    BY DEF DataInv, Values, Instants
  <2>2. QED
    BY <2>1, Numbers
<1>2. audio.pc # "idle" => audio.n \in Nat \ {0}
  <2>1. \A n \in Calls : n \in Nat \ {0}
    BY Numbers
  <2>2. QED
    BY <2>1 DEF DataInv, TimeLeft
<1>3. audio.pc \notin {"idle", "lock", "test"} => time + audio.n <= MaxTime
  BY DEF DataInv, TimeLeft
<1>4. QED
  BY <1>1, <1>2, <1>3

\* A step that moves no sample.
LEMMA QuietData ==
    ASSUME Values, Capacity, UNCHANGED <<rings, blocks, time, underrun, losses>>,
           {ready, enabled, readyFlag, pumpFailed, shouldExit}' \subseteq BOOLEAN
    PROVE  Values' /\ Capacity'
BY DEF Values, Capacity, Up, rings, blocks, losses, Moments

LEMMA PushValues ==
    ASSUME IInv, DataInv, PushChannel
    PROVE  Values' /\ Capacity'
<1> DEFINE c == audio.ch
           s == [i \in 1..audio.n |-> time + i]
<1>1. /\ audio.pc = "push" /\ Up /\ c \in Ins /\ audio.n \in Nat /\ time + audio.n <= MaxTime
      /\ time \in Nat
  BY PushChannel, Numbers
  DEF PushChannel, IInv, UsersFindRings, DataInv, Channels, TimeLeft, Values, Instants
<1>2. ringsIn \in [Ins -> Seq(Instants)] /\ ringsOut \in [Outs -> Seq(Moments)]
  BY <1>1, RingsThere DEF DataInv
<1>3. s \in Seq(Instants)
  <2>1. s \in [1..audio.n -> Instants]
    BY <1>1, Numbers DEF Instants
  <2>2. QED
    BY <1>1, <2>1, FunctionIsSeq
<1>4. /\ Write(ringsIn[c], s) \in Seq(Instants) /\ Len(Write(ringsIn[c], s)) <= RingCapacity
      /\ Excess(ringsIn[c], s) \in Nat /\ Excess(ringsIn[1], s) \in Nat
  <2>1. /\ \A d \in Ins : ringsIn[d] \in Seq(Instants) /\ Len(ringsIn[d]) <= RingCapacity
    BY <1>1, <1>2 DEF DataInv, Capacity, Up
  <2>2. \A d \in Ins : Excess(ringsIn[d], s) \in 0..Len(s)
    BY <1>3, <2>1, WriteFacts
  <2>3. Len(s) \in Nat
    BY <1>3, LenProperties
  <2>4. QED
    BY <1>1, <1>3, <2>1, <2>2, <2>3, WriteFacts, Numbers
<1>5. /\ ringsIn' = [ringsIn EXCEPT ![c] = Write(ringsIn[c], s)]
      /\ lost' = lost + (IF c = 1 THEN Excess(ringsIn[c], s) ELSE 0)
      /\ dropped' = (dropped \/ Excess(ringsIn[c], s) > 0)
      /\ UNCHANGED <<ringsOut, pumpIn, pumpOut, time, underrun, ready, enabled, readyFlag,
                     pumpFailed, shouldExit>>
  BY DEF PushChannel, flags, blocks
<1> HIDE DEF c, s
<1>6. ringsIn' \in [Ins -> Seq(Instants)]
  BY <1>1, <1>2, <1>4, <1>5
<1>7. lost' \in Nat /\ dropped' \in BOOLEAN
  BY <1>4, <1>5 DEF DataInv, Values
<1>8. \A d \in Ins : Len(ringsIn'[d]) <= RingCapacity
  BY <1>1, <1>2, <1>4, <1>5 DEF DataInv, Capacity, Up
<1>9. Values'
  BY <1>5, <1>6, <1>7 DEF DataInv, Values, Moments
<1>10. Capacity'
  BY <1>1, <1>5, <1>8 DEF DataInv, Capacity, Up
<1>11. QED
  BY <1>9, <1>10

LEMMA SilenceValues ==
    ASSUME IInv, DataInv, PopSilence
    PROVE  Values' /\ Capacity'
<1>1. /\ audio.n \in Nat /\ time + audio.n <= MaxTime /\ time \in Nat
  BY TimeFacts DEF PopSilence
<1>2. /\ time' = time + audio.n /\ underrun' \in {underrun, underrun + audio.n}
      /\ UNCHANGED <<flags, rings, blocks, losses>>
  BY <1>1, TimeFacts DEF PopSilence
<1>3. time' \in Instants /\ underrun' \in 0..time'
  BY <1>1, <1>2, TimeFacts, Numbers DEF Instants
<1>4. QED
  BY <1>2, <1>3 DEF DataInv, Values, Capacity, Up, flags, rings, blocks, losses, Moments

LEMMA PopValues ==
    ASSUME IInv, DataInv, PopChannel
    PROVE  Values' /\ Capacity'
<1> DEFINE o == audio.ch
<1>1. /\ audio.pc = "pop" /\ Up /\ o \in Outs /\ audio.n \in Nat /\ time + audio.n <= MaxTime
      /\ time \in Nat
  BY PopChannel, Numbers
  DEF PopChannel, IInv, UsersFindRings, DataInv, Channels, TimeLeft, Values, Instants
<1>2. ringsIn \in [Ins -> Seq(Instants)] /\ ringsOut \in [Outs -> Seq(Moments)]
  BY <1>1, RingsThere DEF DataInv
<1>3. Left(ringsOut[o], audio.n) \in Seq(Moments) /\ Len(Left(ringsOut[o], audio.n)) <= RingCapacity
  <2>1. Len(ringsOut[o]) <= RingCapacity /\ ringsOut[o] \in Seq(Moments)
    BY <1>1, <1>2 DEF DataInv, Capacity, Up
  <2>2. /\ Left(ringsOut[o], audio.n) \in Seq(Moments)
        /\ Len(Left(ringsOut[o], audio.n)) <= Len(ringsOut[o])
    BY <1>1, <2>1, LeftFacts
  <2>3. Len(Left(ringsOut[o], audio.n)) \in Nat /\ Len(ringsOut[o]) \in Nat
    BY <2>1, <2>2, LenProperties
  <2>4. QED
    BY <2>1, <2>2, <2>3, RingSizes
<1>4. /\ ringsOut' = [ringsOut EXCEPT ![o] = Left(ringsOut[o], audio.n)]
      /\ time' \in {time, time + audio.n}
      /\ UNCHANGED <<ringsIn, pumpIn, pumpOut, underrun, lost, dropped, ready, enabled,
                     readyFlag, pumpFailed, shouldExit>>
  BY DEF PopChannel, flags, blocks, losses
<1> HIDE DEF o
<1>5. ringsOut' \in [Outs -> Seq(Moments)]
  BY <1>1, <1>2, <1>3, <1>4
<1>6. \A d \in Outs : Len(ringsOut'[d]) <= RingCapacity
  BY <1>1, <1>2, <1>3, <1>4 DEF DataInv, Capacity, Up
<1>7. time' \in Instants /\ underrun' \in 0..time'
  BY <1>1, <1>4, TimeFacts, Numbers DEF Instants
<1>8. Values'
  BY <1>4, <1>5, <1>7 DEF DataInv, Values, Moments
<1>9. Capacity'
  BY <1>1, <1>4, <1>6 DEF DataInv, Capacity, Up
<1>10. QED
  BY <1>8, <1>9

LEMMA PumpReadValues ==
    ASSUME IInv, DataInv, PumpRead
    PROVE  Values' /\ Capacity'
<1> DEFINE c == pump.ch
<1>1. pump.pc = "read" /\ Up /\ c \in Ins
  BY DEF PumpRead, IInv, UsersFindRings, DataInv, Channels
<1>2. ringsIn \in [Ins -> Seq(Instants)] /\ ringsOut \in [Outs -> Seq(Moments)]
  BY <1>1, RingsThere DEF DataInv
<1>3. /\ Left(ringsIn[c], BlockSize) \in Seq(Instants)
      /\ Len(Left(ringsIn[c], BlockSize)) <= RingCapacity
  <2>1. Len(ringsIn[c]) <= RingCapacity /\ ringsIn[c] \in Seq(Instants)
    BY <1>1, <1>2 DEF DataInv, Capacity, Up
  <2>2. /\ Left(ringsIn[c], BlockSize) \in Seq(Instants)
        /\ Len(Left(ringsIn[c], BlockSize)) <= Len(ringsIn[c])
    BY <2>1, LeftFacts, Numbers
  <2>3. Len(Left(ringsIn[c], BlockSize)) \in Nat /\ Len(ringsIn[c]) \in Nat
    BY <2>1, <2>2, LenProperties
  <2>4. QED
    BY <2>1, <2>2, <2>3, RingSizes
<1>4. Read(ringsIn[c], BlockSize, pumpIn[c]) \in [1..BlockSize -> Instants]
  <2>1. pumpIn[c] \in [1..BlockSize -> Instants] /\ ringsIn[c] \in Seq(Instants)
    BY <1>1, <1>2 DEF DataInv, Values
  <2>2. QED
    BY <2>1, ReadFacts, Numbers
<1>5. /\ ringsIn' = [ringsIn EXCEPT ![c] = Left(ringsIn[c], BlockSize)]
      /\ pumpIn' = [pumpIn EXCEPT ![c] = Read(ringsIn[c], BlockSize, pumpIn[c])]
      /\ UNCHANGED <<ringsOut, pumpOut, time, underrun, lost, dropped, ready, enabled,
                     readyFlag, pumpFailed, shouldExit>>
  BY DEF PumpRead, flags, losses
<1> HIDE DEF c
<1>6. ringsIn' \in [Ins -> Seq(Instants)] /\ pumpIn' \in [Ins -> [1..BlockSize -> Instants]]
  BY <1>1, <1>2, <1>3, <1>4, <1>5 DEF DataInv, Values
<1>7. \A d \in Ins : Len(ringsIn'[d]) <= RingCapacity
  BY <1>1, <1>2, <1>3, <1>5 DEF DataInv, Capacity, Up
<1>8. Values'
  BY <1>5, <1>6 DEF DataInv, Values, Moments
<1>9. Capacity'
  BY <1>1, <1>5, <1>7 DEF DataInv, Capacity, Up
<1>10. QED
  BY <1>8, <1>9

LEMMA LaunchValues ==
    ASSUME DataInv, Launch
    PROVE  Values' /\ Capacity'
<1>1. pumpOut' = [i \in 1..BlockSize |-> [c \in Ins |-> pumpIn[c][i]]]
  BY DEF Launch
<1>2. pumpOut' \in [1..BlockSize -> Moments]
  <2>1. \A c \in Ins, i \in 1..BlockSize : pumpIn[c][i] \in Instants
    BY DEF DataInv, Values
  <2>2. \A i \in 1..BlockSize : [c \in Ins |-> pumpIn[c][i]] \in Moments
    BY <2>1 DEF Moments
  <2>3. QED
    BY <1>1, <2>2
<1>3. QED
  BY <1>2 DEF Launch, DataInv, Values, Capacity, Up, flags, rings, losses, Moments

LEMMA PumpWriteValues ==
    ASSUME IInv, DataInv, PumpWrite
    PROVE  Values' /\ Capacity'
<1> DEFINE o == pump.ch
<1>1. pump.pc = "write" /\ Up /\ o \in Outs
  BY DEF PumpWrite, IInv, UsersFindRings, DataInv, Channels
<1>2. ringsIn \in [Ins -> Seq(Instants)] /\ ringsOut \in [Outs -> Seq(Moments)]
  BY <1>1, RingsThere DEF DataInv
<1>3. pumpOut \in Seq(Moments) /\ Len(pumpOut) = BlockSize
  BY FunctionIsSeq, Numbers DEF DataInv, Values
<1>4. /\ Write(ringsOut[o], pumpOut) \in Seq(Moments)
      /\ Len(Write(ringsOut[o], pumpOut)) <= RingCapacity
      /\ Excess(ringsOut[o], pumpOut) \in Nat
  <2>1. Len(ringsOut[o]) <= RingCapacity /\ ringsOut[o] \in Seq(Moments)
    BY <1>1, <1>2 DEF DataInv, Capacity, Up
  <2>2. QED
    BY <1>3, <2>1, WriteFacts, Numbers
<1>5. /\ ringsOut' = [ringsOut EXCEPT ![o] = Write(ringsOut[o], pumpOut)]
      /\ lost' = lost + (IF o = 1 THEN Excess(ringsOut[o], pumpOut) ELSE 0)
      /\ dropped' = (dropped \/ Excess(ringsOut[o], pumpOut) > 0)
      /\ UNCHANGED <<ringsIn, pumpIn, pumpOut, time, underrun, ready, enabled, readyFlag,
                     pumpFailed, shouldExit>>
  BY DEF PumpWrite, flags, blocks
<1> HIDE DEF o
<1>6. ringsOut' \in [Outs -> Seq(Moments)]
  BY <1>1, <1>2, <1>4, <1>5
<1>7. lost' \in Nat /\ dropped' \in BOOLEAN
  BY <1>4, <1>5 DEF DataInv, Values
<1>8. \A d \in Outs : Len(ringsOut'[d]) <= RingCapacity
  BY <1>1, <1>2, <1>4, <1>5 DEF DataInv, Capacity, Up
<1>9. Values'
  BY <1>5, <1>6, <1>7 DEF DataInv, Values, Moments
<1>10. Capacity'
  BY <1>1, <1>5, <1>8 DEF DataInv, Capacity, Up
<1>11. QED
  BY <1>9, <1>10

\* prepare() starts with empty input rings and the cushion in the output rings.
LEMMA RebuildValues ==
    ASSUME DataInv, Rebuild
    PROVE  Values' /\ Capacity'
<1> DEFINE cushion == [i \in 1..Cushion |-> Silent]
<1>1. Silent \in Moments /\ 0 \in Instants
  BY Numbers DEF Silent, Moments, Instants
<1>2. cushion \in Seq(Moments) /\ Len(cushion) = Cushion
  BY <1>1, RingSizes, FunctionIsSeq
<1>3. /\ ringsIn' = [c \in Ins |-> <<>>] /\ ringsOut' = [o \in Outs |-> cushion]
      /\ pumpIn' = [c \in Ins |-> ZeroBlock(0)] /\ pumpOut' = ZeroBlock(Silent)
      /\ pumpFailed' = FALSE /\ shouldExit' = FALSE /\ time' = 0 /\ underrun' = 0
      /\ lost' = 0 /\ dropped' = FALSE /\ UNCHANGED <<ready, enabled, readyFlag>>
  BY DEF Rebuild
<1> HIDE DEF cushion
<1>4. ringsIn' \in [Ins -> Seq(Instants)] /\ ringsOut' \in [Outs -> Seq(Moments)]
  BY <1>2, <1>3
<1>5. pumpIn' \in [Ins -> [1..BlockSize -> Instants]] /\ pumpOut' \in [1..BlockSize -> Moments]
  BY <1>1, <1>3 DEF ZeroBlock
<1>6. time' \in Instants /\ underrun' \in 0..time'
  BY <1>1, <1>3
<1>7. Values'
  BY <1>3, <1>4, <1>5, <1>6 DEF DataInv, Values, Moments
<1>8. \A c \in Ins : Len(ringsIn'[c]) <= RingCapacity
  BY <1>3, RingSizes
<1>9. \A o \in Outs : Len(ringsOut'[o]) <= RingCapacity
  BY <1>2, <1>3, RingSizes
<1>10. DOMAIN ringsIn' = Ins /\ DOMAIN ringsOut' = Outs
  BY <1>3
<1>11. QED
  BY <1>7, <1>8, <1>9, <1>10 DEF Capacity
-------------------------------------------------------------------------------
(* Steps of the data invariant: channels, the time left, the front rings *)

Places == Channels /\ TimeLeft /\ FrontFound

LEMMA AudioFields ==
    ASSUME IInv, NEW from, NEW to, AudioGo(from, to)
    PROVE  audio.pc = from /\ audio'.pc = to /\ audio'.n = audio.n /\ audio'.ch = 1
BY DEF AudioGo, IInv, ControlTypes

\* An audio step that touches no ring.
LEMMA QuietAudio ==
    ASSUME DataInv, UNCHANGED <<rings, pump, owner, readyFlag, time>>,
           \/ audio'.pc = "idle"
           \/ /\ audio'.n = audio.n /\ audio'.ch = 1 /\ audio.pc # "idle"
              /\ audio'.pc \in {"lock", "test"} => audio.pc \in {"lock", "test"}
              /\ audio'.pc \notin {"lock", "test"} /\ audio.pc \in {"lock", "test"} => Live
              /\ audio'.pc = "pop" => Len(ringsOut[1]) >= audio.n
    PROVE  Places'
<1>1. Live' <=> Live
  BY DEF Live
<1>2. Channels'
  BY Numbers DEF DataInv, Channels
<1>3. TimeLeft'
  BY <1>1 DEF DataInv, TimeLeft
<1>4. FrontFound'
  BY DEF DataInv, FrontFound, rings
<1>5. QED
  BY <1>2, <1>3, <1>4 DEF Places

LEMMA AudioPlaces ==
    ASSUME IInv, DataInv, AudioStep
    PROVE  Places'
<1> USE DEF rings, flags
<1>1. ASSUME NEW n \in Calls, ProcessBlock(n) PROVE Places'
  <2>1. /\ audio' = [pc |-> "lock", n |-> n, ch |-> 1]
        /\ time + n <= MaxTime \/ ~readyFlag
        /\ audio'.pc = "lock" /\ audio'.n = n
        /\ UNCHANGED <<ringsIn, ringsOut, pump, owner, readyFlag, time>>
    BY <1>1 DEF ProcessBlock
  <2>2. owner.pc = "raise" => time + n <= MaxTime
    BY Numbers DEF DataInv, FrontFound
  <2>3. time' + audio'.n <= MaxTime \/ ~Live'
    BY <2>1, <2>2 DEF Live
  <2>4. TimeLeft'
    BY <2>1, <2>3 DEF TimeLeft
  <2>5. Channels' /\ FrontFound'
    BY <2>1 DEF DataInv, Channels, FrontFound
  <2>6. QED
    BY <2>4, <2>5 DEF Places
<1>2. CASE TryLock
  <2>1. CASE procLock = "free"
    <3>1. AudioGo("lock", "test")
      BY <1>2, <2>1 DEF TryLock
    <3>2. QED
      BY <1>2, <3>1, AudioFields, QuietAudio DEF TryLock
  <2>2. CASE procLock # "free"
    BY <1>2, <2>2, QuietAudio DEF TryLock, IdleAudio
  <2>3. QED
    BY <2>1, <2>2
<1>3. CASE TestPipeline
  BY <1>3, AudioFields, QuietAudio DEF TestPipeline, Live
<1>4. CASE Bypass
  BY <1>4, QuietAudio DEF Bypass, AudioDone, IdleAudio
<1>5. CASE PushTest
  <2>1. AudioGo("pushTest", IF readyFlag THEN "push" ELSE "popTest")
    BY <1>5 DEF PushTest
  <2>2. /\ audio.pc = "pushTest" /\ audio'.n = audio.n /\ audio'.ch = 1
        /\ audio'.pc = IF readyFlag THEN "push" ELSE "popTest"
    BY <2>1, AudioFields
  <2>3. QED
    BY <1>5, <2>2, QuietAudio DEF PushTest
<1>6. CASE PopTest
  <2> DEFINE enough == readyFlag /\ ringsOut # <<>> /\ Len(ringsOut[1]) >= audio.n
  <2>1. AudioGo("popTest", IF enough THEN "pop" ELSE "silence")
    BY <1>6 DEF PopTest
  <2>2. /\ audio.pc = "popTest" /\ audio'.n = audio.n /\ audio'.ch = 1
        /\ audio'.pc = IF enough THEN "pop" ELSE "silence"
    BY <2>1, AudioFields
  <2>3. QED
    BY <1>6, <2>2, QuietAudio DEF PopTest
<1>7. CASE PushChannel
  <2>1. /\ audio.pc = "push" /\ owner.pc # "raise" /\ audio.ch \in Ins /\ Up
    BY <1>7 DEF PushChannel, IInv, LockHeld, UsersFindRings, DataInv, Channels
  <2>2. /\ UNCHANGED <<pump, owner, readyFlag, time, ringsOut>>
        /\ audio'.n = audio.n
        /\ \/ audio'.pc = "push" /\ audio'.ch = audio.ch + 1 /\ audio.ch # NumIns
           \/ audio'.pc = "popTest"
    <3>1. CASE audio.ch = NumIns
      BY <1>7, <3>1, AudioFields DEF PushChannel
    <3>2. CASE audio.ch # NumIns
      BY <1>7, <2>1, <3>2 DEF PushChannel, IInv, ControlTypes
    <3>3. QED
      BY <3>1, <3>2
  <2>3. Channels'
    BY <2>1, <2>2, Numbers DEF DataInv, Channels, Ins
  <2>4. TimeLeft'
    BY <2>1, <2>2 DEF DataInv, TimeLeft, Live
  <2>5. Len(ringsIn[1]) >= BlockSize => Len(ringsIn'[1]) >= BlockSize
    <3> DEFINE s == [i \in 1..audio.n |-> time + i]
    <3>1. CASE audio.ch = 1
      <4>1. s \in Seq(Nat) /\ ringsIn[1] \in Seq(Nat) /\ Len(ringsIn[1]) <= RingCapacity
        <5>1. audio.n \in Nat /\ time \in Nat
          BY <2>1, TimeFacts
        <5>2. s \in [1..audio.n -> Nat]
          BY <5>1
        <5>3. s \in Seq(Nat)
          BY <5>1, <5>2, FunctionIsSeq
        <5>4. ringsIn[1] \in Seq(Instants) /\ Len(ringsIn[1]) <= RingCapacity
          BY <2>1, RingsThere, Numbers DEF DataInv, Capacity, Up
        <5>5. Instants \subseteq Nat
          BY Numbers DEF Instants
        <5>6. QED
          BY <5>3, <5>4, <5>5, SeqMonotonic
      <4>2. ringsIn'[1] = Write(ringsIn[1], s)
        BY <1>7, <2>1, <3>1, RingsThere, Numbers DEF PushChannel, DataInv
      <4>3. Len(ringsIn[1]) \in Nat /\ Len(s) \in Nat
        BY <4>1, LenProperties
      <4> HIDE DEF s
      <4>4. Len(ringsIn'[1]) >= Len(ringsIn[1]) /\ Len(ringsIn'[1]) \in Nat
        BY <4>1, <4>2, <4>3, WriteFacts
      <4>5. QED
        BY <4>3, <4>4, Numbers
    <3>2. CASE audio.ch # 1
      BY <1>7, <2>1, <3>2 DEF PushChannel
    <3>3. QED
      BY <3>1, <3>2
  <2>6. FrontFound'
    BY <2>1, <2>2, <2>5 DEF DataInv, FrontFound
  <2>7. QED
    BY <2>3, <2>4, <2>6 DEF Places
<1>8. CASE PopSilence
  <2>1. audio'.pc = "idle" /\ owner.pc # "raise" /\ UNCHANGED <<pump, owner, ringsIn>>
    BY <1>8 DEF PopSilence, AudioDone, IdleAudio, IInv, LockHeld
  <2>2. QED
    BY <2>1 DEF Places, DataInv, Channels, TimeLeft, FrontFound
<1>9. CASE PopChannel
  <2>1. audio.pc = "pop" /\ audio.ch \in Outs /\ owner.pc # "raise"
    BY <1>9 DEF PopChannel, DataInv, Channels, IInv, LockHeld
  <2>2. UNCHANGED <<pump, owner, readyFlag, ringsIn>>
    BY <1>9 DEF PopChannel
  <2>3. CASE audio.ch = NumOuts
    <3>1. audio'.pc = "idle"
      BY <1>9, <2>3 DEF PopChannel, AudioDone, IdleAudio
    <3>2. QED
      BY <2>1, <2>2, <3>1 DEF Places, DataInv, Channels, TimeLeft, FrontFound
  <2>4. CASE audio.ch # NumOuts
    <3>1. /\ audio'.pc = "pop" /\ audio'.n = audio.n /\ audio'.ch = audio.ch + 1
          /\ UNCHANGED time
      BY <1>9, <2>1, <2>4 DEF PopChannel, IInv, ControlTypes
    <3>2. audio'.ch \in Outs /\ audio'.ch # 1
      BY <2>1, <2>4, <3>1, Numbers DEF Outs
    <3>3. QED
      BY <2>1, <2>2, <3>1, <3>2
      DEF Places, DataInv, Channels, TimeLeft, FrontFound, Live
  <2>5. QED
    BY <2>3, <2>4
<1>10. QED
  BY <1>1, <1>2, <1>3, <1>4, <1>5, <1>6, <1>7, <1>8, <1>9 DEF AudioStep

LEMMA PumpPlaces ==
    ASSUME IInv, DataInv, PumpStep
    PROVE  Places'
<1> USE DEF rings, flags
<1>0. UNCHANGED <<audio, owner, time>>
  BY DEF PumpStep, PumpEnd, PumpTake, PumpRead, Launch, LaunchFails, PumpFails, PumpWrite
<1>1. ASSUME UNCHANGED readyFlag \/ readyFlag' = FALSE PROVE TimeLeft'
  BY <1>0, <1>1 DEF DataInv, TimeLeft, Live
<1>2. CASE PumpEnd \/ Launch \/ LaunchFails \/ PumpFails
  <2>1. /\ UNCHANGED <<ringsIn, ringsOut>>
        /\ UNCHANGED readyFlag \/ readyFlag' = FALSE
        /\ pump'.ch = 1 /\ pump'.pc \in {"ended", "write", "fail"}
        /\ pump.pc = "check" => pump'.pc = "ended"
        /\ pump'.pc = "ended" \/ pump.pc \notin {"check", "ended"}
    BY <1>2 DEF PumpEnd, Launch, LaunchFails, PumpFails, PumpGo
  <2>2. Channels'
    BY <1>0, <2>1, Numbers DEF DataInv, Channels
  <2>3. FrontFound'
    <3>1. UNCHANGED <<ringsIn, ringsOut, audio, owner, time>>
      BY <1>0, <2>1
    <3>2. owner.pc = "raise" => pump'.pc = "ended"
      BY <2>1 DEF DataInv, FrontFound
    <3>3. QED
      BY <2>1, <3>1, <3>2 DEF DataInv, FrontFound
  <2>4. QED
    BY <1>1, <2>1, <2>2, <2>3 DEF Places
<1>3. CASE PumpTake
  <2>1. /\ UNCHANGED <<ringsIn, ringsOut, readyFlag>>
        /\ pump'.pc = "read" /\ pump'.ch = 1 /\ Len(ringsIn[1]) >= BlockSize
    BY <1>3 DEF PumpTake, PumpGo
  <2>2. owner.pc # "raise"
    BY <2>1, Numbers DEF DataInv, FrontFound
  <2>3. Channels' /\ FrontFound'
    BY <1>0, <2>1, <2>2, Numbers DEF DataInv, Channels, FrontFound
  <2>4. QED
    BY <1>1, <2>1, <2>3 DEF Places
<1>4. CASE PumpRead
  <2>1. /\ pump.pc = "read" /\ pump.ch \in Ins /\ UNCHANGED <<ringsOut, readyFlag>>
        /\ \/ pump'.pc = "launch"
           \/ pump'.pc = "read" /\ pump'.ch = pump.ch + 1 /\ pump.ch # NumIns
    BY <1>4 DEF PumpRead, PumpGo, DataInv, Channels, IInv, ControlTypes
  <2>2. Channels'
    BY <1>0, <2>1, Numbers DEF DataInv, Channels, Ins
  <2>3. FrontFound'
    BY <1>0, <2>1, Numbers DEF DataInv, FrontFound, Ins
  <2>4. QED
    BY <1>1, <2>1, <2>2, <2>3 DEF Places
<1>5. CASE PumpWrite
  <2>1. /\ pump.pc = "write" /\ pump.ch \in Outs /\ Up /\ UNCHANGED <<ringsIn, readyFlag>>
        /\ \/ pump'.pc = "check"
           \/ pump'.pc = "write" /\ pump'.ch = pump.ch + 1 /\ pump.ch # NumOuts
    BY <1>5
    DEF PumpWrite, PumpGo, DataInv, Channels, IInv, ControlTypes, UsersFindRings
  <2>2. Channels'
    BY <1>0, <2>1, Numbers DEF DataInv, Channels, Outs
  <2>3. audio.pc = "pop" /\ audio.ch = 1 => Len(ringsOut'[1]) >= audio.n
    <3>1. CASE pump.ch = 1
      <4>1. /\ pumpOut \in Seq(Moments) /\ ringsOut[1] \in Seq(Moments)
            /\ Len(ringsOut[1]) <= RingCapacity
        BY <2>1, RingsThere, Numbers, FunctionIsSeq DEF DataInv, Values, Capacity, Up
      <4>2. ringsOut'[1] = Write(ringsOut[1], pumpOut)
        BY <1>5, <2>1, <3>1, RingsThere, Numbers DEF PumpWrite, DataInv
      <4>3. Len(ringsOut[1]) \in Nat /\ Len(pumpOut) \in Nat
        BY <4>1, LenProperties
      <4>4. Len(ringsOut'[1]) >= Len(ringsOut[1]) /\ Len(ringsOut'[1]) \in Nat
        BY <4>1, <4>2, <4>3, WriteFacts
      <4>5. QED
        BY <4>3, <4>4, TimeFacts DEF DataInv, FrontFound
    <3>2. CASE pump.ch # 1
      BY <1>5, <3>2 DEF PumpWrite, DataInv, FrontFound
    <3>3. QED
      BY <3>1, <3>2
  <2>4. FrontFound'
    BY <1>0, <2>1, <2>3 DEF DataInv, FrontFound
  <2>5. QED
    BY <1>1, <2>1, <2>2, <2>4 DEF Places
<1>6. QED
  BY <1>2, <1>3, <1>4, <1>5 DEF PumpStep

\* A step of the control thread, or a flag it or another thread stores.
LEMMA OwnerPlaces ==
    ASSUME IInv, DataInv,
           \/ OwnerStep
           \/ \E op \in {"prepare", "release"}, on \in BOOLEAN : Call(op, on)
           \/ \E on \in BOOLEAN : setProcessingEnabled(on)
    PROVE  Places'
<1> USE DEF rings, flags
<1>0. UNCHANGED audio
  BY DEF OwnerStep, Release, Join, Kill, ClearRings, BackendFails, Rebuild, RaiseReady, Unlock,
         Call, setProcessingEnabled
<1>1. CASE Rebuild
  <2>1. /\ audio.pc \in {"idle", "lock"} /\ pump'.pc = "check" /\ time' = 0
        /\ ringsIn'[1] = <<>>
    BY <1>1, Numbers DEF Rebuild, OwnerGo, IInv, LockHeld
  <2>2. Channels' /\ FrontFound'
    BY <1>0, <2>1 DEF Channels, FrontFound
  <2>3. TimeLeft'
    <3>1. \A n \in Calls : 0 + n <= MaxTime
      BY Numbers
    <3>2. QED
      BY <1>0, <2>1, <3>1 DEF DataInv, TimeLeft
  <2>4. QED
    BY <2>2, <2>3 DEF Places
<1>2. CASE ClearRings
  <2>1. /\ audio.pc \in {"idle", "lock"} /\ pump.pc = "ended" /\ ~readyFlag
        /\ owner'.pc # "raise" /\ UNCHANGED <<pump, time, readyFlag>>
    BY <1>2 DEF ClearRings, OwnerGo, IInv, LockHeld, OwnerKnows, ControlTypes
  <2>2. Channels' /\ FrontFound'
    BY <1>0, <2>1 DEF Channels, FrontFound
  <2>3. TimeLeft'
    BY <1>0, <2>1 DEF DataInv, TimeLeft, Live
  <2>4. QED
    BY <2>2, <2>3 DEF Places
<1>3. CASE Kill
  <2>1. /\ pump'.pc = "ended" /\ ~readyFlag /\ owner'.pc # "raise"
        /\ UNCHANGED <<ringsIn, ringsOut, time, readyFlag>>
    BY <1>3 DEF Kill, OwnerGo, IInv, OwnerKnows, ControlTypes
  <2>2. Channels' /\ FrontFound'
    BY <1>0, <2>1 DEF DataInv, Channels, FrontFound
  <2>3. TimeLeft'
    BY <1>0, <2>1 DEF DataInv, TimeLeft, Live
  <2>4. QED
    BY <2>2, <2>3 DEF Places
<1>4. ASSUME \/ Release \/ Join \/ BackendFails \/ RaiseReady \/ Unlock
             \/ \E op \in {"prepare", "release"}, on \in BOOLEAN : Call(op, on)
             \/ \E on \in BOOLEAN : setProcessingEnabled(on)
      PROVE  Places'
  <2>1. /\ UNCHANGED <<ringsIn, ringsOut, pump, time>>
        /\ owner'.pc = "raise" => owner.pc = "raise"
        /\ Live' => Live
    BY <1>4 DEF Release, Join, BackendFails, RaiseReady, Unlock, Call, setProcessingEnabled,
                OwnerGo, Live, IInv, ControlTypes
  <2>2. Channels' /\ FrontFound'
    BY <1>0, <2>1 DEF DataInv, Channels, FrontFound
  <2>3. TimeLeft'
    BY <1>0, <2>1 DEF DataInv, TimeLeft
  <2>4. QED
    BY <2>2, <2>3 DEF Places
<1>5. QED
  BY <1>1, <1>2, <1>3, <1>4 DEF OwnerStep

LEMMA DataStep == IInv /\ DataInv /\ [Next]_vars => DataInv'
<1> SUFFICES ASSUME IInv, DataInv, [Next]_vars PROVE DataInv'
  OBVIOUS
<1> DEFINE Kept == Values' /\ Capacity' /\ Places'
<1>0. Values /\ Capacity
  BY DEF DataInv
<1>1. ASSUME AudioStep PROVE Kept
  <2>1. Places'
    BY <1>1, AudioPlaces
  <2>2. ASSUME \/ \E n \in Calls : ProcessBlock(n)
               \/ TryLock \/ TestPipeline \/ Bypass \/ PushTest \/ PopTest
        PROVE  Values' /\ Capacity'
    <3>1. /\ UNCHANGED <<rings, blocks, time, underrun, losses>>
          /\ UNCHANGED <<enabled, readyFlag, pumpFailed, shouldExit>>
          /\ ready' \in {ready, ready /\ ~pumpFailed}
      BY <2>2 DEF ProcessBlock, TryLock, TestPipeline, Bypass, PushTest, PopTest, flags
    <3>2. {ready, enabled, readyFlag, pumpFailed, shouldExit}' \subseteq BOOLEAN
      BY <1>0, <3>1 DEF Values
    <3>3. QED
      BY <1>0, <3>1, <3>2, QuietData
  <2>3. QED
    BY <1>1, <2>1, <2>2, PushValues, SilenceValues, PopValues DEF AudioStep
<1>2. ASSUME PumpStep PROVE Kept
  <2>1. Places'
    BY <1>2, PumpPlaces
  <2>2. ASSUME PumpEnd \/ PumpTake \/ LaunchFails \/ PumpFails PROVE Values' /\ Capacity'
    <3>1. UNCHANGED <<rings, blocks, time, underrun, losses>>
      BY <2>2 DEF PumpEnd, PumpTake, LaunchFails, PumpFails
    <3>2. {ready, enabled, readyFlag, pumpFailed, shouldExit}' \subseteq BOOLEAN
      BY <1>0, <2>2 DEF PumpEnd, PumpTake, LaunchFails, PumpFails, flags, Values
    <3>3. QED
      BY <1>0, <3>1, <3>2, QuietData
  <2>3. QED
    BY <1>2, <2>1, <2>2, PumpReadValues, LaunchValues, PumpWriteValues DEF PumpStep
<1>3. ASSUME \/ OwnerStep
             \/ \E op \in {"prepare", "release"}, on \in BOOLEAN : Call(op, on)
             \/ \E on \in BOOLEAN : setProcessingEnabled(on)
      PROVE  Kept
  <2>1. Places'
    BY <1>3, OwnerPlaces
  <2>2. ASSUME ClearRings PROVE Values' /\ Capacity'
    <3>1. /\ ringsIn' = <<>> /\ ringsOut' = <<>>
          /\ UNCHANGED <<ready, enabled, readyFlag, pumpFailed, shouldExit, pumpIn, pumpOut,
                         time, underrun, lost, dropped>>
      BY <2>2 DEF ClearRings, flags, blocks, losses
    <3>2. Values'
      BY <1>0, <3>1 DEF Values, Moments
    <3>3. Capacity'
      BY <3>1 DEF Capacity
    <3>4. QED
      BY <3>2, <3>3
  <2>3. ASSUME Rebuild PROVE Values' /\ Capacity'
    BY <2>3, RebuildValues
  <2>4. ASSUME \/ Release \/ Join \/ Kill \/ BackendFails \/ RaiseReady \/ Unlock
               \/ \E op \in {"prepare", "release"}, on \in BOOLEAN : Call(op, on)
               \/ \E on \in BOOLEAN : setProcessingEnabled(on)
        PROVE  Values' /\ Capacity'
    <3>1. UNCHANGED <<rings, blocks, time, underrun, losses>>
      BY <2>4 DEF Release, Join, Kill, BackendFails, RaiseReady, Unlock, Call,
                  setProcessingEnabled
    <3>2. {ready, enabled, readyFlag, pumpFailed, shouldExit}' \subseteq BOOLEAN
      BY <1>0, <2>4 DEF Release, Join, Kill, BackendFails, RaiseReady, Unlock, Call,
                        setProcessingEnabled, flags, Values
    <3>3. QED
      BY <1>0, <3>1, <3>2, QuietData
  <2>5. QED
    BY <1>3, <2>1, <2>2, <2>3, <2>4 DEF OwnerStep
<1>4. ASSUME UNCHANGED vars PROVE Kept
  <2>1. Values' /\ Capacity'
    BY <1>0, <1>4 DEF vars, Values, Capacity, Up, Moments
  <2>2. Places'
    BY <1>4 DEF vars, DataInv, Places, Channels, TimeLeft, FrontFound, Live
  <2>3. QED
    BY <2>1, <2>2
<1>5. Kept
  BY <1>1, <1>2, <1>3, <1>4 DEF Next
<1>6. QED
  BY <1>5 DEF DataInv, Places

LEMMA InitData == Init => DataInv
<1> SUFFICES ASSUME Init PROVE DataInv
  OBVIOUS
<1> USE Numbers DEF Init
<1>1. 0 \in Instants /\ Silent \in Moments
  BY DEF Instants, Moments, Silent
<1>2. /\ pumpIn \in [Ins -> [1..BlockSize -> Instants]]
      /\ pumpOut \in [1..BlockSize -> Moments]
  BY <1>1 DEF ZeroBlock
<1>3. /\ ringsIn = <<>> /\ ringsOut = <<>> /\ time = 0 /\ underrun = 0 /\ lost = 0
      /\ {ready, enabled, readyFlag, pumpFailed, shouldExit, dropped} = {FALSE}
  OBVIOUS
<1>4. Values /\ Capacity
  <2> HIDE DEF Init
  <2>1. underrun \in 0..time /\ time \in Instants /\ lost \in Nat
    BY <1>1, <1>3
  <2>2. Values
    BY <1>2, <1>3, <2>1 DEF Values
  <2>3. Capacity
    BY <1>3 DEF Capacity
  <2>4. QED
    BY <2>2, <2>3
<1>5. Places
  BY DEF Places, Channels, TimeLeft, FrontFound, IdleAudio
<1>6. QED
  BY <1>4, <1>5 DEF DataInv, Places

LockType == procLock \in {"free", "audio", "owner"}

LEMMA LockStep == LockType /\ [Next]_vars => LockType'
<1> SUFFICES ASSUME LockType, [Next]_vars PROVE LockType'
  OBVIOUS
<1> USE DEF AudioDone, LockType
<1>1. CASE AudioStep
  BY <1>1 DEF AudioStep, ProcessBlock, TryLock, TestPipeline, Bypass, PushTest, PushChannel,
              PopTest, PopSilence, PopChannel
<1>2. CASE PumpStep
  BY <1>2 DEF PumpStep, PumpEnd, PumpTake, PumpRead, Launch, LaunchFails, PumpFails, PumpWrite
<1>3. CASE OwnerStep
  BY <1>3 DEF OwnerStep, Release, Join, Kill, ClearRings, BackendFails, Rebuild, RaiseReady,
              Unlock
<1>4. QED
  BY <1>1, <1>2, <1>3 DEF Next, Call, setProcessingEnabled, vars

LEMMA LockValues == Spec => []LockType
<1>1. Init => LockType
  BY DEF Init, LockType
<1>2. QED
  BY <1>1, LockStep, PTL DEF Spec

LEMMA DataInvariance == Spec => []DataInv
BY InitData, DataStep, Invariance, PTL DEF Spec

\* Every variable has its type, and no ring holds more than its capacity, whatever
\* the sizes of the host's calls (GpuAsyncPipeline.h:60-98).
THEOREM TypeCorrect == Spec => []TypeOK
<1>1. IInv /\ DataInv /\ LockType => TypeOK
  <2> SUFFICES ASSUME IInv, DataInv, LockType PROVE TypeOK
    OBVIOUS
  <2>1. Len(ringsIn) \in {0, NumIns} /\ Len(ringsOut) \in {0, NumOuts}
    <3>1. ASSUME NEW S, NEW r \in [Ins -> S] PROVE Len(r) = NumIns
      BY <3>1, FunctionIsSeq, Numbers DEF Ins
    <3>2. ASSUME NEW S, NEW r \in [Outs -> S] PROVE Len(r) = NumOuts
      BY <3>2, FunctionIsSeq, Numbers DEF Outs
    <3>3. Len(<<>>) = 0
      OBVIOUS
    <3>4. QED
      BY <3>1, <3>2, <3>3 DEF DataInv, Values
  <2>2. underrun \in Instants
    BY TimeFacts, Numbers DEF Instants
  <2>3. audio.pc \in AudioPcs /\ pump.pc \in PumpPcs /\ owner.pc \in OwnerPcs
    BY DEF IInv, ControlTypes
  <2>4. QED
    BY <2>1, <2>2, <2>3
    DEF TypeOK, LockType, DataInv, Values, Capacity, Moments, AudioPcs, PumpPcs, OwnerPcs
<1>2. QED
  BY <1>1, Invariance, DataInvariance, LockValues, PTL
-------------------------------------------------------------------------------
(* The stream of the front channel *)

LEMMA FrontFacts ==
    ASSUME NEW s \in Seq(Moments)
    PROVE  /\ FrontOf(s) \in Seq(Instants) /\ Len(FrontOf(s)) = Len(s)
           /\ \A i \in 1..Len(s) : FrontOf(s)[i] = s[i][1]
<1>1. Len(s) \in Nat /\ \A i \in 1..Len(s) : s[i] \in Moments
  BY LenProperties, ElementOfSeq
<1>2. \A i \in 1..Len(s) : s[i][1] \in Instants
  BY <1>1, Numbers DEF Moments
<1>3. FrontOf(s) \in [1..Len(s) -> Instants]
  BY <1>2 DEF FrontOf
<1>4. FrontOf(s) \in Seq(Instants) /\ Len(FrontOf(s)) = Len(s)
  BY <1>1, <1>3, FunctionIsSeq
<1>5. QED
  BY <1>4 DEF FrontOf

LEMMA FrontConcat ==
    ASSUME NEW s \in Seq(Moments), NEW t \in Seq(Moments)
    PROVE  FrontOf(s \o t) = FrontOf(s) \o FrontOf(t)
<1>1. /\ s \o t \in Seq(Moments) /\ Len(s \o t) = Len(s) + Len(t)
      /\ \A i \in 1..Len(s) + Len(t) :
            (s \o t)[i] = IF i <= Len(s) THEN s[i] ELSE t[i - Len(s)]
      /\ Len(s) \in Nat /\ Len(t) \in Nat
  BY ConcatProperties, LenProperties
<1>2. /\ FrontOf(s \o t) \in Seq(Instants) /\ Len(FrontOf(s \o t)) = Len(s) + Len(t)
      /\ \A i \in 1..Len(s) + Len(t) : FrontOf(s \o t)[i] = (s \o t)[i][1]
  BY <1>1, FrontFacts
<1>3. /\ FrontOf(s) \in Seq(Instants) /\ Len(FrontOf(s)) = Len(s)
      /\ FrontOf(t) \in Seq(Instants) /\ Len(FrontOf(t)) = Len(t)
      /\ \A i \in 1..Len(s) : FrontOf(s)[i] = s[i][1]
      /\ \A i \in 1..Len(t) : FrontOf(t)[i] = t[i][1]
  BY FrontFacts
<1>4. /\ FrontOf(s) \o FrontOf(t) \in Seq(Instants)
      /\ Len(FrontOf(s) \o FrontOf(t)) = Len(s) + Len(t)
      /\ \A i \in 1..Len(s) + Len(t) : (FrontOf(s) \o FrontOf(t))[i] =
            IF i <= Len(s) THEN FrontOf(s)[i] ELSE FrontOf(t)[i - Len(s)]
  <2> DEFINE a == FrontOf(s)
             b == FrontOf(t)
  <2>1. a \in Seq(Instants) /\ b \in Seq(Instants) /\ Len(a) = Len(s) /\ Len(b) = Len(t)
    BY <1>3
  <2> HIDE DEF a, b
  <2>2. /\ a \o b \in Seq(Instants) /\ Len(a \o b) = Len(a) + Len(b)
        /\ \A i \in 1..Len(a) + Len(b) :
              (a \o b)[i] = IF i <= Len(a) THEN a[i] ELSE b[i - Len(a)]
    BY <2>1, ConcatProperties
  <2>3. QED
    BY <2>1, <2>2 DEF a, b
<1>5. ASSUME NEW i \in 1..Len(s) + Len(t)
      PROVE  FrontOf(s \o t)[i] = (FrontOf(s) \o FrontOf(t))[i]
  <2>1. CASE i <= Len(s)
    BY <1>1, <1>2, <1>3, <1>4, <2>1
  <2>2. CASE ~(i <= Len(s))
    <3>1. i - Len(s) \in 1..Len(t)
      BY <1>1, <2>2
    <3>2. QED
      BY <1>1, <1>2, <1>3, <1>4, <2>2, <3>1
  <2>3. QED
    BY <2>1, <2>2
<1>6. QED
  BY <1>2, <1>4, <1>5, SeqEqual

\* What is left of a sequence without its first k elements.
Rest(s, k) == SubSeq(s, k + 1, Len(s))

LEMMA RestFacts ==
    ASSUME NEW S, NEW s \in Seq(S), NEW k \in 0..Len(s)
    PROVE  /\ Rest(s, k) \in Seq(S) /\ Len(Rest(s, k)) = Len(s) - k
           /\ \A i \in 1..Len(s) - k : Rest(s, k)[i] = s[k + i]
<1>1. Len(s) \in Nat /\ k \in Nat
  BY LenProperties
<1>2. \A i \in k + 1..Len(s) : s[i] \in S
  BY <1>1, ElementOfSeq
<1>3. /\ SubSeq(s, k + 1, Len(s)) \in Seq(S)
      /\ Len(SubSeq(s, k + 1, Len(s))) =
            IF k + 1 <= Len(s) THEN Len(s) - (k + 1) + 1 ELSE 0
      /\ \A i \in 1..Len(s) - (k + 1) + 1 : SubSeq(s, k + 1, Len(s))[i] = s[k + 1 + i - 1]
  BY <1>1, <1>2, SubSeqProperties
<1>4. \A i \in 1..Len(s) - k : k + 1 + i - 1 = k + i /\ i \in 1..Len(s) - (k + 1) + 1
  BY <1>1
<1>5. QED
  BY <1>1, <1>3, <1>4 DEF Rest

LEMMA FrontRest ==
    ASSUME NEW s \in Seq(Moments), NEW k \in 0..Len(s)
    PROVE  FrontOf(Rest(s, k)) = Rest(FrontOf(s), k)
<1>1. Len(s) \in Nat /\ k \in Nat
  BY LenProperties
<1>2. /\ Rest(s, k) \in Seq(Moments) /\ Len(Rest(s, k)) = Len(s) - k
      /\ \A i \in 1..Len(s) - k : Rest(s, k)[i] = s[k + i]
  BY RestFacts
<1>3. /\ FrontOf(s) \in Seq(Instants) /\ Len(FrontOf(s)) = Len(s)
      /\ \A i \in 1..Len(s) : FrontOf(s)[i] = s[i][1]
  BY FrontFacts
<1>4. /\ Rest(FrontOf(s), k) \in Seq(Instants) /\ Len(Rest(FrontOf(s), k)) = Len(s) - k
      /\ \A i \in 1..Len(s) - k : Rest(FrontOf(s), k)[i] = FrontOf(s)[k + i]
  <2> DEFINE a == FrontOf(s)
  <2>1. a \in Seq(Instants) /\ Len(a) = Len(s) /\ k \in 0..Len(a)
    BY <1>3
  <2> HIDE DEF a
  <2>2. /\ Rest(a, k) \in Seq(Instants) /\ Len(Rest(a, k)) = Len(a) - k
        /\ \A i \in 1..Len(a) - k : Rest(a, k)[i] = a[k + i]
    BY <2>1, RestFacts
  <2>3. QED
    BY <2>1, <2>2 DEF a
<1>5. /\ FrontOf(Rest(s, k)) \in Seq(Instants) /\ Len(FrontOf(Rest(s, k))) = Len(s) - k
      /\ \A i \in 1..Len(s) - k : FrontOf(Rest(s, k))[i] = Rest(s, k)[i][1]
  BY <1>2, FrontFacts
<1>6. \A i \in 1..Len(s) - k : k + i \in 1..Len(s)
  BY <1>1
<1>7. \A i \in 1..Len(s) - k : FrontOf(Rest(s, k))[i] = Rest(FrontOf(s), k)[i]
  BY <1>2, <1>3, <1>4, <1>5, <1>6
<1>8. QED
  BY <1>4, <1>5, <1>7, SeqEqual

LEMMA RestOfConcat ==
    ASSUME NEW S, NEW s \in Seq(S), NEW t \in Seq(S), NEW k \in 0..Len(s)
    PROVE  Rest(s, k) \o t = Rest(s \o t, k)
<1>1. Len(s) \in Nat /\ Len(t) \in Nat /\ k \in Nat
  BY LenProperties
<1>2. /\ Rest(s, k) \in Seq(S) /\ Len(Rest(s, k)) = Len(s) - k
      /\ \A i \in 1..Len(s) - k : Rest(s, k)[i] = s[k + i]
  BY RestFacts
<1>3. /\ s \o t \in Seq(S) /\ Len(s \o t) = Len(s) + Len(t)
      /\ \A i \in 1..Len(s) + Len(t) :
            (s \o t)[i] = IF i <= Len(s) THEN s[i] ELSE t[i - Len(s)]
  BY ConcatProperties
<1>4. k \in 0..Len(s \o t)
  BY <1>1, <1>3
<1>5. /\ Rest(s \o t, k) \in Seq(S) /\ Len(Rest(s \o t, k)) = Len(s) + Len(t) - k
      /\ \A i \in 1..Len(s) + Len(t) - k : Rest(s \o t, k)[i] = (s \o t)[k + i]
  <2> DEFINE a == s \o t
  <2>1. a \in Seq(S) /\ Len(a) = Len(s) + Len(t) /\ k \in 0..Len(a)
    BY <1>3, <1>4
  <2> HIDE DEF a
  <2>2. /\ Rest(a, k) \in Seq(S) /\ Len(Rest(a, k)) = Len(a) - k
        /\ \A i \in 1..Len(a) - k : Rest(a, k)[i] = a[k + i]
    BY <2>1, RestFacts
  <2>3. QED
    BY <2>1, <2>2 DEF a
<1>6. /\ Rest(s, k) \o t \in Seq(S) /\ Len(Rest(s, k) \o t) = Len(s) - k + Len(t)
      /\ \A i \in 1..Len(s) - k + Len(t) : (Rest(s, k) \o t)[i] =
            IF i <= Len(s) - k THEN Rest(s, k)[i] ELSE t[i - (Len(s) - k)]
  <2> DEFINE a == Rest(s, k)
  <2>1. a \in Seq(S) /\ Len(a) = Len(s) - k
    BY <1>2
  <2> HIDE DEF a
  <2>2. /\ a \o t \in Seq(S) /\ Len(a \o t) = Len(a) + Len(t)
        /\ \A i \in 1..Len(a) + Len(t) :
              (a \o t)[i] = IF i <= Len(a) THEN a[i] ELSE t[i - Len(a)]
    BY <2>1, ConcatProperties
  <2>3. QED
    BY <2>1, <2>2 DEF a
<1>7. ASSUME NEW i \in 1..Len(s) + Len(t) - k
      PROVE  (Rest(s, k) \o t)[i] = Rest(s \o t, k)[i]
  <2>1. k + i \in 1..Len(s) + Len(t) /\ i \in 1..Len(s) - k + Len(t)
    BY <1>1
  <2>2. CASE i <= Len(s) - k
    <3>1. i \in 1..Len(s) - k /\ k + i <= Len(s)
      BY <1>1, <2>2
    <3>2. (Rest(s, k) \o t)[i] = Rest(s, k)[i]
      BY <1>6, <2>1, <2>2
    <3>3. Rest(s, k)[i] = s[k + i]
      BY <1>2, <3>1
    <3>4. (s \o t)[k + i] = s[k + i]
      BY <1>3, <2>1, <3>1
    <3>5. Rest(s \o t, k)[i] = (s \o t)[k + i]
      BY <1>5
    <3>6. QED
      BY <3>2, <3>3, <3>4, <3>5
  <2>3. CASE ~(i <= Len(s) - k)
    <3>1. ~(k + i <= Len(s)) /\ i - (Len(s) - k) = k + i - Len(s)
      BY <1>1, <2>3
    <3>2. (Rest(s, k) \o t)[i] = t[k + i - Len(s)]
      BY <1>6, <2>1, <2>3, <3>1
    <3>3. (s \o t)[k + i] = t[k + i - Len(s)]
      BY <1>3, <2>1, <3>1
    <3>4. Rest(s \o t, k)[i] = (s \o t)[k + i]
      BY <1>5
    <3>5. QED
      BY <3>2, <3>3, <3>4
  <2>4. QED
    BY <2>2, <2>3
<1>8. Len(Rest(s, k) \o t) = Len(Rest(s \o t, k))
  BY <1>1, <1>5, <1>6
<1>9. QED
  BY <1>1, <1>5, <1>6, <1>7, <1>8, SeqEqual

\* The instants that follow keep a dated sequence dated; taking from its front does.
LEMMA DatedMore ==
    ASSUME NEW S, NEW s \in Seq(S), NEW t \in Seq(S), NEW last \in Nat, Dated(s, last),
           \A i \in 1..Len(t) : t[i] = last + i
    PROVE  Dated(s \o t, last + Len(t))
<1>1. Len(s) \in Nat /\ Len(t) \in Nat
  BY LenProperties
<1>2. /\ Len(s \o t) = Len(s) + Len(t)
      /\ \A i \in 1..Len(s) + Len(t) :
            (s \o t)[i] = IF i <= Len(s) THEN s[i] ELSE t[i - Len(s)]
  BY ConcatProperties
<1>3. ASSUME NEW i \in 1..Len(s) + Len(t)
      PROVE  (s \o t)[i] = LET u == last + Len(t) - (Len(s) + Len(t)) + i
                           IN  IF u > 0 THEN u ELSE 0
  <2>1. last + Len(t) - (Len(s) + Len(t)) + i = last - Len(s) + i
    BY <1>1
  <2>2. CASE i <= Len(s)
    <3>1. i \in 1..Len(s)
      BY <1>1, <2>2
    <3>2. QED
      BY <1>2, <2>1, <2>2, <3>1 DEF Dated
  <2>3. CASE ~(i <= Len(s))
    <3>1. i - Len(s) \in 1..Len(t) /\ last + (i - Len(s)) = last - Len(s) + i
      BY <1>1, <2>3
    <3>2. last - Len(s) + i > 0
      BY <1>1, <2>3
    <3>3. QED
      BY <1>2, <2>1, <2>3, <3>1, <3>2
  <2>4. QED
    BY <2>2, <2>3
<1>4. QED
  BY <1>2, <1>3 DEF Dated

LEMMA DatedRest ==
    ASSUME NEW S, NEW s \in Seq(S), NEW k \in 0..Len(s), NEW last \in Nat, Dated(s, last)
    PROVE  Dated(Rest(s, k), last)
<1>1. Len(s) \in Nat /\ k \in Nat
  BY LenProperties
<1>2. Len(Rest(s, k)) = Len(s) - k /\ \A i \in 1..Len(s) - k : Rest(s, k)[i] = s[k + i]
  BY RestFacts
<1>3. ASSUME NEW i \in 1..Len(s) - k
      PROVE  Rest(s, k)[i] = LET u == last - (Len(s) - k) + i IN IF u > 0 THEN u ELSE 0
  <2>1. k + i \in 1..Len(s) /\ last - Len(s) + (k + i) = last - (Len(s) - k) + i
    BY <1>1
  <2>2. s[k + i] = LET u == last - Len(s) + (k + i) IN IF u > 0 THEN u ELSE 0
    BY <2>1 DEF Dated
  <2>3. QED
    BY <1>2, <2>1, <2>2
<1>4. QED
  BY <1>2, <1>3 DEF Dated
-------------------------------------------------------------------------------
(* Steps of the ledger *)

F == FrontOf(ringsOut[1])
C == Carried
R == ringsIn[1]

LEMMA StreamTypes ==
    ASSUME IInv, DataInv, Live
    PROVE  /\ Up /\ ringsOut[1] \in Seq(Moments) /\ Len(ringsOut[1]) <= RingCapacity
           /\ Len(R) <= RingCapacity
           /\ F \in Seq(Instants) /\ C \in Seq(Instants) /\ R \in Seq(Instants)
           /\ pumpOut \in Seq(Moments) /\ Len(pumpOut) = BlockSize
           /\ pumpIn[1] \in Seq(Instants) /\ Len(pumpIn[1]) = BlockSize
           /\ FrontStream = (F \o C) \o R
<1>1. Up
  BY DEF Live, IInv, OwnerKnows, UsersFindRings
<1>2. /\ ringsOut[1] \in Seq(Moments) /\ Len(ringsOut[1]) <= RingCapacity
      /\ R \in Seq(Instants) /\ Len(R) <= RingCapacity
  BY <1>1, RingsThere, Numbers DEF DataInv, Capacity, Up, R
<1>3. F \in Seq(Instants)
  BY <1>2, FrontFacts DEF F
<1>4. /\ pumpOut \in Seq(Moments) /\ Len(pumpOut) = BlockSize
      /\ pumpIn[1] \in Seq(Instants) /\ Len(pumpIn[1]) = BlockSize
  BY Numbers, FunctionIsSeq DEF DataInv, Values
<1>5. C \in Seq(Instants)
  <2>1. FrontOf(pumpOut) \in Seq(Instants) /\ <<>> \in Seq(Instants)
    BY <1>4, FrontFacts
  <2>2. C \in {pumpIn[1], FrontOf(pumpOut), <<>>}
    BY DEF C, Carried
  <2>3. QED
    BY <1>4, <2>1, <2>2
<1>6. QED
  BY <1>1, <1>2, <1>3, <1>4, <1>5 DEF FrontStream, F, C, R

LEMMA StreamTotal ==
    ASSUME IInv, DataInv, Live
    PROVE  /\ FrontStream \in Seq(Instants) /\ Len(FrontStream) \in Nat
           /\ Len(FrontStream) = Len(F) + Len(C) + Len(R)
           /\ Len(F) \in Nat /\ Len(C) \in Nat /\ Len(R) \in Nat
<1>1. F \in Seq(Instants) /\ C \in Seq(Instants) /\ R \in Seq(Instants)
      /\ FrontStream = (F \o C) \o R
  BY StreamTypes
<1>2. Len(F) \in Nat /\ Len(C) \in Nat /\ Len(R) \in Nat
  BY <1>1, LenProperties
<1>3. F \o C \in Seq(Instants) /\ Len(F \o C) = Len(F) + Len(C)
  BY <1>1, ConcatProperties
<1>4. FrontStream \in Seq(Instants) /\ Len(FrontStream) = Len(F) + Len(C) + Len(R)
  BY <1>1, <1>3, ConcatProperties
<1>5. QED
  BY <1>2, <1>4

\* The balance: what the stream's length must be, and the instant it ends at.
Balance == Cushion + underrun + Owed - lost
Last == time + Queued

LEMMA Accounts ==
    ASSUME DataInv
    PROVE  Queued \in Nat /\ Owed \in Nat /\ Balance \in Int /\ Last \in Nat
<1>1. audio.pc # "idle" => audio.n \in Nat
  BY TimeFacts
<1>2. Queued \in Nat /\ Owed \in Nat
  BY <1>1 DEF Queued, Owed
<1>3. QED
  BY <1>2, TimeFacts, RingSizes DEF Balance, Last

Ledger == Len(FrontStream) = Balance /\ (lost = 0 => Dated(FrontStream, Last))

\* The ledger of a pipeline that carries samples: the third inductive invariant.
LedgerInv == Live => Ledger

\* Nothing queued, nothing taken.
LEMMA StreamKept ==
    ASSUME Ledger, FrontStream' = FrontStream, Balance' = Balance, Last' = Last,
           UNCHANGED lost
    PROVE  Ledger'
BY DEF Ledger, Dated

\* A block joins the stream at the end, less what does not fit.
LEMMA StreamGrows ==
    ASSUME IInv, DataInv, Live, Ledger, NEW s \in Seq(Instants),
           \A i \in 1..Len(s) : s[i] = Last + i,
           R' = Write(R, s), F' = F, C' = C, FrontStream' = (F' \o C') \o R',
           Last' = Last + Len(s), lost' = lost + Excess(R, s),
           Balance' = Balance + Len(s) - Excess(R, s)
    PROVE  Ledger'
<1>1. /\ F \in Seq(Instants) /\ C \in Seq(Instants) /\ R \in Seq(Instants)
      /\ Len(R) <= RingCapacity /\ FrontStream = (F \o C) \o R
  BY StreamTypes
<1>2. F \o C \in Seq(Instants)
  BY <1>1, ConcatProperties
<1>3. /\ Write(R, s) \in Seq(Instants) /\ Excess(R, s) \in 0..Len(s)
      /\ Len(Write(R, s)) = Len(R) + Len(s) - Excess(R, s)
      /\ Excess(R, s) = 0 => Write(R, s) = R \o s
  BY <1>1, WriteFacts
<1>4. Len(s) \in Nat /\ Len(R) \in Nat /\ Len(F \o C) \in Nat /\ lost \in Nat
  BY <1>1, <1>2, LenProperties, TimeFacts
<1>5. FrontStream' = (F \o C) \o Write(R, s)
  OBVIOUS
<1>6. Len(FrontStream') = Balance'
  <2>1. Len(FrontStream') = Len(F \o C) + (Len(R) + Len(s) - Excess(R, s))
    BY <1>2, <1>3, <1>5, ConcatProperties
  <2>2. Len(FrontStream) = Len(F \o C) + Len(R)
    BY <1>1, <1>2, ConcatProperties
  <2>3. Len(FrontStream) = Balance
    BY DEF Ledger
  <2>4. Balance' = Balance + Len(s) - Excess(R, s)
    OBVIOUS
  <2>5. \A e \in Int, l \in Nat, r \in Nat, b \in Int, m \in Nat :
          b = l + r => l + (r + m - e) = b + m - e
    OBVIOUS
  <2>6. Excess(R, s) \in Int /\ Balance \in Int
    BY <1>3, <1>4, Accounts
  <2>7. Balance = Len(F \o C) + Len(R)
    BY <2>2, <2>3
  <2>8. Len(F \o C) + (Len(R) + Len(s) - Excess(R, s)) = Balance + Len(s) - Excess(R, s)
    BY <1>4, <2>5, <2>6, <2>7
  <2>9. QED
    BY <2>1, <2>4, <2>8
<1>7. ASSUME lost' = 0 PROVE Dated(FrontStream', Last')
  <2>1. lost = 0 /\ Excess(R, s) = 0
    BY <1>3, <1>4, <1>7
  <2>2. FrontStream' = FrontStream \o s
    <3>1. Write(R, s) = R \o s
      BY <1>3, <2>1
    <3>2. FrontStream' = (F \o C) \o (R \o s)
      BY <1>5, <3>1
    <3>3. ((F \o C) \o R) \o s = (F \o C) \o (R \o s)
      <4> DEFINE a == F \o C
      <4>1. a \in Seq(Instants) /\ R \in Seq(Instants)
        BY <1>1, <1>2
      <4> HIDE DEF a
      <4>2. (a \o R) \o s = a \o (R \o s)
        BY <4>1, ConcatAssociative
      <4>3. QED
        BY <4>2 DEF a
    <3>4. QED
      BY <1>1, <3>2, <3>3
  <2>3. FrontStream \in Seq(Instants) /\ Last \in Nat
    BY StreamTotal, Accounts
  <2>4. Dated(FrontStream, Last)
    BY <2>1 DEF Ledger
  <2>5. Dated(FrontStream \o s, Last + Len(s))
    BY <2>3, <2>4, DatedMore
  <2>6. QED
    BY <2>2, <2>5
<1>8. QED
  BY <1>6, <1>7 DEF Ledger, Dated

\* A block leaves the stream at the front.
LEMMA StreamShrinks ==
    ASSUME IInv, DataInv, Live, Ledger, NEW n \in Nat, n <= Len(ringsOut[1]),
           ringsOut'[1] = Left(ringsOut[1], n), C' = C, R' = R,
           FrontStream' = (F' \o C') \o R', F' = FrontOf(ringsOut'[1]),
           Last' = Last, lost' = lost, Balance' = Balance - n
    PROVE  Ledger'
<1>1. /\ F \in Seq(Instants) /\ C \in Seq(Instants) /\ R \in Seq(Instants)
      /\ ringsOut[1] \in Seq(Moments) /\ FrontStream = (F \o C) \o R
  BY StreamTypes
<1>2. n \in 0..Len(ringsOut[1]) /\ Len(F) = Len(ringsOut[1]) /\ n \in 0..Len(F)
  BY <1>1, FrontFacts, LenProperties DEF F
<1>3. F' = Rest(F, n)
  <2>1. ringsOut'[1] = Rest(ringsOut[1], n)
    BY <1>1, LeftFacts DEF Rest
  <2>2. QED
    BY <1>1, <1>2, <2>1, FrontRest DEF F
<1>4. F \o C \in Seq(Instants) /\ Len(F \o C) = Len(F) + Len(C)
  BY <1>1, ConcatProperties
<1>5. Len(F) \in Nat /\ Len(C) \in Nat
  BY <1>1, LenProperties
<1>6. n \in 0..Len(F \o C)
  BY <1>2, <1>4, <1>5
<1>7. FrontStream' = Rest(FrontStream, n)
  <2>1. Rest(F, n) \o C = Rest(F \o C, n)
    BY <1>1, <1>2, RestOfConcat
  <2>2. Rest(F \o C, n) \o R = Rest((F \o C) \o R, n)
    BY <1>1, <1>4, <1>6, RestOfConcat
  <2>3. QED
    BY <1>1, <1>3, <2>1, <2>2
<1>8. FrontStream \in Seq(Instants) /\ Len(FrontStream) \in Nat /\ n \in 0..Len(FrontStream)
  BY <1>2, <1>5, StreamTotal
<1>9. Len(FrontStream') = Len(FrontStream) - n
  BY <1>7, <1>8, RestFacts
<1>10. lost = 0 => Dated(FrontStream', Last)
  BY <1>7, <1>8, DatedRest, Accounts DEF Ledger
<1>11. QED
  BY <1>8, <1>9, <1>10, Accounts DEF Ledger, Dated

LEMMA QuietStream ==
    ASSUME UNCHANGED <<rings, pump, blocks>>
    PROVE  F' = F /\ C' = C /\ R' = R /\ FrontStream' = FrontStream
<1>1. UNCHANGED <<ringsIn, ringsOut, pump, pumpIn, pumpOut>>
  BY DEF rings, blocks
<1>2. F' = F /\ R' = R
  BY <1>1 DEF F, R, FrontOf
<1>3. C' = C
  BY <1>1 DEF C, Carried, FrontOf
<1>4. FrontStream' = FrontStream
  BY <1>2, <1>3 DEF FrontStream, F, C, R
<1>5. QED
  BY <1>2, <1>3, <1>4

\* The audio thread: what it queues is owed back, and an underrun pays with silence.
LEMMA AudioLedger ==
    ASSUME IInv, DataInv, Live, Ledger, AudioStep
    PROVE  Ledger'
<1>1. audio.pc # "idle" => audio.n \in Nat
  BY TimeFacts
<1>2. /\ time \in Nat /\ underrun \in Nat /\ lost \in Nat /\ Cushion \in Nat
      /\ Queued \in Nat /\ Owed \in Nat
  BY TimeFacts, RingSizes, Accounts
<1>3. audio.pc \notin {"idle", "lock"} => readyFlag /\ owner.pc = "idle"
  BY DEF Live, IInv, LockHeld
<1>4. ASSUME UNCHANGED <<rings, pump, blocks, lost>>, Balance' = Balance, Last' = Last
      PROVE  Ledger'
  BY <1>4, QuietStream, StreamKept
<1>5. ASSUME UNCHANGED <<rings, pump, blocks, time, underrun, lost>>,
             Queued' = Queued, Owed' = Owed
      PROVE  Ledger'
  <2>1. Balance' = Balance /\ Last' = Last
    BY <1>5 DEF Balance, Last
  <2>2. QED
    BY <1>4, <1>5, <2>1
<1>6. ASSUME \/ \E n \in Calls : ProcessBlock(n)
             \/ TryLock \/ TestPipeline \/ Bypass \/ PushTest
      PROVE  Ledger'
  <2>1. /\ audio.pc \in {"idle", "lock", "test", "pushTest"}
        /\ \/ audio'.pc \in {"idle", "lock", "test", "pushTest"}
           \/ audio'.pc = "push" /\ audio'.ch = 1
    <3>1. CASE \E n \in Calls : ProcessBlock(n)
      BY <3>1 DEF ProcessBlock
    <3>2. CASE TryLock
      <4>1. CASE procLock = "free"
        BY <3>2, <4>1, AudioFields DEF TryLock
      <4>2. CASE procLock # "free"
        BY <3>2, <4>2 DEF TryLock, IdleAudio
      <4>3. QED
        BY <4>1, <4>2
    <3>3. CASE TestPipeline
      BY <3>3, AudioFields DEF TestPipeline
    <3>4. CASE Bypass
      BY <3>4 DEF Bypass, AudioDone, IdleAudio
    <3>5. CASE PushTest
      <4>1. audio.pc = "pushTest"
        BY <3>5 DEF PushTest, AudioGo
      <4>2. AudioGo("pushTest", "push")
        BY <1>3, <3>5, <4>1 DEF PushTest
      <4>3. QED
        BY <4>1, <4>2, AudioFields
    <3>6. QED
      BY <1>6, <3>1, <3>2, <3>3, <3>4, <3>5
  <2>2. Queued = 0 /\ Owed = 0 /\ Queued' = 0 /\ Owed' = 0
    BY <2>1 DEF Queued, Owed
  <2>3. UNCHANGED <<rings, pump, blocks, time, underrun, lost>>
    BY <1>6 DEF ProcessBlock, TryLock, TestPipeline, Bypass, PushTest, losses
  <2>4. QED
    BY <1>5, <2>2, <2>3
<1>7. CASE PopTest
  <2> DEFINE enough == readyFlag /\ ringsOut # <<>> /\ Len(ringsOut[1]) >= audio.n
  <2>1. AudioGo("popTest", IF enough THEN "pop" ELSE "silence")
    BY <1>7 DEF PopTest
  <2>2. /\ audio.pc = "popTest" /\ audio'.n = audio.n /\ audio'.ch = 1
        /\ audio'.pc = IF enough THEN "pop" ELSE "silence"
    BY <2>1, AudioFields
  <2> HIDE DEF enough
  <2>3. Queued' = Queued /\ Owed' = Owed
    BY <2>2 DEF Queued, Owed
  <2>4. UNCHANGED <<rings, pump, blocks, time, underrun, lost>>
    BY <1>7 DEF PopTest, losses
  <2>5. QED
    BY <1>5, <2>3, <2>4
<1>8. CASE PopSilence
  <2>1. /\ audio.pc = "silence" /\ audio'.pc = "idle" /\ time' = time + audio.n
        /\ underrun' = underrun + audio.n /\ UNCHANGED <<rings, pump, blocks, lost>>
    BY <1>3, <1>8 DEF PopSilence, AudioDone, IdleAudio, losses
  <2>2. Queued = audio.n /\ Owed = audio.n /\ Queued' = 0 /\ Owed' = 0
    BY <2>1 DEF Queued, Owed
  <2>3. Balance' = Balance /\ Last' = Last
    BY <1>1, <1>2, <2>1, <2>2 DEF Balance, Last
  <2>4. QED
    BY <1>4, <2>1, <2>3
<1>9. CASE PushChannel
  <2>1. /\ audio.pc = "push" /\ audio.ch \in Ins /\ owner.pc # "raise"
        /\ UNCHANGED <<ringsOut, pump, blocks, time, underrun>>
    BY <1>3, <1>9 DEF PushChannel, DataInv, Channels
  <2>2. /\ audio'.n = audio.n
        /\ \/ audio'.pc = "push" /\ audio'.ch = audio.ch + 1
           \/ audio'.pc = "popTest"
    <3>1. CASE audio.ch = NumIns
      BY <1>9, <3>1, AudioFields DEF PushChannel
    <3>2. CASE audio.ch # NumIns
      BY <1>9, <2>1, <3>2 DEF PushChannel, IInv, ControlTypes
    <3>3. QED
      BY <3>1, <3>2
  <2>3. audio.ch + 1 > 1 /\ (audio.ch # 1 => audio.ch > 1)
    BY <2>1, Numbers DEF Ins
  <2>4. Queued' = audio.n /\ Owed' = audio.n
    BY <2>2, <2>3 DEF Queued, Owed
  <2>5. ringsIn \in [Ins -> Seq(Instants)] /\ Up
    BY StreamTypes, RingsThere DEF DataInv
  <2>6. CASE audio.ch = 1
    <3> DEFINE s == [i \in 1..audio.n |-> time + i]
    <3>1. /\ ringsIn' = [ringsIn EXCEPT ![1] = Write(ringsIn[1], s)]
          /\ lost' = lost + Excess(ringsIn[1], s)
      BY <1>9, <2>6 DEF PushChannel
    <3>2. s \in Seq(Instants) /\ Len(s) = audio.n
      <4>1. audio.n \in Nat /\ time + audio.n <= MaxTime
        BY <1>1, <2>1, TimeFacts
      <4>2. s \in [1..audio.n -> Instants]
        BY <1>2, <4>1, Numbers DEF Instants
      <4>3. QED
        BY <4>1, <4>2, FunctionIsSeq
    <3>3. Queued = 0 /\ Owed = 0
      BY <2>1, <2>6 DEF Queued, Owed
    <3>4. \A i \in 1..Len(s) : s[i] = Last + i
      <4>1. Last = time
        BY <1>2, <3>3 DEF Last
      <4>2. \A i \in 1..audio.n : s[i] = time + i
        OBVIOUS
      <4>3. QED
        BY <3>2, <4>1, <4>2
    <3> HIDE DEF s
    <3>5. R' = Write(R, s) /\ lost' = lost + Excess(R, s)
      BY <2>5, <3>1, Numbers DEF R
    <3>6. F' = F /\ C' = C
      BY <2>1 DEF F, C, FrontOf, Carried, blocks
    <3>7. FrontStream' = (F' \o C') \o R'
      BY DEF FrontStream, F, C, R
    <3>8. Last' = Last + Len(s)
      BY <1>1, <1>2, <2>1, <2>4, <3>2, <3>3 DEF Last
    <3>9. Excess(R, s) \in Nat
      <4>1. R \in Seq(Instants) /\ Len(R) <= RingCapacity
        BY StreamTypes
      <4>2. Excess(R, s) \in 0..Len(s) /\ Len(s) \in Nat
        BY <3>2, <4>1, WriteFacts, LenProperties
      <4>3. QED
        BY <4>2
    <3>10. Balance' = Balance + Len(s) - Excess(R, s)
      <4>1. /\ Balance' = Cushion + underrun' + Owed' - lost'
            /\ Balance = Cushion + underrun + Owed - lost
        BY DEF Balance, Cushion
      <4>2. audio.n \in Nat
        BY <1>1, <2>1
      <4>3. QED
        BY <1>2, <2>1, <2>4, <3>2, <3>3, <3>5, <3>9, <4>1, <4>2
    <3>11. QED
      BY <3>2, <3>4, <3>5, <3>6, <3>7, <3>8, <3>10, StreamGrows
  <2>7. CASE audio.ch # 1
    <3>1. Queued = audio.n /\ Owed = audio.n
      BY <2>1, <2>3, <2>7 DEF Queued, Owed
    <3>2. ringsIn'[1] = ringsIn[1] /\ lost' = lost
      BY <1>2, <1>9, <2>5, <2>7, Numbers DEF PushChannel
    <3>3. F' = F /\ C' = C /\ R' = R
      BY <2>1, <3>2 DEF F, C, R, FrontOf, Carried, blocks
    <3>4. FrontStream' = FrontStream
      BY <3>3 DEF FrontStream, F, C, R
    <3>5. Balance' = Balance /\ Last' = Last
      BY <2>1, <2>4, <3>1, <3>2 DEF Balance, Last
    <3>6. QED
      BY <3>2, <3>4, <3>5, StreamKept
  <2>8. QED
    BY <2>6, <2>7
<1>10. CASE PopChannel
  <2>1. /\ audio.pc = "pop" /\ audio.ch \in Outs /\ audio.n \in Nat
        /\ UNCHANGED <<ringsIn, pump, blocks, underrun, lost>>
    BY <1>1, <1>10 DEF PopChannel, DataInv, Channels, losses
  <2>2. /\ Last' = time + audio.n /\ Owed' = 0
    <3>1. CASE audio.ch = NumOuts
      <4>1. audio'.pc = "idle" /\ time' = time + audio.n
        BY <1>10, <3>1 DEF PopChannel, AudioDone, IdleAudio
      <4>2. QED
        BY <1>2, <2>1, <4>1 DEF Last, Queued, Owed
    <3>2. CASE audio.ch # NumOuts
      <4>1. /\ audio'.pc = "pop" /\ audio'.n = audio.n /\ audio'.ch = audio.ch + 1
            /\ time' = time
        BY <1>10, <2>1, <3>2 DEF PopChannel, IInv, ControlTypes
      <4>2. audio'.ch > 1
        BY <2>1, <4>1, Numbers DEF Outs
      <4>3. QED
        BY <4>1, <4>2 DEF Last, Queued, Owed
    <3>3. QED
      BY <3>1, <3>2
  <2>3. Last = time + audio.n
    BY <2>1 DEF Last, Queued
  <2>4. ringsOut \in [Outs -> Seq(Moments)] /\ Up
    BY StreamTypes, RingsThere DEF DataInv
  <2>5. CASE audio.ch = 1
    <3>1. Owed = audio.n
      BY <2>1, <2>5 DEF Owed, Queued
    <3>2. ringsOut'[1] = Left(ringsOut[1], audio.n) /\ audio.n <= Len(ringsOut[1])
      <4>1. Len(ringsOut[1]) \in Nat
        BY <2>4, LenProperties, Numbers
      <4>2. QED
        BY <1>10, <2>1, <2>4, <2>5, <4>1, Numbers DEF PopChannel, DataInv, FrontFound
    <3>3. C' = C /\ R' = R
      BY <2>1 DEF C, R, FrontOf, Carried, blocks
    <3>4. FrontStream' = (F' \o C') \o R' /\ F' = FrontOf(ringsOut'[1])
      BY DEF FrontStream, F, C, R, FrontOf
    <3>5. Balance' = Balance - audio.n
      BY <1>2, <2>1, <2>2, <3>1 DEF Balance, Cushion
    <3>6. QED
      BY <2>1, <2>2, <2>3, <3>2, <3>3, <3>4, <3>5, StreamShrinks
  <2>6. CASE audio.ch # 1
    <3>1. audio.ch > 1
      BY <2>1, <2>6, Numbers DEF Outs
    <3>2. Owed = 0
      BY <2>1, <3>1 DEF Owed
    <3>3. ringsOut'[1] = ringsOut[1]
      BY <1>10, <2>4, <2>6, Numbers DEF PopChannel
    <3>4. F' = F /\ C' = C /\ R' = R
      BY <2>1, <3>3 DEF F, C, R, FrontOf, Carried, blocks
    <3>5. FrontStream' = FrontStream
      BY <3>4 DEF FrontStream, F, C, R
    <3>6. Balance' = Balance
      BY <2>1, <2>2, <3>2 DEF Balance
    <3>7. QED
      BY <2>1, <2>2, <2>3, <3>5, <3>6, StreamKept
  <2>7. QED
    BY <2>5, <2>6
<1>11. QED
  BY <1>6, <1>7, <1>8, <1>9, <1>10 DEF AudioStep

\* What the pump carries belongs to the stream: a block passes from the input ring
\* through the backend to the output ring, and only the last write may lose samples.
LEMMA PumpLedger ==
    ASSUME IInv, DataInv, Live, Ledger, PumpStep, Live'
    PROVE  Ledger'
<1>1. UNCHANGED <<audio, time, underrun>>
  BY DEF PumpStep, PumpEnd, PumpTake, PumpRead, Launch, LaunchFails, PumpFails, PumpWrite
<1>2. Last' = Last /\ Owed' = Owed
  BY <1>1 DEF Last, Owed, Queued
<1>3. FrontStream = (F \o C) \o R /\ FrontStream' = (F' \o C') \o R'
  BY DEF FrontStream, F, C, R
<1>4. /\ F \in Seq(Instants) /\ C \in Seq(Instants) /\ R \in Seq(Instants) /\ Up
      /\ ringsOut[1] \in Seq(Moments) /\ Len(ringsOut[1]) <= RingCapacity
      /\ pumpOut \in Seq(Moments) /\ Len(pumpOut) = BlockSize
      /\ pumpIn[1] \in Seq(Instants) /\ Len(pumpIn[1]) = BlockSize
  BY StreamTypes
<1>5. ringsIn \in [Ins -> Seq(Instants)] /\ ringsOut \in [Outs -> Seq(Moments)]
  BY <1>4, RingsThere DEF DataInv
<1>6. ASSUME FrontStream' = FrontStream, UNCHANGED lost PROVE Ledger'
  <2>1. Balance' = Balance
    BY <1>1, <1>2, <1>6 DEF Balance
  <2>2. QED
    BY <1>2, <1>6, <2>1, StreamKept
<1>7. CASE PumpEnd \/ PumpTake
  <2>1. /\ pump.pc = "check" /\ pump'.ch = 1 /\ pump'.pc \in {"ended", "read"}
        /\ UNCHANGED <<ringsIn, ringsOut, lost>>
    BY <1>7 DEF PumpEnd, PumpTake, PumpGo, rings, losses
  <2>2. C = <<>> /\ C' = <<>>
    BY <2>1 DEF C, Carried
  <2>3. F' = F /\ R' = R
    BY <2>1 DEF F, R, FrontOf
  <2>4. QED
    BY <1>3, <1>6, <2>1, <2>2, <2>3
<1>8. CASE PumpRead
  <2>1. /\ pump.pc = "read" /\ pump.ch \in Ins /\ UNCHANGED <<ringsOut, lost>>
        /\ ringsIn' = [ringsIn EXCEPT ![pump.ch] = Left(ringsIn[pump.ch], BlockSize)]
        /\ pumpIn' = [pumpIn EXCEPT ![pump.ch] = Read(ringsIn[pump.ch], BlockSize,
                                                      pumpIn[pump.ch])]
    BY <1>8 DEF PumpRead, DataInv, Channels, losses
  <2>2. \/ pump'.pc = "launch"
        \/ pump'.pc = "read" /\ pump'.ch = pump.ch + 1
    BY <1>8 DEF PumpRead, PumpGo, IInv, ControlTypes
  <2>3. pump.ch + 1 > 1 /\ (pump.ch # 1 => pump.ch > 1)
    BY <2>1, Numbers DEF Ins
  <2>4. C' = pumpIn'[1] /\ F' = F
    BY <2>1, <2>2, <2>3 DEF C, Carried, F, FrontOf
  <2>5. pumpIn \in [Ins -> [1..BlockSize -> Instants]]
    BY DEF DataInv, Values
  <2>6. CASE pump.ch = 1
    <3>1. /\ C = <<>> /\ Len(R) >= BlockSize
      BY <2>1, <2>6 DEF C, Carried, DataInv, FrontFound, R
    <3>2. C' = Read(R, BlockSize, pumpIn[1]) /\ R' = Left(R, BlockSize)
      BY <1>5, <2>1, <2>4, <2>5, <2>6, Numbers DEF R
    <3>3. Len(R) \in Nat /\ BlockSize \in Nat /\ BlockSize <= Len(R)
      BY <1>4, <3>1, LenProperties, Numbers
    <3>4. C' = SubSeq(R, 1, BlockSize)
      <4>1. pumpIn[1] \in [1..BlockSize -> Instants]
        BY <2>5, Numbers
      <4>2. Read(R, BlockSize, pumpIn[1]) = SubSeq(R, 1, BlockSize)
        BY <1>4, <3>3, <4>1, ReadFacts
      <4>3. QED
        BY <3>2, <4>2
    <3>5. R' = SubSeq(R, BlockSize + 1, Len(R))
      BY <1>4, <3>2, <3>3, LeftFacts
    <3>6. C' \o R' = R
      <4>1. /\ 1 \in 1..Len(R) + 1 /\ BlockSize \in 1 - 1..Len(R)
            /\ Len(R) \in BlockSize..Len(R)
        BY <3>3
      <4>2. SubSeq(R, 1, BlockSize) \o SubSeq(R, BlockSize + 1, Len(R)) = SubSeq(R, 1, Len(R))
        BY <1>4, <4>1, ConcatAdjacentSubSeq
      <4>3. SubSeq(R, 1, Len(R)) = R
        BY <1>4, SubSeqFull
      <4>4. QED
        BY <3>4, <3>5, <4>2, <4>3
    <3>7. C' \in Seq(Instants) /\ R' \in Seq(Instants)
      <4>1. \A i \in 1..Len(R) : R[i] \in Instants
        BY <1>4, ElementOfSeq
      <4>2. SubSeq(R, 1, BlockSize) \in Seq(Instants)
        BY <3>3, <4>1, SubSeqProperties
      <4>3. SubSeq(R, BlockSize + 1, Len(R)) \in Seq(Instants)
        BY <3>3, <4>1, SubSeqProperties
      <4>4. QED
        BY <3>4, <3>5, <4>2, <4>3
    <3>8. (F \o C') \o R' = F \o (C' \o R')
      <4> DEFINE a == C'
                 b == R'
      <4>1. F \in Seq(Instants) /\ a \in Seq(Instants) /\ b \in Seq(Instants)
        BY <1>4, <3>7
      <4> HIDE DEF a, b
      <4>2. (F \o a) \o b = F \o (a \o b)
        BY <4>1, ConcatAssociative
      <4>3. QED
        BY <4>2 DEF a, b
    <3>9. F \o C = F
      BY <1>4, <3>1, ConcatEmptySeq
    <3>10. FrontStream' = FrontStream
      BY <1>3, <2>4, <3>6, <3>8, <3>9
    <3>11. QED
      BY <1>6, <2>1, <3>10
  <2>7. CASE pump.ch # 1
    <3>1. C = pumpIn[1]
      BY <2>1, <2>3, <2>7 DEF C, Carried
    <3>2. pumpIn'[1] = pumpIn[1] /\ ringsIn'[1] = ringsIn[1]
      BY <1>5, <2>1, <2>5, <2>7, Numbers
    <3>3. C' = C /\ R' = R
      BY <2>4, <3>1, <3>2 DEF R
    <3>4. FrontStream' = FrontStream
      BY <1>3, <2>4, <3>3
    <3>5. QED
      BY <1>6, <2>1, <3>4
  <2>8. QED
    BY <2>6, <2>7
<1>9. CASE Launch
  <2>1. /\ pump.pc = "launch" /\ pump'.pc = "write" /\ pump'.ch = 1
        /\ UNCHANGED <<ringsIn, ringsOut, lost>>
        /\ pumpOut' = [i \in 1..BlockSize |-> [c \in Ins |-> pumpIn[c][i]]]
    BY <1>9 DEF Launch, PumpGo, rings, losses
  <2>2. C = pumpIn[1] /\ C' = FrontOf(pumpOut')
    BY <2>1 DEF C, Carried, FrontOf
  <2>3. pumpOut' \in Seq(Moments) /\ Len(pumpOut') = BlockSize
    <3>1. Values'
      BY <1>9, LaunchValues
    <3>2. pumpOut' \in [1..BlockSize -> Moments]
      BY <3>1 DEF Values, Moments
    <3>3. QED
      BY <3>2, FunctionIsSeq, Numbers
  <2>4. FrontOf(pumpOut') = pumpIn[1]
    <3>1. /\ FrontOf(pumpOut') \in Seq(Instants) /\ Len(FrontOf(pumpOut')) = BlockSize
          /\ \A i \in 1..BlockSize : FrontOf(pumpOut')[i] = pumpOut'[i][1]
      BY <2>3, FrontFacts
    <3>2. \A i \in 1..BlockSize : pumpOut'[i][1] = pumpIn[1][i]
      BY <2>1, Numbers
    <3> DEFINE a == FrontOf(pumpOut')
               b == pumpIn[1]
    <3>3. /\ a \in Seq(Instants) /\ b \in Seq(Instants) /\ Len(a) = Len(b)
          /\ \A i \in 1..Len(a) : a[i] = b[i]
      BY <1>4, <3>1, <3>2
    <3> HIDE DEF a, b
    <3>4. a = b
      BY <3>3, SeqEqual
    <3>5. QED
      BY <3>4 DEF a, b
  <2>5. F' = F /\ R' = R
    BY <2>1 DEF F, R, FrontOf
  <2>6. QED
    BY <1>3, <1>6, <2>1, <2>2, <2>4, <2>5
<1>10. CASE LaunchFails
  <2>1. /\ pump.pc = "launch" /\ pump'.pc = "fail"
        /\ UNCHANGED <<ringsIn, ringsOut, pumpIn, lost>>
    BY <1>10 DEF LaunchFails, PumpGo, rings, losses, blocks
  <2>2. C' = C /\ F' = F /\ R' = R
    BY <2>1 DEF C, Carried, F, R, FrontOf
  <2>3. QED
    BY <1>3, <1>6, <2>1, <2>2
<1>11. ~PumpFails
  <2>1. SUFFICES ASSUME PumpFails PROVE FALSE
    OBVIOUS
  <2>2. pump.pc = "fail" /\ ~readyFlag' /\ UNCHANGED owner
    BY <2>1 DEF PumpFails, PumpGo
  <2>3. QED
    BY <2>2 DEF Live, DataInv, FrontFound
<1>12. CASE PumpWrite
  <2>1. /\ pump.pc = "write" /\ pump.ch \in Outs /\ UNCHANGED ringsIn
        /\ ringsOut' = [ringsOut EXCEPT ![pump.ch] = Write(ringsOut[pump.ch], pumpOut)]
        /\ lost' = lost + IF pump.ch = 1 THEN Excess(ringsOut[pump.ch], pumpOut) ELSE 0
    BY <1>12 DEF PumpWrite, DataInv, Channels
  <2>2. \/ pump'.pc = "check"
        \/ pump'.pc = "write" /\ pump'.ch = pump.ch + 1
    BY <1>12 DEF PumpWrite, PumpGo, IInv, ControlTypes
  <2>3. pump.ch + 1 # 1
    BY <2>1, Numbers DEF Outs
  <2>4. C' = <<>> /\ R' = R
    BY <2>1, <2>2, <2>3 DEF C, Carried, R
  <2>5. lost \in Nat
    BY TimeFacts
  <2>6. CASE pump.ch = 1
    <3> DEFINE w == Write(ringsOut[1], pumpOut)
               e == Excess(ringsOut[1], pumpOut)
    <3>1. C = FrontOf(pumpOut)
      BY <2>1, <2>6 DEF C, Carried
    <3>2. F' = FrontOf(w) /\ lost' = lost + e
      <4>1. ringsOut'[1] = w
        BY <1>5, <2>1, <2>6, Numbers
      <4>2. QED
        BY <2>1, <2>6, <4>1 DEF F, FrontOf
    <3>3. /\ w \in Seq(Moments) /\ e \in 0..Len(pumpOut)
          /\ Len(w) = Len(ringsOut[1]) + Len(pumpOut) - e
          /\ e = 0 => w = ringsOut[1] \o pumpOut
      BY <1>4, WriteFacts
    <3> HIDE DEF w, e
    <3>4. e \in Nat
      BY <1>4, <3>3, Numbers
    <3>5. F' \in Seq(Instants) /\ Len(F') = Len(w)
      <4>1. FrontOf(w) \in Seq(Instants) /\ Len(FrontOf(w)) = Len(w)
        BY <3>3, FrontFacts
      <4>2. QED
        BY <3>2, <4>1
    <3>6. Len(F) = Len(ringsOut[1]) /\ Len(C) = Len(pumpOut)
      BY <1>4, <3>1, FrontFacts DEF F
    <3>7. FrontStream' = F' \o R
      <4> DEFINE a == F'
      <4>1. a \in Seq(Instants)
        BY <3>5
      <4> HIDE DEF a
      <4>2. a \o <<>> = a
        BY <4>1, ConcatEmptySeq
      <4>3. QED
        BY <1>3, <2>4, <4>2 DEF a
    <3>8. Len(FrontStream') = Len(F) + Len(C) - e + Len(R)
      <4> DEFINE a == F'
      <4>1. a \in Seq(Instants) /\ Len(a) = Len(F) + Len(C) - e
        BY <3>3, <3>5, <3>6
      <4> HIDE DEF a
      <4>2. Len(a \o R) = Len(a) + Len(R)
        BY <1>4, <4>1, ConcatProperties
      <4>3. QED
        BY <3>7, <4>1, <4>2 DEF a
    <3>9. Len(FrontStream') = Balance'
      <4>1. Len(FrontStream) = Len(F) + Len(C) + Len(R) /\ Len(FrontStream) = Balance
        BY StreamTotal DEF Ledger
      <4>2. Balance' = Cushion + underrun + Owed - lost'
        BY <1>1, <1>2 DEF Balance, Cushion
      <4>3. Balance = Cushion + underrun + Owed - lost
        BY DEF Balance
      <4>4. /\ Cushion \in Nat /\ underrun \in Nat /\ Owed \in Nat /\ lost \in Nat
            /\ Len(F) \in Nat /\ Len(C) \in Nat /\ Len(R) \in Nat
        BY TimeFacts, RingSizes, Accounts, StreamTotal
      <4>5. Balance' = Balance - e
        BY <3>2, <3>4, <4>2, <4>3, <4>4
      <4>6. Len(FrontStream') = Balance - e
        BY <3>4, <3>8, <4>1, <4>4
      <4>7. QED
        BY <4>5, <4>6
    <3>10. ASSUME lost' = 0 PROVE Dated(FrontStream', Last')
      <4>1. lost = 0 /\ e = 0
        BY <2>5, <3>2, <3>4, <3>10
      <4>2. F' = F \o C
        <5>1. FrontOf(ringsOut[1] \o pumpOut) = FrontOf(ringsOut[1]) \o FrontOf(pumpOut)
          BY <1>4, FrontConcat
        <5>2. QED
          BY <3>1, <3>2, <3>3, <4>1, <5>1 DEF F
      <4>3. FrontStream' = FrontStream
        BY <1>3, <3>7, <4>2
      <4>4. QED
        BY <1>2, <4>1, <4>3 DEF Ledger
    <3>11. QED
      BY <3>9, <3>10 DEF Ledger, Dated
  <2>7. CASE pump.ch # 1
    <3>1. C = <<>>
      BY <2>1, <2>7 DEF C, Carried
    <3>2. ringsOut'[1] = ringsOut[1] /\ lost' = lost
      BY <1>5, <2>1, <2>5, <2>7, Numbers
    <3>3. F' = F
      BY <3>2 DEF F, FrontOf
    <3>4. FrontStream' = FrontStream
      BY <1>3, <2>4, <3>1, <3>3
    <3>5. QED
      BY <1>6, <3>2, <3>4
  <2>8. QED
    BY <2>6, <2>7
<1>13. QED
  BY <1>7, <1>8, <1>9, <1>10, <1>11, <1>12 DEF PumpStep

\* The new stream is the cushion: silence up to the instant 0.
LEMMA RebuildLedger ==
    ASSUME IInv, DataInv, Rebuild
    PROVE  Ledger'
<1> DEFINE cushion == [i \in 1..Cushion |-> Silent]
<1>1. /\ audio.pc \in {"idle", "lock"} /\ UNCHANGED audio
      /\ ringsIn'[1] = <<>> /\ ringsOut'[1] = cushion
      /\ time' = 0 /\ underrun' = 0 /\ lost' = 0 /\ pump'.pc = "check"
  BY Numbers DEF Rebuild, OwnerGo, IInv, LockHeld
<1>2. Silent \in Moments /\ Silent[1] = 0
  BY Numbers DEF Silent, Moments, Instants
<1>3. cushion \in Seq(Moments) /\ Len(cushion) = Cushion
  BY <1>2, RingSizes, FunctionIsSeq
<1>4. \A i \in 1..Cushion : cushion[i][1] = 0
  BY <1>2
<1> HIDE DEF cushion
<1>5. F' = FrontOf(cushion) /\ C' = <<>> /\ R' = <<>>
  BY <1>1 DEF F, C, R, FrontOf, Carried
<1>6. /\ FrontOf(cushion) \in Seq(Instants) /\ Len(FrontOf(cushion)) = Cushion
      /\ \A i \in 1..Cushion : FrontOf(cushion)[i] = 0
  BY <1>3, <1>4, FrontFacts
<1>7. FrontStream' = FrontOf(cushion)
  <2>1. FrontStream' = (F' \o C') \o R'
    BY DEF FrontStream, F, C, R
  <2> DEFINE a == FrontOf(cushion)
  <2>2. a \in Seq(Instants) /\ FrontStream' = (a \o <<>>) \o <<>>
    BY <1>5, <1>6, <2>1
  <2> HIDE DEF a
  <2>3. a \o <<>> = a
    BY <2>2, ConcatEmptySeq
  <2>4. QED
    BY <2>2, <2>3 DEF a
<1>8. Queued' = 0 /\ Owed' = 0
  BY <1>1 DEF Queued, Owed
<1>9. Last' = 0 /\ Balance' = Cushion
  BY <1>1, <1>8, RingSizes DEF Last, Balance, Cushion
<1>10. Dated(FrontOf(cushion), 0)
  <2> DEFINE a == FrontOf(cushion)
  <2>1. Len(a) = Cushion /\ \A i \in 1..Cushion : a[i] = 0
    BY <1>6
  <2> HIDE DEF a
  <2>2. \A i \in 1..Cushion : ~(0 - Cushion + i > 0)
    BY RingSizes
  <2>3. Dated(a, 0)
    BY <2>1, <2>2 DEF Dated
  <2>4. QED
    BY <2>3 DEF a
<1>11. Dated(FrontStream', Last')
  BY <1>7, <1>9, <1>10
<1>12. QED
  BY <1>6, <1>7, <1>9, <1>11 DEF Ledger, Dated

\* A pipeline that is down keeps no account; nothing else the control thread does
\* touches a sample.
LEMMA OwnerLedger ==
    ASSUME IInv, DataInv, Live => Ledger, Live',
           \/ OwnerStep
           \/ \E op \in {"prepare", "release"}, on \in BOOLEAN : Call(op, on)
           \/ \E on \in BOOLEAN : setProcessingEnabled(on)
    PROVE  Ledger'
<1> USE DEF flags
<1>1. ~(Release \/ Join \/ Kill \/ ClearRings \/ BackendFails)
  <2>1. SUFFICES ASSUME Release \/ Join \/ Kill \/ ClearRings \/ BackendFails PROVE FALSE
    OBVIOUS
  <2>2. ~readyFlag'
    BY <2>1 DEF Release, Join, Kill, ClearRings, BackendFails, OwnerGo, IInv, OwnerKnows
  <2>3. owner'.pc # "raise"
    BY <2>1 DEF Release, Join, Kill, ClearRings, BackendFails, OwnerGo, IInv, ControlTypes
  <2>4. QED
    BY <2>2, <2>3 DEF Live
<1>2. CASE \/ RaiseReady \/ Unlock
           \/ \E op \in {"prepare", "release"}, on \in BOOLEAN : Call(op, on)
           \/ \E on \in BOOLEAN : setProcessingEnabled(on)
  <2>1. UNCHANGED <<rings, pump, blocks, audio, time, underrun, lost>>
    BY <1>2 DEF RaiseReady, Unlock, Call, setProcessingEnabled, losses
  <2>2. Live
    BY <1>2 DEF RaiseReady, Unlock, Call, setProcessingEnabled, OwnerGo, Live, IInv, ControlTypes
  <2>3. Balance' = Balance /\ Last' = Last
    BY <2>1 DEF Balance, Last, Owed, Queued
  <2>4. QED
    BY <2>1, <2>2, <2>3, QuietStream, StreamKept
<1>3. QED
  BY <1>1, <1>2, RebuildLedger DEF OwnerStep

LEMMA LedgerStep == IInv /\ DataInv /\ LedgerInv /\ [Next]_vars => LedgerInv'
<1> SUFFICES ASSUME IInv, DataInv, Live => Ledger, [Next]_vars, Live' PROVE Ledger'
  BY DEF LedgerInv
<1>1. CASE AudioStep
  <2>1. Live
    BY <1>1 DEF AudioStep, ProcessBlock, TryLock, TestPipeline, Bypass, PushTest, PushChannel,
                PopTest, PopSilence, PopChannel, flags, Live
  <2>2. QED
    BY <1>1, <2>1, AudioLedger
<1>2. CASE PumpStep
  <2>1. Live
    BY <1>2 DEF PumpStep, PumpEnd, PumpTake, PumpRead, Launch, LaunchFails, PumpFails,
                PumpWrite, flags, Live
  <2>2. QED
    BY <1>2, <2>1, PumpLedger
<1>3. CASE \/ OwnerStep
           \/ \E op \in {"prepare", "release"}, on \in BOOLEAN : Call(op, on)
           \/ \E on \in BOOLEAN : setProcessingEnabled(on)
  BY <1>3, OwnerLedger
<1>4. CASE UNCHANGED vars
  <2>1. UNCHANGED <<rings, pump, blocks, audio, time, underrun, lost, readyFlag, owner>>
    BY <1>4 DEF vars, rings, blocks
  <2>2. Live /\ Balance' = Balance /\ Last' = Last
    BY <2>1 DEF Live, Balance, Last, Owed, Queued
  <2>3. QED
    BY <2>1, <2>2, QuietStream, StreamKept
<1>5. QED
  BY <1>1, <1>2, <1>3, <1>4 DEF Next

LEMMA LedgerInvariance == Spec => []LedgerInv
<1>1. Init => LedgerInv
  BY DEF Init, LedgerInv, Live
<1>2. QED
  BY <1>1, LedgerStep, Invariance, DataInvariance, PTL DEF Spec

\* The latency of the front channel is the cushion, longer by every underrun and
\* shorter by every dropped sample, and until one is dropped the samples under way
\* are the last ones queued, each once and in order (GpuAsyncPipeline.h:84-151).
THEOREM LedgerBalances == Spec => []LatencyLedger
<1>1. IInv /\ DataInv /\ LedgerInv => LatencyLedger
  <2>1. SUFFICES ASSUME IInv, DataInv, Live, Ledger PROVE LatencyLedger
    BY DEF LedgerInv, Live, LatencyLedger
  <2>2. Len(FrontStream) = Cushion + underrun + Owed - lost
    BY <2>1 DEF Ledger, Balance
  <2>3. ASSUME lost = 0, NEW i \in 1..Len(FrontStream)
        PROVE  FrontStream[i] = LET t == time + Queued - Len(FrontStream) + i
                                IN  IF t > 0 THEN t ELSE 0
    <3> DEFINE last == time + Queued
    <3>1. Dated(FrontStream, last)
      BY <2>1, <2>3 DEF Ledger, Last
    <3> HIDE DEF last
    <3>2. FrontStream[i] = LET t == last - Len(FrontStream) + i IN IF t > 0 THEN t ELSE 0
      BY <2>3, <3>1 DEF Dated
    <3>3. last - Len(FrontStream) + i = time + Queued - Len(FrontStream) + i
      BY <2>1, Accounts, TimeFacts, StreamTotal DEF last
    <3>4. QED
      BY <3>2, <3>3
  <2>4. QED
    BY <2>2, <2>3 DEF LatencyLedger
<1>2. QED
  BY <1>1, Invariance, DataInvariance, LedgerInvariance, PTL
-------------------------------------------------------------------------------
(* What the host hears on the front channel *)

Sounds == [Ins -> Int]

\* The instant due when the host hears its sample of instant t.
Due(t) == IF t - Cushion > 0 THEN t - Cushion ELSE 0

\* The last instant the host has been given samples for.
End == time + IF audio.pc = "pop" /\ audio.ch > 1 THEN audio.n ELSE 0

\* The part of ConstantLatency that holds: as long as no block was silence-filled
\* and no ring has dropped a sample, the front output plays the front input exactly
\* the cushion late (GpuAsyncPipeline.h:14-17).
FrontOnTime ==
    audio.pc = "idle" /\ underrun = 0 /\ ~dropped =>
      \A i \in 1..Len(heard[1]) :
         heard[1][i][1] = LET t == time - Len(heard[1]) + i - Cushion
                          IN  IF t > 0 THEN t ELSE 0

\* A block found in the front output ring is the one due, also when the pump fails
\* before it is taken and the ledger is void.
FoundIsDue ==
    audio.pc = "pop" /\ audio.ch = 1 =>
        \A i \in 1..audio.n : ringsOut[1][i][1] = Due(time + i)
HeardIsDue == \A i \in 1..Len(heard[1]) : heard[1][i][1] = Due(End - Len(heard[1]) + i)

HeardInv ==
    /\ heard \in [Outs -> Seq(Sounds)]
    /\ lost > 0 => dropped
    /\ underrun = 0 /\ ~dropped => FoundIsDue /\ HeardIsDue

LEMMA ExcessType ==
    ASSUME NEW r, NEW s, Len(r) \in Nat, Len(s) \in Nat
    PROVE  Excess(r, s) \in Nat
BY RingSizes DEF Excess, jmin

\* A step that moves no sample and stays on its side of the front ring.
LEMMA HeardKept ==
    ASSUME HeardInv, UNCHANGED <<heard, time, lost>>, dropped' = dropped,
           underrun' = underrun, End' = End,
           underrun = 0 /\ ~dropped /\ FoundIsDue => FoundIsDue'
    PROVE  HeardInv'
<1>1. HeardIsDue => HeardIsDue'
  BY DEF HeardIsDue, Due, Cushion
<1>2. (heard \in [Outs -> Seq(Sounds)])'
  BY DEF HeardInv, Sounds
<1>3. QED
  BY <1>1, <1>2 DEF HeardInv

LEMMA AudioHeard ==
    ASSUME IInv, DataInv, LedgerInv, HeardInv, AudioStep
    PROVE  HeardInv'
<1>1. /\ time \in Nat /\ underrun \in Nat /\ lost \in Nat /\ Cushion \in Nat
      /\ audio.pc # "idle" => audio.n \in Nat \ {0}
  BY TimeFacts, RingSizes
<1>2. heard \in [Outs -> Seq(Sounds)] /\ 1 \in Outs
  BY Numbers DEF HeardInv
<1>3. ASSUME \/ \E n \in Calls : ProcessBlock(n)
             \/ TryLock \/ TestPipeline \/ Bypass \/ PushTest
      PROVE  HeardInv'
  <2>1. UNCHANGED <<heard, time, lost, dropped, underrun>>
    BY <1>3 DEF ProcessBlock, TryLock, TestPipeline, Bypass, PushTest, losses
  <2>2. audio.pc # "pop" /\ audio'.pc # "pop"
    <3>1. CASE \E n \in Calls : ProcessBlock(n)
      BY <3>1 DEF ProcessBlock
    <3>2. CASE TryLock
      <4>1. CASE procLock = "free"
        BY <3>2, <4>1, AudioFields DEF TryLock
      <4>2. CASE procLock # "free"
        BY <3>2, <4>2 DEF TryLock, IdleAudio
      <4>3. QED
        BY <4>1, <4>2
    <3>3. CASE TestPipeline
      BY <3>3, AudioFields DEF TestPipeline
    <3>4. CASE Bypass
      BY <3>4 DEF Bypass, AudioDone, IdleAudio
    <3>5. CASE PushTest
      <4> DEFINE to == IF readyFlag THEN "push" ELSE "popTest"
      <4>1. AudioGo("pushTest", to) /\ to # "pop"
        BY <3>5 DEF PushTest
      <4> HIDE DEF to
      <4>2. QED
        BY <4>1, AudioFields
    <3>6. QED
      BY <1>3, <3>1, <3>2, <3>3, <3>4, <3>5
  <2>3. End' = End /\ FoundIsDue'
    BY <2>1, <2>2 DEF End, FoundIsDue
  <2>4. QED
    BY <2>1, <2>3, HeardKept
<1>4. CASE PushChannel
  <2>1. /\ audio.pc = "push" /\ audio.ch \in Ins
        /\ UNCHANGED <<heard, time, underrun>>
        /\ lost' = lost + IF audio.ch = 1
              THEN Excess(ringsIn[1], [i \in 1..audio.n |-> time + i]) ELSE 0
        /\ dropped' = (dropped \/ Excess(ringsIn[audio.ch],
                                         [i \in 1..audio.n |-> time + i]) > 0)
    BY <1>4 DEF PushChannel, DataInv, Channels
  <2>2. audio'.pc # "pop"
    <3>1. CASE audio.ch = NumIns
      BY <1>4, <3>1, AudioFields DEF PushChannel
    <3>2. CASE audio.ch # NumIns
      BY <1>4, <2>1, <3>2 DEF PushChannel, IInv, ControlTypes
    <3>3. QED
      BY <3>1, <3>2
  <2>3. End' = End /\ FoundIsDue'
    BY <2>1, <2>2 DEF End, FoundIsDue
  <2>4. lost' > 0 => dropped'
    <3> DEFINE s == [i \in 1..audio.n |-> time + i]
               e == Excess(ringsIn[1], s)
    <3>1. Len(s) \in Nat
      <4>1. audio.n \in Nat
        BY <1>1, <2>1
      <4>2. s \in [1..audio.n -> Int]
        BY <1>1
      <4>3. QED
        BY <4>1, <4>2, FunctionIsSeq
    <3>2. Len(ringsIn[1]) \in Nat
      <4>1. Up
        BY <2>1 DEF IInv, UsersFindRings
      <4>2. ringsIn[1] \in Seq(Instants)
        BY <4>1, RingsThere, Numbers DEF DataInv
      <4>3. QED
        BY <4>2, LenProperties
    <3> HIDE DEF s
    <3>3. e \in Nat
      BY <3>1, <3>2, ExcessType
    <3>4. /\ lost' = lost + IF audio.ch = 1 THEN e ELSE 0
          /\ audio.ch = 1 => dropped' = (dropped \/ e > 0)
      BY <2>1 DEF s
    <3> HIDE DEF e
    <3>5. lost > 0 => dropped
      BY DEF HeardInv
    <3>6. CASE audio.ch = 1
      <4>1. lost' = lost + e /\ dropped' = (dropped \/ e > 0)
        BY <3>4, <3>6
      <4>2. lost + e > 0 => lost > 0 \/ e > 0
        BY <1>1, <3>3
      <4>3. QED
        BY <3>5, <4>1, <4>2
    <3>7. CASE audio.ch # 1
      <4>1. lost' = lost
        BY <1>1, <3>4, <3>7
      <4>2. dropped => dropped'
        BY <2>1
      <4>3. QED
        BY <3>5, <4>1, <4>2
    <3>8. QED
      BY <3>6, <3>7
  <2>5. dropped => dropped'
    BY <2>1
  <2>6. HeardIsDue => HeardIsDue'
    BY <2>1, <2>3 DEF HeardIsDue, Due, Cushion
  <2>7. QED
    BY <2>1, <2>3, <2>4, <2>5, <2>6 DEF HeardInv, Sounds
<1>5. CASE PopTest
  <2> DEFINE enough == readyFlag /\ ringsOut # <<>> /\ Len(ringsOut[1]) >= audio.n
  <2>1. /\ audio.pc = "popTest" /\ audio'.n = audio.n /\ audio'.ch = 1
        /\ audio'.pc = IF enough THEN "pop" ELSE "silence"
    <3>1. AudioGo("popTest", IF enough THEN "pop" ELSE "silence")
      BY <1>5 DEF PopTest
    <3>2. QED
      BY <3>1, AudioFields
  <2>2. UNCHANGED <<rings, heard, time, lost, dropped, underrun>>
    BY <1>5 DEF PopTest, losses
  <2>3. End' = End
    BY <2>1, <2>2 DEF End
  <2>4. ASSUME enough, underrun = 0, ~dropped, NEW i \in 1..audio.n
        PROVE  ringsOut[1][i][1] = Due(time + i)
    <3>1. Live /\ Ledger /\ lost = 0
      BY <1>1, <2>4 DEF Live, LedgerInv, HeardInv
    <3>2. Queued = audio.n /\ Owed = audio.n
      BY <2>1 DEF Queued, Owed
    <3>3. Dated(FrontStream, Last) /\ Len(FrontStream) = Balance
      BY <3>1 DEF Ledger
    <3>4. Last = time + audio.n /\ Balance = Cushion + audio.n
      <4>1. Balance = Cushion + 0 + audio.n - 0
        BY <2>4, <3>1, <3>2 DEF Balance
      <4>2. QED
        BY <1>1, <2>1, <3>2, <4>1 DEF Last
    <3>5. /\ F \in Seq(Instants) /\ C \in Seq(Instants) /\ R \in Seq(Instants)
          /\ ringsOut[1] \in Seq(Moments) /\ FrontStream = (F \o C) \o R
      BY <3>1, StreamTypes
    <3>6. i \in 1..Len(F) /\ F[i] = ringsOut[1][i][1]
      <4>1. Len(F) = Len(ringsOut[1]) /\ Len(ringsOut[1]) \in Nat
            /\ \A j \in 1..Len(ringsOut[1]) : F[j] = ringsOut[1][j][1]
        BY <3>5, FrontFacts, LenProperties DEF F
      <4>2. i \in 1..Len(ringsOut[1])
        BY <1>1, <2>1, <2>4, <4>1
      <4>3. QED
        BY <4>1, <4>2
    <3>7. FrontStream[i] = F[i]
      <4>1. /\ F \o C \in Seq(Instants) /\ Len(F \o C) = Len(F) + Len(C)
            /\ \A j \in 1..Len(F) + Len(C) :
                 (F \o C)[j] = IF j <= Len(F) THEN F[j] ELSE C[j - Len(F)]
        BY <3>5, ConcatProperties
      <4>2. Len(F) \in Nat /\ Len(C) \in Nat /\ Len(R) \in Nat
        BY <3>5, LenProperties
      <4>3. i \in 1..Len(F) + Len(C) /\ i <= Len(F) /\ i \in 1..Len(F) + Len(C) + Len(R)
        BY <3>6, <4>2
      <4> DEFINE a == F \o C
      <4>4. a \in Seq(Instants) /\ a[i] = F[i] /\ Len(a) = Len(F) + Len(C)
        BY <4>1, <4>3
      <4> HIDE DEF a
      <4>5. \A j \in 1..Len(a) + Len(R) :
              (a \o R)[j] = IF j <= Len(a) THEN a[j] ELSE R[j - Len(a)]
        BY <3>5, <4>4, ConcatProperties
      <4>6. (a \o R)[i] = a[i]
        BY <4>2, <4>3, <4>4, <4>5
      <4>7. QED
        BY <3>5, <4>4, <4>6 DEF a
    <3>8. i \in 1..Len(FrontStream)
      BY <1>1, <2>1, <3>3, <3>4
    <3>9. FrontStream[i] = LET t == Last - Len(FrontStream) + i IN IF t > 0 THEN t ELSE 0
      BY <3>3, <3>8 DEF Dated
    <3>10. Last - Len(FrontStream) + i = (time + i) - Cushion
      BY <1>1, <2>1, <3>3, <3>4
    <3>11. QED
      BY <3>6, <3>7, <3>9, <3>10 DEF Due
  <2>5. ASSUME underrun = 0, ~dropped PROVE FoundIsDue'
    <3>1. SUFFICES ASSUME audio'.pc = "pop", NEW i \in 1..audio'.n
                   PROVE  ringsOut'[1][i][1] = Due(time + i)'
      BY DEF FoundIsDue
    <3>2. enough /\ i \in 1..audio.n
      BY <2>1, <3>1
    <3>3. ringsOut[1][i][1] = Due(time + i)
      BY <2>4, <2>5, <3>2
    <3>4. QED
      BY <2>2, <3>3 DEF rings, Due, Cushion
  <2>6. QED
    BY <2>2, <2>3, <2>5, HeardKept
<1>6. CASE PopSilence
  <2>1. /\ audio'.pc = "idle" /\ heard' = [o \in Outs |-> <<>>]
        /\ UNCHANGED <<lost, dropped>>
        /\ underrun' = underrun + IF readyFlag THEN audio.n ELSE 0
    BY <1>6 DEF PopSilence, AudioDone, IdleAudio, losses
  <2>2. heard'[1] = <<>> /\ heard' \in [Outs -> Seq(Sounds)]
    BY <1>2, <2>1
  <2>3. HeardIsDue' /\ FoundIsDue'
    BY <2>1, <2>2 DEF HeardIsDue, FoundIsDue
  <2>4. QED
    BY <2>1, <2>2, <2>3 DEF HeardInv, Sounds
<1>7. CASE PopChannel
  <2> DEFINE o == audio.ch
             old == [i \in 1..audio.n |-> Stale]
  <2>1. /\ audio.pc = "pop" /\ o \in Outs /\ audio.n \in Nat /\ Up
        /\ heard' = [heard EXCEPT ![o] = Read(ringsOut[o], audio.n, old)]
        /\ ringsOut' = [ringsOut EXCEPT ![o] = Left(ringsOut[o], audio.n)]
        /\ UNCHANGED <<lost, dropped, underrun>>
    BY <1>1, <1>7 DEF PopChannel, DataInv, Channels, losses, IInv, UsersFindRings
  <2>2. ringsOut \in [Outs -> Seq(Moments)]
    BY <2>1, RingsThere DEF DataInv
  <2>3. Read(ringsOut[o], audio.n, old) \in Seq(Sounds)
        /\ Len(Read(ringsOut[o], audio.n, old)) = audio.n
    <3>1. \A m \in Moments : m \in Sounds
      BY Numbers DEF Moments, Sounds, Instants
    <3>2. Stale \in Sounds
      BY DEF Stale, Sounds
    <3>3. \A i \in 1..Len(ringsOut[o]) : ringsOut[o][i] \in Sounds
      BY <2>1, <2>2, <3>1, ElementOfSeq
    <3>4. Len(ringsOut[o]) \in Nat
      BY <2>1, <2>2, LenProperties
    <3>5. old \in [1..audio.n -> Sounds]
      BY <3>2
    <3> HIDE DEF o, old
    <3>6. Read(ringsOut[o], audio.n, old) \in [1..audio.n -> Sounds]
      BY <2>1, <3>3, <3>4, <3>5 DEF Read
    <3>7. QED
      BY <2>1, <3>6, FunctionIsSeq
  <2>4. End' = time + audio.n /\ ~(audio'.pc = "pop" /\ audio'.ch = 1)
    <3>1. CASE o = NumOuts
      <4>1. audio'.pc = "idle" /\ time' = time + audio.n
        BY <1>7, <3>1 DEF PopChannel, AudioDone, IdleAudio
      <4>2. QED
        BY <1>1, <2>1, <4>1 DEF End
    <3>2. CASE o # NumOuts
      <4>1. /\ audio'.pc = "pop" /\ audio'.n = audio.n /\ audio'.ch = o + 1
            /\ time' = time
        BY <1>7, <2>1, <3>2 DEF PopChannel, IInv, ControlTypes
      <4>2. audio'.ch > 1 /\ audio'.ch # 1
        BY <2>1, <4>1, Numbers DEF Outs
      <4>3. QED
        BY <4>1, <4>2 DEF End
    <3>3. QED
      BY <3>1, <3>2
  <2> HIDE DEF o
  <2>5. heard' \in [Outs -> Seq(Sounds)]
    BY <1>2, <2>1, <2>3
  <2>6. ASSUME underrun = 0, ~dropped PROVE HeardIsDue'
    <3>1. CASE o = 1
      <4>1. heard'[1] = Read(ringsOut[1], audio.n, old) /\ Len(heard'[1]) = audio.n
        BY <1>2, <2>1, <2>3, <3>1
      <4>2. audio.n <= Len(ringsOut[1]) /\ Len(ringsOut[1]) \in Nat
        <5>1. Len(ringsOut[1]) \in Nat
          BY <1>2, <2>2, LenProperties
        <5>2. QED
          BY <2>1, <3>1, <5>1 DEF o, DataInv, FrontFound
      <4>3. \A i \in 1..audio.n : heard'[1][i] = ringsOut[1][i]
        BY <2>1, <4>1, <4>2 DEF Read
      <4>4. \A i \in 1..audio.n : ringsOut[1][i][1] = Due(time + i)
        BY <2>1, <2>6, <3>1 DEF o, HeardInv, FoundIsDue
      <4>5. \A i \in 1..audio.n : time + i = End' - audio.n + i
        BY <1>1, <2>1, <2>4
      <4>6. \A i \in 1..Len(heard'[1]) : heard'[1][i][1] = Due(End' - Len(heard'[1]) + i)
        BY <4>1, <4>3, <4>4, <4>5
      <4>7. QED
        BY <4>6 DEF HeardIsDue, Due, Cushion
    <3>2. CASE o # 1
      <4>1. heard'[1] = heard[1]
        BY <1>2, <2>1, <3>2
      <4>2. End = time + audio.n
        BY <2>1, <3>2, Numbers DEF o, End, Outs
      <4>3. \A i \in 1..Len(heard[1]) : heard[1][i][1] = Due(End - Len(heard[1]) + i)
        BY <2>6 DEF HeardInv, HeardIsDue
      <4>4. \A i \in 1..Len(heard'[1]) : heard'[1][i][1] = Due(End' - Len(heard'[1]) + i)
        BY <2>4, <4>1, <4>2, <4>3
      <4>5. QED
        BY <4>4 DEF HeardIsDue, Due, Cushion
    <3>3. QED
      BY <3>1, <3>2
  <2>7. FoundIsDue'
    BY <2>4 DEF FoundIsDue
  <2>8. QED
    BY <2>1, <2>5, <2>6, <2>7 DEF HeardInv, Sounds
<1>8. QED
  BY <1>3, <1>4, <1>5, <1>6, <1>7 DEF AudioStep

\* The pump only appends to the output rings.
LEMMA PumpHeard ==
    ASSUME IInv, DataInv, HeardInv, PumpStep
    PROVE  HeardInv'
<1>1. UNCHANGED <<audio, heard, time, underrun>>
  BY DEF PumpStep, PumpEnd, PumpTake, PumpRead, Launch, LaunchFails, PumpFails, PumpWrite
<1>2. End' = End
  BY <1>1 DEF End
<1>3. CASE PumpEnd \/ PumpTake \/ PumpRead \/ Launch \/ LaunchFails \/ PumpFails
  <2>1. UNCHANGED <<ringsOut, lost, dropped>>
    BY <1>3 DEF PumpEnd, PumpTake, PumpRead, Launch, LaunchFails, PumpFails, rings, losses
  <2>2. FoundIsDue => FoundIsDue'
    BY <1>1, <2>1 DEF FoundIsDue, Due, Cushion
  <2>3. QED
    BY <1>1, <1>2, <2>1, <2>2, HeardKept
<1>4. CASE PumpWrite
  <2>1. /\ pump.pc = "write" /\ pump.ch \in Outs /\ Up
        /\ ringsOut' = [ringsOut EXCEPT ![pump.ch] = Write(ringsOut[pump.ch], pumpOut)]
        /\ lost' = lost + IF pump.ch = 1 THEN Excess(ringsOut[1], pumpOut) ELSE 0
        /\ dropped' = (dropped \/ Excess(ringsOut[pump.ch], pumpOut) > 0)
    BY <1>4 DEF PumpWrite, DataInv, Channels, IInv, UsersFindRings
  <2>2. lost \in Nat
    BY TimeFacts
  <2>3. lost' > 0 => dropped'
    <3> DEFINE e == Excess(ringsOut[1], pumpOut)
    <3>1. Len(ringsOut[1]) \in Nat /\ Len(pumpOut) \in Nat
      <4>1. ringsOut[1] \in Seq(Moments)
        BY <2>1, RingsThere, Numbers DEF DataInv
      <4>2. pumpOut \in Seq(Moments)
        BY Numbers, FunctionIsSeq DEF DataInv, Values
      <4>3. QED
        BY <4>1, <4>2, LenProperties
    <3>2. e \in Nat
      BY <3>1, ExcessType
    <3>3. /\ lost' = lost + IF pump.ch = 1 THEN e ELSE 0
          /\ pump.ch = 1 => dropped' = (dropped \/ e > 0)
      BY <2>1
    <3> HIDE DEF e
    <3>4. lost > 0 => dropped
      BY DEF HeardInv
    <3>5. CASE pump.ch = 1
      <4>1. lost' = lost + e /\ dropped' = (dropped \/ e > 0)
        BY <3>3, <3>5
      <4>2. lost + e > 0 => lost > 0 \/ e > 0
        BY <2>2, <3>2
      <4>3. QED
        BY <3>4, <4>1, <4>2
    <3>6. CASE pump.ch # 1
      <4>1. lost' = lost
        BY <2>2, <3>3, <3>6
      <4>2. dropped => dropped'
        BY <2>1
      <4>3. QED
        BY <3>4, <4>1, <4>2
    <3>7. QED
      BY <3>5, <3>6
  <2>4. dropped => dropped'
    BY <2>1
  <2>5. FoundIsDue => FoundIsDue'
    <3>1. SUFFICES ASSUME FoundIsDue, audio.pc = "pop", audio.ch = 1, NEW i \in 1..audio.n
                   PROVE  ringsOut'[1][i][1] = Due(time + i)'
      BY <1>1 DEF FoundIsDue
    <3>2. ringsOut[1][i][1] = Due(time + i)
      BY <3>1 DEF FoundIsDue
    <3>3. ringsOut'[1][i] = ringsOut[1][i]
      <4>1. CASE pump.ch = 1
        <5>1. /\ pumpOut \in Seq(Moments) /\ ringsOut \in [Outs -> Seq(Moments)]
              /\ Len(ringsOut[1]) <= RingCapacity
          BY <2>1, RingsThere, Numbers, FunctionIsSeq DEF DataInv, Values, Capacity, Up
        <5>2. ringsOut'[1] = Write(ringsOut[1], pumpOut) /\ ringsOut[1] \in Seq(Moments)
          BY <2>1, <4>1, <5>1, Numbers
        <5>3. audio.n \in Nat /\ audio.n <= Len(ringsOut[1]) /\ Len(ringsOut[1]) \in Nat
          <6>1. audio.n \in Nat /\ Len(ringsOut[1]) \in Nat
            BY <3>1, <5>2, TimeFacts, LenProperties
          <6>2. QED
            BY <3>1, <6>1 DEF DataInv, FrontFound
        <5>4. i \in 1..Len(ringsOut[1])
          BY <5>3
        <5>5. \A j \in 1..Len(ringsOut[1]) : Write(ringsOut[1], pumpOut)[j] = ringsOut[1][j]
          BY <5>1, <5>2, WriteFacts
        <5>6. QED
          BY <5>2, <5>4, <5>5
      <4>2. CASE pump.ch # 1
        BY <2>1, <4>2
      <4>3. QED
        BY <4>1, <4>2
    <3>4. QED
      BY <1>1, <3>2, <3>3 DEF Due, Cushion
  <2>6. HeardIsDue => HeardIsDue'
    BY <1>1, <1>2 DEF HeardIsDue, Due, Cushion
  <2>7. QED
    BY <1>1, <2>3, <2>4, <2>5, <2>6 DEF HeardInv, Sounds
<1>5. QED
  BY <1>3, <1>4 DEF PumpStep

LEMMA OwnerHeard ==
    ASSUME IInv, HeardInv,
           \/ OwnerStep
           \/ \E op \in {"prepare", "release"}, on \in BOOLEAN : Call(op, on)
           \/ \E on \in BOOLEAN : setProcessingEnabled(on)
    PROVE  HeardInv'
<1>1. CASE Rebuild
  <2>1. /\ audio'.pc # "pop" /\ heard' = [o \in Outs |-> <<>>] /\ lost' = 0
    BY <1>1 DEF Rebuild, OwnerGo, IInv, LockHeld
  <2>2. heard'[1] = <<>> /\ heard' \in [Outs -> Seq(Sounds)]
    BY <2>1, Numbers
  <2>3. HeardIsDue' /\ FoundIsDue'
    BY <2>1, <2>2 DEF HeardIsDue, FoundIsDue
  <2>4. QED
    BY <2>1, <2>2, <2>3 DEF HeardInv, Sounds
<1>2. CASE ClearRings
  <2>1. /\ audio.pc # "pop" /\ UNCHANGED <<audio, heard, time, lost, dropped, underrun>>
    BY <1>2 DEF ClearRings, OwnerGo, IInv, LockHeld, losses
  <2>2. End' = End /\ FoundIsDue'
    BY <2>1 DEF End, FoundIsDue
  <2>3. QED
    BY <2>1, <2>2, HeardKept
<1>3. CASE \/ Release \/ Join \/ Kill \/ BackendFails \/ RaiseReady \/ Unlock
           \/ \E op \in {"prepare", "release"}, on \in BOOLEAN : Call(op, on)
           \/ \E on \in BOOLEAN : setProcessingEnabled(on)
  <2>1. UNCHANGED <<audio, ringsOut, heard, time, lost, dropped, underrun>>
    BY <1>3 DEF Release, Join, Kill, BackendFails, RaiseReady, Unlock, Call,
                setProcessingEnabled, rings, losses
  <2>2. End' = End /\ (FoundIsDue => FoundIsDue')
    BY <2>1 DEF End, FoundIsDue, Due, Cushion
  <2>3. QED
    BY <2>1, <2>2, HeardKept
<1>4. QED
  BY <1>1, <1>2, <1>3 DEF OwnerStep

LEMMA HeardStep == IInv /\ DataInv /\ LedgerInv /\ HeardInv /\ [Next]_vars => HeardInv'
<1> SUFFICES ASSUME IInv, DataInv, LedgerInv, HeardInv, [Next]_vars PROVE HeardInv'
  OBVIOUS
<1>1. ASSUME UNCHANGED vars PROVE HeardInv'
  <2>1. UNCHANGED <<audio, ringsOut, heard, time, lost, dropped, underrun>>
    BY <1>1 DEF vars
  <2>2. End' = End /\ (FoundIsDue => FoundIsDue')
    BY <2>1 DEF End, FoundIsDue, Due, Cushion
  <2>3. QED
    BY <2>1, <2>2, HeardKept
<1>2. QED
  BY <1>1, AudioHeard, PumpHeard, OwnerHeard DEF Next

\* While nothing went wrong the front channel is heard exactly the cushion late;
\* ConstantLatency, which says so of every channel, is refuted by a run.
THEOREM FrontHeardOnTime == Spec => []FrontOnTime
<1>1. Init => HeardInv
  BY Numbers DEF Init, HeardInv, FoundIsDue, HeardIsDue, IdleAudio
<1>2. IInv /\ DataInv /\ HeardInv => FrontOnTime
  <2> SUFFICES ASSUME IInv, DataInv, HeardInv, audio.pc = "idle", underrun = 0, ~dropped,
                      NEW i \in 1..Len(heard[1])
               PROVE  heard[1][i][1] = LET t == time - Len(heard[1]) + i - Cushion
                                       IN  IF t > 0 THEN t ELSE 0
    BY DEF FrontOnTime
  <2>1. heard[1][i][1] = Due(End - Len(heard[1]) + i)
    BY DEF HeardInv, HeardIsDue
  <2>2. Len(heard[1]) \in Nat /\ time \in Nat /\ Cushion \in Nat
    BY TimeFacts, RingSizes, Numbers, LenProperties DEF HeardInv
  <2>3. End = time
    BY <2>2 DEF End
  <2>4. (End - Len(heard[1]) + i) - Cushion = time - Len(heard[1]) + i - Cushion
    BY <2>2, <2>3
  <2>5. QED
    BY <2>1, <2>4 DEF Due
<1>3. QED
  BY <1>1, <1>2, HeardStep, Invariance, DataInvariance, LedgerInvariance, PTL DEF Spec
===============================================================================
