--------------------------- MODULE GpuAsyncPipeline ---------------------------
(***************************************************************************)
(* The pump of gpu/GpuAsyncPipeline.h and its owner                        *)
(* wfs/NativeGpuWfsAlgorithm.h: the audio thread queues blocks of input    *)
(* and takes blocks of output, the pump thread carries them through a      *)
(* backend call, and a control thread prepares and releases the whole.     *)
(*                                                                         *)
(* Every access to a ring, a flag or the lock is one step, ring by ring.   *)
(* A ring is the FIFO that LockFreeRingBuffer implements.  A sample is the *)
(* instant it was captured at: 1, 2, ... since prepare(), 0 for silence.   *)
(* The backend is a delay-and-sum: an output sample is made of one sample  *)
(* of each input channel, and is the tuple of their instants.  The pump's  *)
(* wait (50) returns at the latest after 50 ms, so it is the pump standing *)
(* still in front of a ring that is too short, and notify() changes        *)
(* nothing.  A channel missing from a call is one the host feeds silence,  *)
(* and one it does not listen to.                                          *)
(***************************************************************************)
EXTENDS Integers, Sequences

CONSTANTS
    NumIns,        \* inputChannelCount
    NumOuts,       \* outputChannelCount
    BlockSize,     \* the pump's block
    Depth,         \* depthBlocks: the cushion of silence prepare() queues
    SpareBlocks,   \* ring space beyond the cushion, in blocks: 8 in the code
    Calls,         \* numSamples of the host's calls
    MaxTime        \* bound: samples the host processes between two prepares

ASSUME PipelineAssumption ==
    /\ NumIns \in Nat \ {0} /\ NumOuts \in Nat \ {0}
    /\ BlockSize \in Nat \ {0} /\ Depth \in Nat \ {0} /\ SpareBlocks \in Nat \ {0}
    /\ Calls \subseteq 1..BlockSize
    /\ MaxTime \in Nat /\ Calls \subseteq 1..MaxTime

Ins == 1..NumIns
Outs == 1..NumOuts
Cushion == Depth * BlockSize
RingCapacity == BlockSize * (Depth + SpareBlocks) - 1

VARIABLES
    ready,         \* NativeGpuWfsAlgorithm::ready
    enabled,       \* NativeGpuWfsAlgorithm::processingEnabledFlag
    procLock,      \* who holds NativeGpuWfsAlgorithm::procLock
    readyFlag,     \* GpuAsyncPipelineT::readyFlag
    pumpFailed,    \* GpuAsyncPipelineT::pumpFailed
    shouldExit,    \* juce::Thread's exit signal to the pump
    ringsIn,       \* the input rings, <<>> once cleared
    ringsOut,      \* the output rings, <<>> once cleared
    audio,         \* audio thread: where it stands, its numSamples, its channel
    pump,          \* pump thread: where it stands and its channel
    pumpIn,        \* the block the pump hands to the backend
    pumpOut,       \* the block the backend returned
    owner,         \* control thread: where it stands and what it was called for
    time,          \* history: samples the host has processed since prepare()
    underrun,      \* underrunCount, in samples
    lost,          \* history: samples the rings of the front channel dropped
    dropped,       \* history: some ring dropped a sample
    heard          \* history: what the last block delivered on each output

vars == <<ready, enabled, procLock, readyFlag, pumpFailed, shouldExit, ringsIn,
          ringsOut, audio, pump, pumpIn, pumpOut, owner, time, underrun, lost, dropped, heard>>

flags  == <<ready, enabled, readyFlag, pumpFailed, shouldExit>>
rings  == <<ringsIn, ringsOut>>
blocks == <<pumpIn, pumpOut>>
losses == <<lost, dropped>>

IdleAudio == [pc |-> "idle", n |-> 0, ch |-> 0]
Silent == [c \in Ins |-> 0]
Stale  == [c \in Ins |-> -1]       \* what the host's buffer held before the call
ZeroBlock(x) == [i \in 1..BlockSize |-> x]

jmin(a, b) == IF a <= b THEN a ELSE b

\* Mutant: a ring takes all it is given.
WriteWhole(ring, s) == ring \o s

\* LockFreeRingBuffer: what is kept of a write, what a read of k returns, and
\* what it leaves.  A short read leaves the tail of its destination as it was.
Write(ring, s) == ring \o SubSeq(s, 1, jmin(Len(s), RingCapacity - Len(ring)))
Excess(ring, s) == Len(s) - jmin(Len(s), RingCapacity - Len(ring))
Read(ring, k, old) == [i \in 1..k |-> IF i <= Len(ring) THEN ring[i] ELSE old[i]]
Left(ring, k) == SubSeq(ring, jmin(k, Len(ring)) + 1, Len(ring))

Init ==
    /\ ready = FALSE /\ enabled = FALSE /\ readyFlag = FALSE /\ pumpFailed = FALSE /\ shouldExit = FALSE
    /\ procLock = "free"
    /\ ringsIn = <<>> /\ ringsOut = <<>>
    /\ audio = IdleAudio
    /\ pump = [pc |-> "ended", ch |-> 0]
    /\ pumpIn = [c \in Ins |-> ZeroBlock(0)]
    /\ pumpOut = ZeroBlock(Silent)
    /\ owner = [pc |-> "idle", op |-> "release"]
    /\ time = 0 /\ underrun = 0 /\ lost = 0 /\ dropped = FALSE
    /\ heard = [o \in Outs |-> <<>>]

-------------------------------------------------------------------------------
(* The audio thread: NativeGpuWfsAlgorithm::processBlock *)

AudioGo(from, to) == audio.pc = from /\ audio' = [audio EXCEPT !.pc = to, !.ch = 1]

\* The block is over: the lock is given back.
AudioDone ==
    /\ audio' = IdleAudio
    /\ procLock' = "free"

\* Without `ready` the block is silent and nothing else happens.
ProcessBlock(n) ==
    /\ audio.pc = "idle"
    /\ ready
    /\ time + n <= MaxTime \/ ~readyFlag
    /\ audio' = [pc |-> "lock", n |-> n, ch |-> 1]
    /\ UNCHANGED <<flags, procLock, rings, pump, blocks, owner, time, underrun, losses, heard>>

TryLock ==
    /\ IF procLock = "free"
         THEN AudioGo("lock", "test") /\ procLock' = "audio"
         ELSE audio.pc = "lock" /\ audio' = IdleAudio /\ UNCHANGED procLock
    /\ UNCHANGED <<flags, rings, pump, blocks, owner, time, underrun, losses, heard>>

TestPipeline ==
    /\ enabled /\ readyFlag
    /\ AudioGo("test", "pushTest")
    /\ UNCHANGED <<flags, procLock, rings, pump, blocks, owner, time, underrun, losses, heard>>

\* Mutant: a failed pump is not passed on to the host's ready flag.
BypassKeepingReady ==
    /\ audio.pc = "test" /\ ~(enabled /\ readyFlag)
    /\ AudioDone
    /\ UNCHANGED <<flags, rings, pump, blocks, owner, time, underrun, losses, heard>>

Bypass ==
    /\ audio.pc = "test" /\ ~(enabled /\ readyFlag)
    /\ AudioDone
    /\ ready' = (ready /\ ~pumpFailed)
    /\ UNCHANGED <<enabled, readyFlag, pumpFailed, shouldExit, rings, pump, blocks, owner,
                   time, underrun, losses, heard>>

\* pushInput: nothing is queued once the pump has failed.
PushTest ==
    /\ AudioGo("pushTest", IF readyFlag THEN "push" ELSE "popTest")
    /\ UNCHANGED <<flags, procLock, rings, pump, blocks, owner, time, underrun, losses, heard>>

PushChannel ==
    LET c == audio.ch
        s == [i \in 1..audio.n |-> time + i]
    IN  /\ audio.pc = "push"
        /\ ringsIn' = [ringsIn EXCEPT ![c] = Write(@, s)]
        /\ lost' = lost + IF c = 1 THEN Excess(ringsIn[c], s) ELSE 0
        /\ dropped' = (dropped \/ Excess(ringsIn[c], s) > 0)
        /\ IF c = NumIns THEN AudioGo("push", "popTest")
                         ELSE audio' = [audio EXCEPT !.ch = c + 1]
        /\ UNCHANGED <<flags, procLock, ringsOut, pump, blocks, owner, time, underrun, heard>>

\* Mutant: popOutput takes whatever the front ring holds.
PopTestAny ==
    /\ AudioGo("popTest", IF readyFlag /\ ringsOut # <<>> /\ Len(ringsOut[1]) > 0
                            THEN "pop" ELSE "silence")
    /\ UNCHANGED <<flags, procLock, rings, pump, blocks, owner, time, underrun, losses, heard>>

\* popOutput: the front ring speaks for all.
PopTest ==
    /\ AudioGo("popTest", IF readyFlag /\ ringsOut # <<>> /\ Len(ringsOut[1]) >= audio.n
                            THEN "pop" ELSE "silence")
    /\ UNCHANGED <<flags, procLock, rings, pump, blocks, owner, time, underrun, losses, heard>>

PopSilence ==
    /\ audio.pc = "silence"
    /\ underrun' = underrun + IF readyFlag THEN audio.n ELSE 0
    /\ heard' = [o \in Outs |-> <<>>]
    /\ time' = time + audio.n
    /\ AudioDone
    /\ UNCHANGED <<flags, rings, pump, blocks, owner, losses>>

PopChannel ==
    LET o == audio.ch
    IN  /\ audio.pc = "pop"
        /\ heard' = [heard EXCEPT ![o] = Read(ringsOut[o], audio.n, [i \in 1..audio.n |-> Stale])]
        /\ ringsOut' = [ringsOut EXCEPT ![o] = Left(@, audio.n)]
        /\ IF o = NumOuts THEN AudioDone /\ time' = time + audio.n
                          ELSE audio' = [audio EXCEPT !.ch = o + 1] /\ UNCHANGED <<procLock, time>>
        /\ UNCHANGED <<flags, ringsIn, pump, blocks, owner, underrun, losses>>

-------------------------------------------------------------------------------
(* The pump thread: GpuAsyncPipelineT::run *)

PumpGo(from, to) == pump.pc = from /\ pump' = [pc |-> to, ch |-> 1]

PumpEnd ==
    /\ shouldExit
    /\ PumpGo("check", "ended")
    /\ UNCHANGED <<flags, procLock, rings, audio, blocks, owner, time, underrun, losses, heard>>

PumpTake ==
    /\ ~shouldExit
    /\ ringsIn # <<>> /\ Len(ringsIn[1]) >= BlockSize
    /\ PumpGo("check", "read")
    /\ UNCHANGED <<flags, procLock, rings, audio, blocks, owner, time, underrun, losses, heard>>

PumpRead ==
    LET c == pump.ch
    IN  /\ pump.pc = "read"
        /\ pumpIn' = [pumpIn EXCEPT ![c] = Read(ringsIn[c], BlockSize, @)]
        /\ ringsIn' = [ringsIn EXCEPT ![c] = Left(@, BlockSize)]
        /\ IF c = NumIns THEN PumpGo("read", "launch")
                         ELSE pump' = [pump EXCEPT !.ch = c + 1]
        /\ UNCHANGED <<flags, procLock, ringsOut, audio, pumpOut, owner, time, underrun,
                       losses, heard>>

\* backend->processBlock, which may take any time, ...
Launch ==
    /\ PumpGo("launch", "write")
    /\ pumpOut' = [i \in 1..BlockSize |-> [c \in Ins |-> pumpIn[c][i]]]
    /\ UNCHANGED <<flags, procLock, rings, audio, pumpIn, owner, time, underrun, losses, heard>>

\* ... or fail: the pump says so and ends.
LaunchFails ==
    /\ PumpGo("launch", "fail")
    /\ pumpFailed' = TRUE
    /\ UNCHANGED <<ready, enabled, readyFlag, shouldExit, procLock, rings, audio, blocks,
                   owner, time, underrun, losses, heard>>

PumpFails ==
    /\ PumpGo("fail", "ended")
    /\ readyFlag' = FALSE
    /\ UNCHANGED <<ready, enabled, pumpFailed, shouldExit, procLock, rings, audio, blocks,
                   owner, time, underrun, losses, heard>>

PumpWrite ==
    LET o == pump.ch
    IN  /\ pump.pc = "write"
        /\ ringsOut' = [ringsOut EXCEPT ![o] = Write(@, pumpOut)]
        /\ lost' = lost + IF o = 1 THEN Excess(ringsOut[o], pumpOut) ELSE 0
        /\ dropped' = (dropped \/ Excess(ringsOut[o], pumpOut) > 0)
        /\ IF o = NumOuts THEN PumpGo("write", "check")
                          ELSE pump' = [pump EXCEPT !.ch = o + 1]
        /\ UNCHANGED <<flags, procLock, ringsIn, audio, blocks, owner, time, underrun, heard>>

-------------------------------------------------------------------------------
(* The control thread: prepare and releaseResources, both under procLock *)

OwnerGo(from, to) == owner.pc = from /\ owner' = [owner EXCEPT !.pc = to]

\* prepare() comes with the new processingEnabled.  Taking the lock and storing
\* the two flags are one step: no block can start between.
Call(op, on) ==
    /\ owner.pc = "idle"
    /\ procLock = "free"
    /\ procLock' = "owner"
    /\ ready' = FALSE
    /\ enabled' = IF op = "prepare" THEN on ELSE enabled
    /\ owner' = [pc |-> "release", op |-> op]
    /\ UNCHANGED <<readyFlag, pumpFailed, shouldExit, rings, audio, pump, blocks, time,
                   underrun, losses, heard>>

\* Mutant: the pump is not told to exit.
ReleaseWithoutSignal ==
    /\ OwnerGo("release", IF pump.pc = "ended" THEN "clear" ELSE "join")
    /\ readyFlag' = FALSE
    /\ UNCHANGED <<ready, enabled, shouldExit, pumpFailed, procLock, rings, audio, pump, blocks, time,
                   underrun, losses, heard>>

\* pipeline.release(): the pump is told to exit if it runs, ...
Release ==
    /\ OwnerGo("release", IF pump.pc = "ended" THEN "clear" ELSE "join")
    /\ readyFlag' = FALSE
    /\ shouldExit' = (pump.pc # "ended")
    /\ UNCHANGED <<ready, enabled, pumpFailed, procLock, rings, audio, pump, blocks, time,
                   underrun, losses, heard>>

\* Mutant: the pump is told to exit and not waited for.
JoinAtOnce ==
    /\ OwnerGo("join", "clear")
    /\ UNCHANGED <<flags, procLock, rings, audio, pump, blocks, time, underrun, losses, heard>>

\* ... is waited for, ...
Join ==
    /\ pump.pc = "ended"
    /\ OwnerGo("join", "clear")
    /\ UNCHANGED <<flags, procLock, rings, audio, pump, blocks, time, underrun, losses, heard>>

\* ... is killed if a backend call keeps it longer than stopThread's 4 s, ...
Kill ==
    /\ pump.pc = "launch"
    /\ OwnerGo("join", "clear")
    /\ pump' = [pc |-> "ended", ch |-> 1]
    /\ UNCHANGED <<flags, procLock, rings, audio, blocks, time, underrun, losses, heard>>

\* ... and the rings go.
ClearRings ==
    /\ OwnerGo("clear", IF owner.op = "release" THEN "unlock" ELSE "backend")
    /\ ringsIn' = <<>>
    /\ ringsOut' = <<>>
    /\ UNCHANGED <<flags, procLock, audio, pump, blocks, time, underrun, losses, heard>>

\* No backend, or its prepare fails: prepare() returns with `ready` low.
BackendFails ==
    /\ OwnerGo("backend", "unlock")
    /\ UNCHANGED <<flags, procLock, rings, audio, pump, blocks, time, underrun, losses, heard>>

\* pipeline.prepare(): rings, cushion, pump.
Rebuild ==
    /\ OwnerGo("backend", "raise")
    /\ ringsIn' = [c \in Ins |-> <<>>]
    /\ ringsOut' = [o \in Outs |-> [i \in 1..Cushion |-> Silent]]
    /\ pumpIn' = [c \in Ins |-> ZeroBlock(0)]
    /\ pumpOut' = ZeroBlock(Silent)
    /\ pumpFailed' = FALSE
    /\ shouldExit' = FALSE
    /\ pump' = [pc |-> "check", ch |-> 1]
    /\ time' = 0 /\ underrun' = 0 /\ lost' = 0 /\ dropped' = FALSE
    /\ heard' = [o \in Outs |-> <<>>]
    /\ UNCHANGED <<ready, enabled, readyFlag, procLock, audio>>

RaiseReady ==
    /\ OwnerGo("raise", "unlock")
    /\ readyFlag' = TRUE
    /\ ready' = TRUE
    /\ UNCHANGED <<enabled, pumpFailed, shouldExit, procLock, rings, audio, pump, blocks, time,
                   underrun, losses, heard>>

Unlock ==
    /\ OwnerGo("unlock", "idle")
    /\ procLock' = "free"
    /\ UNCHANGED <<flags, rings, audio, pump, blocks, time, underrun, losses, heard>>

\* The flag is a plain bool that any thread may store at any time.
setProcessingEnabled(on) ==
    /\ enabled' = on
    /\ UNCHANGED <<ready, readyFlag, pumpFailed, shouldExit, procLock, rings, audio, pump,
                   blocks, owner, time, underrun, losses, heard>>

-------------------------------------------------------------------------------
AudioStep ==
    \/ \E n \in Calls : ProcessBlock(n)
    \/ TryLock
    \/ TestPipeline
    \/ Bypass
    \/ PushTest
    \/ PushChannel
    \/ PopTest
    \/ PopSilence
    \/ PopChannel

PumpStep ==
    \/ PumpEnd
    \/ PumpTake
    \/ PumpRead
    \/ Launch
    \/ LaunchFails
    \/ PumpFails
    \/ PumpWrite

\* Everything a call of the control thread does once it has the lock.
OwnerStep ==
    \/ Release
    \/ Join
    \/ Kill
    \/ ClearRings
    \/ BackendFails
    \/ Rebuild
    \/ RaiseReady
    \/ Unlock

Next ==
    \/ AudioStep
    \/ PumpStep
    \/ \E op \in {"prepare", "release"}, on \in BOOLEAN : Call(op, on)
    \/ \E on \in BOOLEAN : setProcessingEnabled(on)
    \/ OwnerStep

Fairness ==
    /\ WF_vars(AudioStep)
    /\ WF_vars(PumpStep)
    /\ WF_vars(OwnerStep)

Spec == Init /\ [][Next]_vars /\ Fairness

-------------------------------------------------------------------------------
(* Properties *)

Instants == 0..MaxTime

TypeOK ==
    /\ ready \in BOOLEAN /\ enabled \in BOOLEAN /\ readyFlag \in BOOLEAN /\ pumpFailed \in BOOLEAN
    /\ shouldExit \in BOOLEAN /\ dropped \in BOOLEAN
    /\ procLock \in {"free", "audio", "owner"}
    /\ audio.pc \in {"idle", "lock", "test", "pushTest", "push", "popTest", "pop", "silence"}
    /\ pump.pc \in {"check", "read", "launch", "fail", "write", "ended"}
    /\ owner.pc \in {"idle", "release", "join", "clear", "backend", "raise", "unlock"}
    /\ Len(ringsIn) \in {0, NumIns} /\ Len(ringsOut) \in {0, NumOuts}
    /\ \A c \in DOMAIN ringsIn : Len(ringsIn[c]) <= RingCapacity
    /\ \A o \in DOMAIN ringsOut : Len(ringsOut[o]) <= RingCapacity
    /\ pumpIn \in [Ins -> [1..BlockSize -> Instants]]
    /\ pumpOut \in [1..BlockSize -> [Ins -> Instants]]
    /\ time \in Instants /\ underrun \in Instants /\ lost \in Nat

\* The rings are destroyed only when nobody uses them: release() clears the two
\* vectors while the audio thread is kept out by procLock and the pump has ended.
RingsHeld ==
    (audio.pc \in {"push", "pop"} \/ pump.pc \in {"read", "launch", "fail", "write"})
    => ringsIn # <<>> /\ ringsOut # <<>>

\* The front channel between host and host: what waits in its output ring, what
\* the pump carries, what waits in its input ring.
FrontOf(s) == [i \in 1..Len(s) |-> s[i][1]]
Carried ==
    CASE pump.pc = "read" /\ pump.ch > 1  -> pumpIn[1]
      [] pump.pc \in {"launch", "fail"}    -> pumpIn[1]
      [] pump.pc = "write" /\ pump.ch = 1 -> FrontOf(pumpOut)
      [] OTHER                            -> <<>>
FrontStream == FrontOf(ringsOut[1]) \o Carried \o ringsIn[1]

\* Samples the block under way has queued on the front channel, and those of them
\* it has not yet been given samples in return for.
Queued == IF \/ audio.pc \in {"popTest", "pop", "silence"}
             \/ audio.pc = "push" /\ audio.ch > 1
            THEN audio.n ELSE 0
Owed == IF audio.pc = "pop" /\ audio.ch > 1 THEN 0 ELSE Queued

\* The latency of the front channel is the cushion, lengthened by every sample of
\* an underrun and shortened by every sample a full ring dropped; and while no
\* ring has dropped any, what is under way is the last samples queued, each once
\* and in order, whatever the two threads do between each other's steps.
LatencyLedger ==
    readyFlag =>
      LET k == Len(FrontStream)
      IN  /\ k = Cushion + underrun + Owed - lost
          /\ lost = 0 => \A i \in 1..k :
               FrontStream[i] = LET t == time + Queued - k + i IN IF t > 0 THEN t ELSE 0

\* "Pipeline depth D blocks = constant added latency ... so arrival times are
\* unchanged": as long as no block was silence-filled and no ring has dropped a
\* sample, the host hears every channel exactly D blocks late.
ConstantLatency ==
    audio.pc = "idle" /\ underrun = 0 /\ ~dropped =>
      \A o \in Outs : \A i \in 1..Len(heard[o]) : \A c \in Ins :
         heard[o][i][c] = LET t == time - Len(heard[o]) + i - Cushion IN IF t > 0 THEN t ELSE 0

\* A backend call that fails reaches the host's ready flag: some later block finds
\* the pipeline down and lowers it, unless the owner gets there first.
FailureSeen == pumpFailed ~> ~ready

\* A prepare or a release that has the lock gives it back: the pump looks at the
\* exit signal between two blocks, and a backend call ends or is cut short.
CallEnds == owner.pc = "release" ~> owner.pc = "idle"
===============================================================================
