# spatcore: TLA+ models and proofs

spatcore is the core of a spatial-audio processor: wave-field-synthesis renderers,
reverb and effects engines, a control plane (OSC and MCP) and device controllers, written
in C++ on JUCE. What makes it hard is not the arithmetic but the threads around it: an
audio callback that must never block hands samples to worker threads through lock-free
structures, while a control thread starts, stops and reconfigures everything under them.
These modules model that part, one module per component; TLC checks them on small
instances, and TLAPS proves the central facts for every value of the constants.

Contents: 1 the system; 2 modules and code; 3 what is checked; 4 what is proved; 5 where
code and comments disagree; 6 what is not modelled; 7 plan.

## 1. The system

### Threads

| thread | runs | never does |
| --- | --- | --- |
| audio callback | `processBlock` of the renderers, pushes into and pops from rings | block |
| WFS workers | one `InputBufferProcessor` or `OutputBufferProcessor` per channel | |
| reverb feed, reverb engine | `ReverbFeedThread`, `ReverbEngine::run` | |
| pool workers | item functions of `AudioParallelFor` and `GpuHostWorkPool` | |
| GPU pump | `GpuAsyncPipelineT::run`: one synchronous backend call per block | touch the audio thread |
| control (message and 50 Hz timer) | setters, `prepare`, `releaseResources` | run in the audio callback |
| effects driver | `EffectsEngine::run`: batches of the effects engine | touch a return ring the callback holds |
| OSC accept thread, one thread per TCP client, datagram thread | `OSCTCPReceiver`, `OSCReceiverWithSenderIP` | apply a message: they only queue it |
| HTTP pool | `MCPDispatcher::handleToolsCall` | run a tool: it hops to the message thread |

### Inventory

Each part with the state it keeps, its operations, what it interacts with, where it is
hard and what makes it correct. The status of each is in `PROJECT.json` and section 6.

- **Triple buffer** (`rt/RtTripleBuffer.h`). Three slots; one atomic byte with the index of the
  slot on offer and a dirty bit. `publish` (writer), `acquire` and `hasPending` (reader).
  Hard: the writer copies a snapshot non-atomically while the reader holds another. Correct:
  the slots are never shared; `acquire` returns the value published last, whole.
- **Ring buffer** (`rt/LockFreeRingBuffer.h`). A sample array, a position per side. `write`,
  `read`, `getAvailableData`, `reset`. Hard: both copies run at once, each bounded by an old
  reading of the other position, across a seam. Correct: it is a FIFO, whole and in order.
- **Fork-join pools** (`rt/AudioParallelFor.h`, `gpu/GpuHostWorkPool.h`). A published function and
  count, a claim counter, a completion count, condition variables. `prepare`, `parallelFor`,
  `shutdown`. Hard: a straggler of one call meets the next; sleeping workers; a re-prepare.
  Correct: each item runs once, in its own call, before the call returns; shutdown ends.
- **GPU pipeline** (`gpu/GpuAsyncPipeline.h`) and its owners (`wfs/NativeGpu*Algorithm.h`,
  `reverb/Reverb*AlgorithmGPU.h`). A ring per channel each way, a pump thread, `readyFlag`,
  `pumpFailed`, underrun count; the owner's `ready` and a spin lock the audio thread only
  tries. Hard: two threads move blocks channel by channel; a backend call may stall or fail;
  release comes at any time. Correct: constant latency, aligned channels, rings never
  destroyed under a user, failure noticed, prepare and release end.
- **Reverb engine** (`reverb/ReverbEngine.h`). Node rings, the live algorithm, request flags,
  retained parameters, a fade state machine. Setters on the control thread, `run` on its own.
  Hard: requests land at any point of a fade; a GPU backend may not get ready. Correct: the
  engine replaces an instance only in silence, silence ends, no request is lost, the live
  instance has the newest choices or is the CPU's in their stead, and the status says so.
- **Shared input ring and reverb feed** (`rt/SharedInputRingBuffer.h`, `reverb/ReverbFeedThread.h`).
  An overwriting ring with many readers: a running total and a position, stored in this
  order; `dataReady`. Hard: laps, and signals that arrive while a batch is handled. Correct:
  a lapped reader knows it; no data waits for ever.
- **Effects engine** (`effects/`). A cursor and a running total per source, a return ring per
  effect, `ready` and a spin lock the audio thread only tries, `dataReady`. `prepare`,
  `release` (message thread), `pullReturn`, `notifyInputAvailable` (callback), `run` (driver).
  Hard: the driver may be late by any number of blocks and then makes several up in one
  wake, skips a backlog or resyncs after a lap, while the callback writes source after
  source; a rebuild comes at any time. Correct: nobody is inside what a rebuild frees, the
  return rings never cut a block, no wake-up is lost, no source is left behind the others.
- **WFS workers** (`wfs/InputBufferProcessor.h` and others). A ring in and rings out per channel,
  `samplesAvailable`. Hard: that counter is stored by both sides. Correct: a pushed block is
  processed without waiting for the next one.
- **OSC input** (`OSCTCPReceiver`, `OSCReceiverWithSenderIP`, `OSCIngestQueue`,
  `TrackingIngestQueue` in `control/osc/`). A client list with a limit, a thread per client; a
  map of the newest message per parameter and a FIFO for the rest, both bounded, drained by
  the message thread with a budget; halves of tracking samples merged per tracker. Hard: a
  connection accepted while the server stops; pushes in the midst of a drain; limits; two
  forms of an address that set the same parameter by two ways. Correct: no client thread
  outlives its owner, places come free, and the newest accepted message of each form of a
  parameter is applied.
- **OSC output** (`OSCRateLimiter`). A queue per target and one for all, one clock per target,
  an interval that may be changed. Correct: no target is sent to twice within the interval.
- **MCP dispatch and confirmation** (`control/mcp/`). Tiers, tokens with expiry, two operator
  windows, a hop to the message thread with a timeout, a bounded buffer of change records.
  Hard: `evaluate` takes its lock once per question; the same token on two threads; a handler
  that runs after its caller gave up. Correct: a token lets one call run, the one it was
  issued for; what the client is told is not contradicted by what happened.
- **Touch-panel registry** (`controllers/touch/`). Lock files shared by processes. Correct: a
  panel has at most one owner.
- **State tree and persistence**, **device input and output**, **DSP, binaural, GPU kernels**,
  **user interface, code generation**: message-thread trees, wrappers, floating-point code.

Parts interact through shared atomics (pools, buffers), through rings (audio thread to
engine to pump), through retained state and request flags (control thread to engine), and
through locks held by the owner and tried by the audio thread.

## 2. Modules and code

| module | models | state and actions |
| --- | --- | --- |
| `ForkJoin` | the promise of a pool | `Start`, `Run`, `Return`; liveness of a call |
| `AudioParallelFor` | `rt/AudioParallelFor.h` | one action per atomic access, critical section, wait or item call; `pc` per thread, `asleep` for condition variables |
| `GpuHostWorkPool` | `gpu/GpuHostWorkPool.h` | the same grain; `gen` and `myGen` are the generation counter and each worker's copy |
| `LatestValue` | an atomic register | `Publish`, and an acquire in two steps |
| `RtTripleBuffer` | `rt/RtTripleBuffer.h` | the copy is two steps with a torn slot between; the exchange is one |
| `BoundedFifo` | the promise of the ring | a put or take is a call and a completion |
| `LockFreeRingBuffer` | `rt/LockFreeRingBuffer.h` | load of the other position, one step per sample, store of the own position |
| `GpuAsyncPipeline` | `gpu/GpuAsyncPipeline.h`, `wfs/NativeGpuWfsAlgorithm.h` | one action per ring access, flag and lock operation; audio, pump and owner each have a program counter |
| `SharedInputRingBuffer` | `rt/SharedInputRingBuffer.h` | the two stores of a write; `getAvailableAt` of a cursor |
| `EffectsEngine` (extends it) | `effects/EffectsEngine.h`, batches of `EffectsEngineCore.h` | callback, driver and owner with a place each; one step per source and loop, two per write and resync; a return ring is its fill |
| `OSCTCPReceiver` | `control/osc/OSCTCPReceiver.cpp` | owner with its destructor, accept thread and client threads; `clientsLock` by who stands inside it; clients are stopped one after another |
| `OSCIngestQueue`, `TrackingIngestQueue` | the files of that name | `Push` and the drain item by item; a message is its parameter, its form and a version, one count for all pushes |
| `OSCRateLimiter` | `control/osc/OSCRateLimiter.cpp` | queues of keys, the interval in force, time since the last send per target |
| `OscControl` | the four composed | sockets push, the message thread drains, dispatches and queues feedback |
| `MCPTierEnforcement` | `control/mcp/MCPTierEnforcement.cpp` | one step per question of `evaluate`; a window is closed, open or lapsed |
| `MCPDispatcher` (extends it) | `handleToolsCall` of `control/mcp/MCPDispatcher.cpp`, `MCPChangeRecords.cpp` | request threads, the message queue, records |
| `ReverbEngine` | switching in `reverb/ReverbEngine.h` | one action per access to shared state or critical section; audio is the fade gain; an instance is what it was created for and what it runs on |

`MC*` modules are the TLC instances, `*Proofs` modules hold the theorems. In every
module names are the source's where TLA+ allows it, definitions marked `Mutant` are
plausible bugs that no action uses, and variables marked `history` exist for properties only.

Conventions. C++ atomics that are read or written with acquire, release or stronger order
are single steps. Plain memory another thread may see is copied piecewise (triple buffer,
ring) or has a property that says it is not touched at once (`NoFunctionRace`,
`RingsHeld`). A mutex section that stores one flag is one step; the notify that follows it
outside the lock is another. A condition-variable wait is: test and leave, or fall asleep;
a sleeper is woken by a notify or, at any time, by `SpuriousWake`.

`GpuAsyncPipeline` uses a ring as an atomic FIFO, which `LockFreeRingBuffer` is proved to
implement: a put accepts at least what fitted when it was called, and the model's put and
take stand for the moment the position is stored. A sample is the instant it was captured
at and a backend output is the tuple of instants it is mixed from, so that misalignment
and repetition are visible. `juce::Thread::wait (50)` is the pump standing in front of a
short ring. `stopThread (4000)` is a join that may kill a pump held by a backend call.

`EffectsEngine` counts samples and leaves out what is in them. The pool's sweep is one step:
`AudioParallelFor` is shown to return when every item has run. The order in which the
callback writes its sources is the row order, which is external; both sides of the ring
are split at each atomic. `stopThread (2000)` is a join; its time-out is an assertion in the
code. In `MCPDispatcher` time is a lapse that may happen at any moment, and the time-out of
a call may come at any moment before its handler has ended. A tool and its arguments are one
value, so a token for other arguments is a token for another value. Wording, listeners and
notifications are left out. In `OscControl` a version number stands for the value of a
parameter, and the application is whatever may apply a message and queue feedback for it.
Versions count all pushes, so that the two forms of a parameter can be told by age;
`newest` and `applied` follow each form by itself and `value` the parameter. A client that is
served while the receiver's members are destroyed calls a dead object: the model lets that
call do anything a packet does, and says nothing of what the machine would.

In `ReverbEngine` the backend's `prepare` is a step of its own, outside every lock as in the
code, and may fail: the instance then runs on the CPU and `gpuStatus` says `fallback`. The
model is of a build with native GPU backends (`WFS_GPU_NATIVE`); without, every instance
runs on the CPU and no status is kept. `setAlgorithm` puts in an instance the engine did
not build, at any gain; nothing is known of it (`NoAlgo`).

## 3. What is checked

All passing runs check deadlock except `EffectsEngine`, whose callbacks are counted and end.

| run | instance | distinct states | shows |
| --- | --- | --- | --- |
| `AudioParallelFor` | 2 workers, calls of 1-3 items, `MaxClaim` 5 | 32,561 | exactly-once items, return after all, no race on the function, no lost wake-up, shutdown ends |
| `GpuHostWorkPool` | 2 workers, 1-3 items, `MaxGen` 2 | 19,402 | quiescence barrier, barrier count, exactly-once, shutdown ends |
| `RtExchange` | ring of 4 slots, 2 sample values, bursts of 1-4; triple buffer with 3 values | 824,355 | disjoint copies, standing answers, FIFO; stable reference, latest value |
| `GpuAsyncPipeline` | 2 + 2 channels, block 2, depth 1, 1 spare block, host calls of 1 or 2, `MaxTime` 5 | 146,352 | rings outlive users, latency ledger, failure seen, calls end |
| `ReverbEngine` | 2 types, 2 devices, 2 impulse responses, fade of 2 blocks | 564,844 | replacement in silence only, no gain jump, newest IR, newest device or a reported fall-back, silence ends |
| `OscControl` | 3 peers for 2 places, 2 parameters in 2 forms, up to 4 pushes, queues of 1, budget 2, 2 trackers, 2 targets, 2 intervals | 72,104 | owned handlers, newest version applied, rate held, places reclaimed |
| `MCPDispatcher` | 3 requests on 2 threads, a call of each tier and an unknown one, 3 operator moves, 1 record | 2,045,587 | token spent once, answers true |
| `EffectsEngine` | 2 sources, 1 effect, block 1, rings of 5, cushion 1, up to 6 callbacks | 270,900 | rebuild alone, returns fit, no lost wake-up |
| `ReverbEngineLostIR`, `GpuAsyncPipelineSkew`, `EffectsEngineCreep`, `OscControlLateClient` | as the runs above; the third over six callbacks, the last with one peer and one parameter | stop at a violation | the findings of section 5 |

Why the bounds are enough. *Pools*: two workers give a straggler, a sleeper and the caller
at once, and three items let one thread finish an item while the others hold one each.
`MaxClaim` stops a re-prepare, never a call, once the claim index is high, and `MaxGen`
bounds generations between prepares, so that a re-prepare meets a used counter. *Triple
buffer*: three values tell the three slots apart; no other bound. It shares a run with the
ring and nothing else: a behaviour is one of the one or one of the other. *Ring*: bursts of four in
a ring that holds three are cut, and every position is a start, so both copies cross the
seam; two sample values distinguish a stale sample from a fresh one. *Pipeline*: two
channels give a front ring and a later one; rings of three samples and blocks of two make
overflow and underrun occur on both sides within `MaxTime`; host calls shorter than the
block leave partial blocks in the rings. `SpareBlocks` is 8 in the code; it is 1 here to bring the full
ring within reach, and the proof is for any. *Reverb engine*: one other type besides IR is
enough for a switch away and back; two devices and two impulse responses tell old from new.
*OSC*: three peers for two places make the limit bite and let a stop find two clients, one
of which keeps running while the other is stopped; queues of one entry are full at the second
push, and the two forms of a parameter meet in the map and the FIFO; four pushes of all forms
are enough for a long form that overtakes a younger short one to be followed by another of
each. The initial states of `MCOscControl` each grant one part of the path a larger quota than
their product would allow, and a part without a quota stands still.
*MCP*: three requests are a first attempt and two that present its token at once; at most one
is for a call that needs no consent. Capacity 1 makes the second record evict the first.
*Effects*: a ring of five blocks is lapped and a backlog of two is exceeded within six
callbacks; `returnRingBlocks` 5 is the smallest depth above the least that `prepare` allows,
where the last block would not fit. Rebuilds in the midst of the callbacks are explored
over three of them, a late driver over six.

The properties worth knowing:

- `ImplementsForkJoin` (both pools), `ImplementsLatestValue`, `ImplementsFifo`: refinement of
  the abstract module, under a mapping given by `INSTANCE`. For the pools it includes that a
  call always returns.
- `NoLostWakeup`, `ShutdownEnds`, `BarrierCountsWorkers`, `WorkersQuiescent`: the two wake-up
  protocols and the generation barrier.
- `LatencyLedger`: samples between host and host on the front channel are the cushion, plus
  every sample of an underrun, minus every sample a full ring dropped; and while nothing was
  dropped they are the last samples queued, each once, in order. So an underrun lengthens
  the latency for good (the header's "constant" holds only until the first one).
- `FailureSeen`, `CallEnds`, `RingsHeld`: failure and release, whatever the pump is doing.
- `NoStaleIR`, `NoStaleDevice`, `SwitchAtSilence`, `SilenceEnds`: the fade protocol. `NoStaleDevice`
  relates three things: the device chosen last, the one the live instance was created for, and
  the one it runs on, which is the CPU if the GPU did not get ready, as the status then says.
- `LatestSurvives`: whatever is coalesced, dropped at a limit, merged or left by a budget, once
  nothing of a form waits the application has the newest version of it a queue accepted. Of a
  parameter, which two forms may set, it promises less: it keeps no version older than the
  newest of a form, but for a short form that an older long form was applied after
  (`Overtaken`, section 5).
- `HandlersOwned`, `SlotsReclaimed`: client threads across a stop that races an accept, across the
  destructor, and after their peer is gone. A client thread that runs is always in the list or
  in the accept thread's hand, and none is left when the receiver is gone. That a client finds
  its owner's members alive is not promised, and `OscControlLateClient` shows why.
- `TokenSpentOnce`, `AnswersTrue`: confirmation and time-out. A tier-3 call whose gate lapses
  between the two looks of `evaluate` is offered a token, which the comment there rules out.
  Of a call that timed out `AnswersTrue` says that it runs at most once, and promises no record.
- `ReturnsFit`: lap test, gate and backlog skip together bound what a late driver makes up.

Fairness. The operating system runs a thread that can run: weak fairness on the steps of
the pool caller inside a call and of each worker; on the control thread's steps inside a
setter and on the reverb engine's steps (its rings keep being fed); on the pipeline's
audio, pump and owner steps (the device callback keeps calling; the pump wakes at the
latest after 50 ms; a backend call ends or fails); on the effects engine's driver, which looks
at its flag every millisecond, on its callback's steps within a callback and on the owner's
within a rebuild; and in `OscControl` on the accept thread and the client threads, whose waits
have time-outs. `MCPDispatcher` states none: its properties are safety. None on making a call, on enabling
or disabling processing, on a spurious wake-up or on killing a thread in preference to
its end. Nothing assumes strong fairness.

## 4. What is proved

With TLAPS, for every value of the constants that meets the named assumptions.

| module | theorems | assumptions |
| --- | --- | --- |
| `AudioParallelForProofs` | `Invariance`, `TypeCorrect`, `FunctionNotRaced`, `ExactlyOnce`, `WakeupsArrive` | `PoolAssumption`: finite set of workers, caller not among them |
| `GpuHostWorkPoolProofs` | `Invariance`, `TypeCorrect`, `BarrierExact`, `PayloadNotRaced`, `ExactlyOnce`, `WakeupsArrive` | `PoolAssumption`, as above |
| `RtProofs` (ring) | `Invariance`, `TypeCorrect`, `CopiesApart`, `AnswersStand`, `RingIsFifo` | `RingAssumption`: at least one slot |
| `RtProofs` (triple buffer) | `BufferInvariance`, `BufferTypeCorrect`, `IndicesPermuted`, `PendingStays`, `HeldIsStable`, `LatestWins` | `BufferAssumption`: a torn slot is not a value |
| `GpuAsyncPipelineProofs` | `Invariance`, `TypeCorrect`, `RingsOutliveUsers`, `LedgerBalances`, `FrontHeardOnTime` | `PipelineAssumption`: a channel each way, a block, a cushion, a spare block; a host call is at most a block |
| `ReverbEngineProofs` | `Invariance`, `TypeCorrect`, `NoJump`, `LoadsSurvive`, `DevicesSurvive`, `SwitchesSilently` | `ReverbAssumption`: a fade of at least a block |
| `EffectsEngineProofs` | `LockHolds`, `TypeCorrect`, `RebuildsAlone`, `ReturnsNeverCut` | `EffectsAssumption`: a source and an effect, each source one row; `ReturnsDeep` for the last |
| `OscControlProofs` | `Invariance`, `TypeCorrect`, `OwnedHandlers`, `LatestKept`, `RateKept` | `OscAssumption`, `QueueAssumption`, `LimiterAssumption`, `ReceiverAssumption`, `TrackingAssumption` |
| `MCPDispatcherProofs` | `Invariance`, `TypeCorrect`, `TokensConfirmOnce`, `AnswersHold` | `DispatcherAssumption`, `TierAssumption` |

Arguments.

*Pool.* `NoFunctionRace` and the refinement follow from `IInv`: `Quiescent` (outside a
dispatch no thread holds a claim it can still serve), `ItemsAccounted` (each index below
the claim counter is finished or held by exactly one thread, and `doneCount` is the number
finished) and `CallerKnows` (what the caller has established at each point). None of the
checked properties is inductive: that the caller may return follows from a count, and a
count says something about items only if every index has one holder. `NoLostWakeup` has an
invariant of its own, `Flags`, which relates `running` and `dispatch` to the caller's
program counter.

*GPU host pool.* Its barrier is a count, so the invariant says of what: `Served` (which
workers have the generation of the dispatch under way), `Counted` (`workersRemaining` is the
cardinality of those that still have to leave), `Lifecycle` (when a worker may be anywhere
at all), and `ItemsAccounted` and `CallerKnows` as in the other pool. The refinement of `ForkJoin`
is proved step by step; `NoLostWakeup` is an invariant next to it, since it needs nothing
of the items.

*Triple buffer.* That the three indices are a permutation is nearly inductive; to get the
value right the invariant adds that the offered and held slots are whole and that the
value published last is in the offered slot if it is dirty and in the held slot if not.

*Ring.* A load of the other side's position is stale at once, but stale in one direction:
space and data seen only grow. `ViewsHold` says so, `CopiesMatch` says which samples are
stored and loaded so far; with arithmetic on positions modulo the size (`SlotValue`,
`AdvanceRead`, `AdvanceWrite`) every step of the ring is a step of `BoundedFifo` or a
stutter. `Contents`, the refinement mapping, is the slots from the read position to the
write position. (`RtProofs` extends both modules of `rt/`, hence the prefixes in `RtTripleBuffer`.)

*Pipeline.* `LockHeld` (who has the spin lock), `OwnerKnows` (after the join the pump is
gone, until it is started on new rings) and `UsersFindRings` give `RingsHeld`. The ledger needs
data: while `readyFlag` is up, or about to be raised, what is in the front rings and under
the backend, as one stream, is as long as the balance of cushion, underruns and drops, and
dated without gaps up to the last block queued (`LedgerInv`). A failing pump voids it at any
moment, also between the callback's test and its read, so that what is heard on time is
an invariant of its own (`HeardInv`): what the test found is due. `FrontHeardOnTime` is the
part of `ConstantLatency` that holds; a run refutes the rest (section 5).

*Reverb engine.* `FadeInv` ties fade state and gain to where the engine thread stands. For
`NoStaleIR` and `NoStaleDevice` the invariant (`Fresh`) follows a request through flag, test,
build and install: the live instance has the newest choice, or the instance being built
will, or a request is up or about to be raised. `Built` says what the instance under
construction was created for and runs on, and `Reported` that the status is that of the
instance, so that a GPU that does not get ready breaks neither. An instance put in by
`setAlgorithm` has no type the engine knows, and `Fresh` says nothing of it.

*Effects.* The lock: the driver runs on a prepared engine only, and the lock says who is
inside (`Alone`). The room: `Fits` bounds what may still reach a return ring before the next
pull: what it holds, the batch under way, and the lesser of two amounts. One is a backlog
and a block, because a longer backlog is skipped. The other is what the source with the
least leaves, counting the blocks the callback will write before it pulls again. The
gate looks at the sources one by one, so that a batch
is under way from the moment it can no longer fail to be (`MayPass`, `WillSkip`). A pull
leaves less than the cushion of what it saw, and what the driver has added since it
looked (`RoomAfterPull`). That no part of a block is ever in a ring (`Whole`) closes it. The
bound is `ReturnsDeep`: cushion, backlog and two blocks. The defaults (1 or 2, 2 and 8) meet it; with
one block less TLC finds a cut. `prepare` raises the depth for the cushion only, so a
configuration with a longer backlog has to raise it itself.

*OSC.* One invariant per part, which the steps of the other parts leave alone: `ReceiverInv`
(a client thread is in the list or in the accept thread's hand; places; the members go only
when no accept thread runs, so that no client joins the list after its end), `QueueInv`,
`TrackingInv` (each half of a tracker is applied, or waits, or is being applied, in its newest
version), `LimiterInv` (the clock of a target never shows more than has passed on the wire).
`QueueInv` has two layers. `Newest`: the youngest message of a source, wherever it stands, has
the newest version accepted. `AgesKept` compares the two sources of a parameter: the FIFO is
sorted by age (`Sorted`); once a source has nothing queued, what the FIFO still holds of its
parameter is younger, and what was taken from the FIFO no older (`Order`); once nothing of it
is in hand either, the parameter is no older than its newest, or has what the coalesced long
form brought last (`Settled`), which is the exception.

*MCP.* `TokenInv` follows each token from the request it was offered to, to the one that
holds it and the one that runs on it; `QueueInv` says what the message queue owes, `ToldInv`
what each answer follows from.

Only model-checked: the liveness properties and the liveness half of `ImplementsForkJoin`
(fairness and ENABLED are out of the prover's reach), and the properties that runs refute.
The proofs of the pools' refinements therefore stop at the safety part of `ForkJoin`. Only proved: that
the indices of the triple buffer are a permutation, that a true answer of `hasPending`
stands, `NoLostWakeup` of the GPU pool, and `FrontHeardOnTime`. The sequences the ring carries are
reasoned about through the library's theorems on sequences; nothing rests on induction
over data.

## 5. Where code and comments disagree

Each has a run whose counterexample is the scenario.

- `GpuAsyncPipelineSkew`: `popOutput` and the pump ask the front ring whether a block is
  there, but the other side fills the rings one after the other. A channel behind the front
  ring is read short: it plays what the destination held before, and stays late for good.
  No counter sees it. `ReverbEngine::run` asks every ring.
- `ReverbEngineLostIR`: an impulse response requested between the flag check and the store of
  `FadeNone` at the end of a fade-in waits until some later request.
- `EffectsEngineCreep`: the backlog skip moves the sources one after the other while the
  callback writes them one after the other; a source skipped before its write, when another
  was skipped after its own, keeps a block waiting and is heard a block later than the
  others. The configuration's comment says that latency never creeps.
- `OscControlLateClient`: `disconnect` empties the client list before it joins the accept
  thread, which may have a started client in hand and adds it afterwards. The header says
  that all connections are closed; this one is served on. When the receiver is destroyed
  then, the destructor's `disconnect` returns at once (`OSCTCPReceiver.cpp:45`), the members go,
  the callback and the lock before the list, and the late client may call the dead callback
  (257-260) until the end of the list stops it.

Met while modelling, without a run, though the models show them:

- *Coalesced order.* `OSCIngestQueue.cpp:243-244` drains the FIFO first and then "the coalesced
  latest values, whose order does not matter". It matters when both forms of an address are
  used for one parameter: a younger short form (`/wfs/input/7/positionX v`, which line 89 sends
  through the FIFO) is dispatched before an older long form (`/wfs/input/positionX 7 v`) leaves
  the map, and the parameter ends at the older value. `LatestSurvives` names this one
  exception, and `LatestKept` proves there is no other.
- *Records of late calls.* `MCPChangeRecords.h:57-58` says that "Tier-1-success and
  tier-2-confirmed-execution tool calls produce a record", and `MCPDispatcher.h:34-37` that
  the dispatcher emits one for undo. A call that timed out (`MCPDispatcher.cpp:597-598`) is still
  run by the lambda left in the message queue, and when it then succeeds nobody pushes its
  record: the change is made, its caller was told of an error, and undo does not know of it.
  `AnswersTrue` therefore promises nothing of the records of a timed-out call.

Smaller ones: the default of the AI toggle is off
(`MCPTierEnforcement.h:149`), the comment of its setter says on (105). A backend flag raised for
a type that is no longer current is not cleared, and every fade-in is followed by a fade-out
(`ReverbEngine.h:938`); `setIRParameters` during a rebuild reaches the instance about to be
dropped (1091). The resync of a source may leave its running total a block ahead of its
cursor, where the comment at `EffectsEngineCore.h:1137-1140` allows for behind only, and the
next batch takes it for a lap. With returns of cushion + 3 blocks, the least `prepare` allows,
a late driver overfills them (section 4, *Effects*, has the depth that suffices).

## 6. What is not modelled

The reverb engine's node rings, its parameter hand-off and its start and stop, and what
`setAlgorithm` puts in beyond the fact that it does; builds without native GPU backends; owners of
the pipeline other than the WFS renderer, and metering; diagnostics counters everywhere. The
reverb feed thread, and of the effects engine the chains, matrices, guards, clear requests and
parameter snapshots. Of the control plane: packet framing, the kill of a
client or accept thread that outlasts `stopThread (2000)`, a rate limiter without an `onSend`
callback and its rates above 1000 Hz (whose interval is 0 ms), the JSON-RPC methods other than
`tools/call`, redo, removal of records from the middle of their buffer. The touch-panel registry.
The components marked `not_modelled` in `PROJECT.json` are either in the plan below or out
of reach: floating-point signal processing, drawing, byte formats, vendor GPU calls (seen
by the pipeline as one call that may fail), device wrappers. Weak-memory effects beyond what the
acquire and release order of the code allows are not modelled; thread priorities and
workgroups only affect timing.

## 7. Plan

Order: data structures everything else rests on, then the threads built on them, then the
control plane.

1. Done: pools, triple buffer, ring, GPU pipeline, switching of the reverb engine, OSC input
   and output, MCP tools with their tiers, the effects engine over the shared ring.
2. Done: proofs of every safety invariant the passing runs check, and of the refinements of
   `LatestValue`, `BoundedFifo` and the safety part of `ForkJoin`.
3. Proofs that would come next, the safety under the liveness properties: an idle driver of the
   effects engine with a block on every source has a notification standing or coming; a
   failed pump has cleared the ready flag or is about to; a client thread whose peer is gone
   stands where it will leave.
4. Models that would come next: the reverb feed and the WFS worker with `samplesAvailable` as
   further readers of their rings; the touch-panel registry (one owner per panel); parameter
   hand-off of the reverb engine.
