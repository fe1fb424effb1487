----------------------------- MODULE ReverbEngine -----------------------------
(***************************************************************************)
(* Algorithm, backend and impulse-response switching in                    *)
(* reverb/ReverbEngine.h: the control thread (the 50 Hz timer) posts       *)
(* requests, the engine thread fades the wet output to silence, rebuilds   *)
(* the algorithm there and fades back in.                                  *)
(*                                                                         *)
(* One step is one access to the state the two threads share, or one       *)
(* critical section on it.  Audio is abstracted to the gain the engine     *)
(* applies: 0 is silence, Steps is full level, one step per block.         *)
(***************************************************************************)
EXTENDS Integers

CONSTANTS
    Types,       \* the algorithm types in use: IR and at least one other
    IR,          \* the type that convolves with a loaded impulse response
    NoType,      \* no algorithm type yet: -1 in the code
    Devices,     \* backend device ids
    Cpu,         \* the device id every type starts with
    Files,       \* impulse responses loadIRFile can read
    NoFile,      \* no impulse response loaded yet
    Trims,       \* the (trim, length) pairs of setIRParameters
    Trim0,       \* the pair before the first setIRParameters
    Steps        \* blocks a full fade takes: fadeSamples / internalBlockSize

ASSUME ReverbAssumption ==
    /\ IR \in Types /\ NoType \notin Types
    /\ Cpu \in Devices
    /\ NoFile \notin Files
    /\ Trim0 \in Trims
    /\ Steps \in Nat \ {0}

VARIABLES
    fadeState,   \* std::atomic<int> fadeState: "none", "out" or "in"
    fadeGain,    \* engine thread only
    currentType, \* currentAlgorithmType, written by the engine thread
    pendingType, \* pendingAlgorithmType
    irReq,       \* irChangeRequested
    backendReq,  \* irBackendChangeRequested and its FDN and SDN twins
    device,      \* irDeviceId and its twins, under deviceIdLock
    pendingIR,   \* the retained impulse response, under pendingIRMutex
    lastTrim,    \* lastIRTrimMs and lastIRLengthSec
    algo,        \* `algorithm`: what the live instance was built from
    gpuStatus,   \* reverbGpuStatus.mode: "cpu", "active" or "fallback"
    ctl,         \* control thread: where it stands and its arguments
    engPc,       \* where the engine thread stands in processBlock()
    seen,        \* what the engine read when the fade-out completed
    new          \* newAlgo, the instance under construction

vars == <<fadeState, fadeGain, currentType, pendingType, irReq, backendReq,
          device, pendingIR, lastTrim, algo, gpuStatus, ctl, engPc, seen, new>>

requests == <<pendingType, irReq, backendReq>>
retained == <<device, pendingIR, lastTrim>>
engine   == <<fadeGain, currentType, gpuStatus, engPc, seen, new>>

\* asked: the device chosen for the type when the instance was created;
\* device: the one it runs on.
NoAlgo == [type |-> NoType, asked |-> Cpu, device |-> Cpu, ir |-> NoFile, trim |-> Trim0]
Nothing == [type |-> NoType, ir |-> FALSE, backend |-> FALSE]
IdleCtl == [pc |-> "idle", type |-> NoType, trim |-> Trim0]

Init ==
    /\ fadeState = "none"
    /\ fadeGain = Steps
    /\ currentType = NoType
    /\ pendingType = NoType
    /\ irReq = FALSE
    /\ backendReq = [t \in Types |-> FALSE]
    /\ device = [t \in Types |-> Cpu]
    /\ pendingIR = NoFile
    /\ lastTrim = Trim0
    /\ algo = NoAlgo
    /\ gpuStatus = "cpu"
    /\ ctl = IdleCtl
    /\ engPc = "block"
    /\ seen = Nothing
    /\ new = NoAlgo

-------------------------------------------------------------------------------
(* The control thread: one setter at a time *)

CtlAt(at) == ctl.pc = at

SetAlgorithmType(t) ==
    /\ CtlAt("idle")
    /\ t # currentType
    /\ ctl' = [IdleCtl EXCEPT !.pc = "storeType", !.type = t]
    /\ UNCHANGED <<fadeState, requests, retained, algo, engine>>

StoreType ==
    /\ CtlAt("storeType")
    /\ pendingType' = ctl.type
    /\ ctl' = [IdleCtl EXCEPT !.pc = "loadFade"]
    /\ UNCHANGED <<fadeState, irReq, backendReq, retained, algo, engine>>

\* setIRBackendDevice, setFDNBackendDevice, setSDNBackendDevice
SetBackendDevice(t, d) ==
    /\ CtlAt("idle")
    /\ device[t] # d
    /\ device' = [device EXCEPT ![t] = d]
    /\ ctl' = [IdleCtl EXCEPT !.pc = "testType", !.type = t]
    /\ UNCHANGED <<fadeState, requests, pendingIR, lastTrim, algo, engine>>

\* Mutant: the type of the live instance decides, not currentAlgorithmType.
TestLiveType ==
    /\ CtlAt("testType")
    /\ ctl' = IF algo.type = ctl.type THEN [ctl EXCEPT !.pc = "requestBackend"]
                                      ELSE IdleCtl
    /\ UNCHANGED <<fadeState, requests, retained, algo, engine>>

\* `if (currentAlgorithmType == IR)`: a plain read of the engine's variable.
TestType ==
    /\ CtlAt("testType")
    /\ ctl' = IF currentType = ctl.type THEN [ctl EXCEPT !.pc = "requestBackend"]
                                        ELSE IdleCtl
    /\ UNCHANGED <<fadeState, requests, retained, algo, engine>>

RequestBackend ==
    /\ CtlAt("requestBackend")
    /\ backendReq' = [backendReq EXCEPT ![ctl.type] = TRUE]
    /\ ctl' = [IdleCtl EXCEPT !.pc = "loadFade"]
    /\ UNCHANGED <<fadeState, pendingType, irReq, retained, algo, engine>>

LoadIRFile(f) ==
    /\ CtlAt("idle")
    /\ pendingIR' = f
    /\ ctl' = [IdleCtl EXCEPT !.pc = "requestIR"]
    /\ UNCHANGED <<fadeState, requests, device, lastTrim, algo, engine>>

RequestIR ==
    /\ CtlAt("requestIR")
    /\ irReq' = TRUE
    /\ ctl' = [IdleCtl EXCEPT !.pc = "loadFade"]
    /\ UNCHANGED <<fadeState, pendingType, backendReq, retained, algo, engine>>

\* The check and the store that end every request.
LoadFade ==
    /\ CtlAt("loadFade")
    /\ ctl' = IF fadeState = "none" THEN [ctl EXCEPT !.pc = "startFade"] ELSE IdleCtl
    /\ UNCHANGED <<fadeState, requests, retained, algo, engine>>

StartFade ==
    /\ CtlAt("startFade")
    /\ fadeState' = "out"
    /\ ctl' = IdleCtl
    /\ UNCHANGED <<requests, retained, algo, engine>>

SetIRParameters(x) ==
    /\ CtlAt("idle")
    /\ lastTrim' = x
    /\ ctl' = [IdleCtl EXCEPT !.pc = "applyTrim", !.trim = x]
    /\ UNCHANGED <<fadeState, requests, device, pendingIR, algo, engine>>

\* Under algorithmLock, on whatever instance is live.
ApplyTrim ==
    /\ CtlAt("applyTrim")
    /\ algo' = IF algo.type = IR THEN [algo EXCEPT !.trim = ctl.trim] ELSE algo
    /\ ctl' = IdleCtl
    /\ UNCHANGED <<fadeState, requests, retained, engine>>

\* A caller's own instance goes live at once, without a fade.  The engine did not
\* build it, so none of the choices says anything of it.
SetAlgorithm ==
    /\ CtlAt("idle")
    /\ algo' = NoAlgo
    /\ UNCHANGED <<fadeState, requests, retained, ctl, engine>>

-------------------------------------------------------------------------------
(* The engine thread: applyFade() and installAlgorithm() *)

EngGo(from, to) == engPc = from /\ engPc' = to

\* A block is rendered; fadeState decides what is done to it.
RenderBlock ==
    /\ EngGo("block", CASE fadeState = "none" -> "block"
                        [] fadeState = "out"  -> "rampDown"
                        [] fadeState = "in"   -> "rampUp")
    /\ UNCHANGED <<fadeState, fadeGain, currentType, requests, retained, algo,
                   ctl, seen, new, gpuStatus>>

\* Mutant: the switch begins one block before silence.
RampDownEarly ==
    LET endGain == IF fadeGain > 0 THEN fadeGain - 1 ELSE 0 IN
    /\ EngGo("rampDown", IF endGain <= 1 THEN "readType" ELSE "block")
    /\ fadeGain' = endGain
    /\ UNCHANGED <<fadeState, currentType, requests, retained, algo, ctl, seen,
                   new, gpuStatus>>

RampDown ==
    LET endGain == IF fadeGain > 0 THEN fadeGain - 1 ELSE 0 IN
    /\ EngGo("rampDown", IF endGain = 0 THEN "readType" ELSE "block")
    /\ fadeGain' = endGain
    /\ UNCHANGED <<fadeState, currentType, requests, retained, algo, ctl, seen,
                   new, gpuStatus>>

\* newType, when it is a change of algorithm.
ReadType ==
    /\ EngGo("readType", "readIRReq")
    /\ seen' = [seen EXCEPT !.type = IF pendingType # currentType THEN pendingType
                                                                  ELSE NoType]
    /\ UNCHANGED <<fadeState, fadeGain, currentType, requests, retained, algo,
                   ctl, new, gpuStatus>>

ReadIRReq ==
    /\ EngGo("readIRReq", "readBackendReq")
    /\ seen' = [seen EXCEPT !.ir = irReq]
    /\ UNCHANGED <<fadeState, fadeGain, currentType, requests, retained, algo,
                   ctl, new, gpuStatus>>

\* Of the three backend flags only the one of effectiveType has a say.
ReadBackendReq ==
    LET effectiveType == IF seen.type # NoType THEN seen.type ELSE currentType IN
    /\ EngGo("readBackendReq", "setType")
    /\ seen' = [seen EXCEPT !.backend =
                    effectiveType # NoType /\ backendReq[effectiveType]]
    /\ UNCHANGED <<fadeState, fadeGain, currentType, requests, retained, algo,
                   ctl, new, gpuStatus>>

SetType ==
    /\ EngGo("setType", IF seen # Nothing THEN "clearIRReq" ELSE "startFadeIn")
    /\ currentType' = IF seen.type # NoType THEN seen.type ELSE currentType
    /\ seen' = Nothing
    /\ UNCHANGED <<fadeState, fadeGain, requests, retained, algo, ctl, new,
                   gpuStatus>>

ClearIRReq ==
    /\ EngGo("clearIRReq", "clearBackendReq")
    /\ irReq' = FALSE
    /\ UNCHANGED <<fadeState, fadeGain, currentType, pendingType, backendReq,
                   retained, algo, ctl, seen, new, gpuStatus>>

\* Three stores; the control thread touches one of the flags at most, and
\* between two of these stores it can see no difference.
ClearBackendReq ==
    /\ EngGo("clearBackendReq", "create")
    /\ backendReq' = [t \in Types |-> FALSE]
    /\ UNCHANGED <<fadeState, fadeGain, currentType, pendingType, irReq,
                   retained, algo, ctl, seen, new, gpuStatus>>

\* createSDNAlgorithm, createFDNAlgorithm or createIRAlgorithm, in two steps.
\* First the device id is copied under deviceIdLock; with no type yet, an impulse
\* response makes installAlgorithm build an FDN on the CPU.
Create ==
    /\ EngGo("create", "prepare")
    /\ new' = [NoAlgo EXCEPT
                 !.type = currentType,
                 !.asked = IF currentType # NoType THEN device[currentType] ELSE Cpu]
    /\ UNCHANGED <<fadeState, fadeGain, currentType, requests, retained, algo,
                   ctl, seen, gpuStatus>>

\* Then the backend is prepared, outside every lock: a GPU that does not get
\* ready makes way for the CPU algorithm, and the status says which it was.
PrepareBackend ==
    /\ EngGo("prepare", IF currentType = IR THEN "copyTrim" ELSE "install")
    /\ \E isReady \in BOOLEAN :
         LET onGpu == new.asked # Cpu /\ isReady IN
         /\ new' = [new EXCEPT !.device = IF onGpu THEN new.asked ELSE Cpu]
         /\ gpuStatus' = CASE new.type = NoType -> gpuStatus
                            [] new.type # NoType /\ new.asked = Cpu -> "cpu"
                            [] new.type # NoType /\ new.asked # Cpu ->
                                 IF onGpu THEN "active" ELSE "fallback"
    /\ UNCHANGED <<fadeState, fadeGain, currentType, requests, retained, algo,
                   ctl, seen>>

CopyTrim ==
    /\ EngGo("copyTrim", "copyIR")
    /\ new' = [new EXCEPT !.trim = lastTrim]
    /\ UNCHANGED <<fadeState, fadeGain, currentType, requests, retained, algo,
                   ctl, seen, gpuStatus>>

CopyIR ==
    /\ EngGo("copyIR", "install")
    /\ new' = [new EXCEPT !.ir = pendingIR]
    /\ UNCHANGED <<fadeState, fadeGain, currentType, requests, retained, algo,
                   ctl, seen, gpuStatus>>

\* Mutant: the request flag is cleared when the rebuild is done, not before.
InstallClearingIRReq ==
    /\ EngGo("install", "startFadeIn")
    /\ algo' = new
    /\ new' = NoAlgo
    /\ irReq' = FALSE
    /\ UNCHANGED <<fadeState, fadeGain, currentType, pendingType, backendReq,
                   retained, ctl, seen, gpuStatus>>

Install ==
    /\ EngGo("install", "startFadeIn")
    /\ algo' = new
    /\ new' = NoAlgo
    /\ UNCHANGED <<fadeState, fadeGain, currentType, requests, retained, ctl,
                   seen, gpuStatus>>

\* Mutant: fadeState is left at FadingOut.
NoFadeIn ==
    /\ EngGo("startFadeIn", "block")
    /\ fadeGain' = 0
    /\ UNCHANGED <<fadeState, currentType, requests, retained, algo, ctl, seen,
                   new, gpuStatus>>

StartFadeIn ==
    /\ EngGo("startFadeIn", "block")
    /\ fadeGain' = 0
    /\ fadeState' = "in"
    /\ UNCHANGED <<currentType, requests, retained, algo, ctl, seen, new,
                   gpuStatus>>

\* Mutant: the ramp is not clamped and ends one step above full level.
RampUpPastFull ==
    /\ EngGo("rampUp", IF fadeGain + 1 > Steps THEN "checkRequests" ELSE "block")
    /\ fadeGain' = fadeGain + 1
    /\ UNCHANGED <<fadeState, currentType, requests, retained, algo, ctl, seen,
                   new, gpuStatus>>

\* Mutant: the fade-in is taken for done one block early.
RampUpEarly ==
    LET endGain == IF fadeGain < Steps THEN fadeGain + 1 ELSE Steps IN
    /\ EngGo("rampUp", IF endGain >= Steps - 1 THEN "checkRequests" ELSE "block")
    /\ fadeGain' = endGain
    /\ UNCHANGED <<fadeState, currentType, requests, retained, algo, ctl, seen,
                   new, gpuStatus>>

RampUp ==
    LET endGain == IF fadeGain < Steps THEN fadeGain + 1 ELSE Steps IN
    /\ EngGo("rampUp", IF endGain = Steps THEN "checkRequests" ELSE "block")
    /\ fadeGain' = endGain
    /\ UNCHANGED <<fadeState, currentType, requests, retained, algo, ctl, seen,
                   new, gpuStatus>>

\* "If an IR or backend change arrived while we were fading, re-trigger"
CheckRequests ==
    /\ EngGo("checkRequests", IF irReq \/ \E t \in Types : backendReq[t]
                                THEN "fadeAgain" ELSE "fadeDone")
    /\ UNCHANGED <<fadeState, fadeGain, currentType, requests, retained, algo,
                   ctl, seen, new, gpuStatus>>

EndFade ==
    /\ \/ EngGo("fadeAgain", "block") /\ fadeState' = "out"
       \/ EngGo("fadeDone", "block") /\ fadeState' = "none"
    /\ UNCHANGED <<fadeGain, currentType, requests, retained, algo, ctl, seen,
                   new, gpuStatus>>

-------------------------------------------------------------------------------
ControlCall ==
    \/ \E t \in Types : SetAlgorithmType(t)
    \/ \E t \in Types, d \in Devices : SetBackendDevice(t, d)
    \/ \E f \in Files : LoadIRFile(f)
    \/ \E x \in Trims : SetIRParameters(x)
    \/ SetAlgorithm

ControlStep ==
    \/ StoreType \/ TestType \/ RequestBackend \/ RequestIR
    \/ LoadFade \/ StartFade \/ ApplyTrim

EngineStep ==
    \/ RenderBlock \/ RampDown
    \/ ReadType \/ ReadIRReq \/ ReadBackendReq \/ SetType
    \/ ClearIRReq \/ ClearBackendReq \/ Create \/ PrepareBackend
    \/ CopyTrim \/ CopyIR \/ Install
    \/ StartFadeIn \/ RampUp \/ CheckRequests \/ EndFade

Next == ControlCall \/ ControlStep \/ EngineStep

\* A setter that was called runs to its end, and the engine thread goes on
\* rendering blocks because the audio callback goes on feeding it.
Spec == Init /\ [][Next]_vars /\ WF_vars(ControlStep) /\ WF_vars(EngineStep)

-------------------------------------------------------------------------------
(* Properties *)

Switching == {"clearIRReq", "clearBackendReq", "create", "prepare", "copyTrim", "copyIR",
              "install"}

Algorithms ==
    [type : Types \cup {NoType}, asked : Devices, device : Devices,
     ir : Files \cup {NoFile}, trim : Trims]

TypeOK ==
    /\ fadeState \in {"none", "out", "in"}
    /\ fadeGain \in 0..Steps
    /\ currentType \in Types \cup {NoType}
    /\ pendingType \in Types \cup {NoType}
    /\ irReq \in BOOLEAN
    /\ backendReq \in [Types -> BOOLEAN]
    /\ device \in [Types -> Devices]
    /\ pendingIR \in Files \cup {NoFile}
    /\ lastTrim \in Trims
    /\ algo \in Algorithms /\ new \in Algorithms
    /\ gpuStatus \in {"cpu", "active", "fallback"}
    /\ ctl \in [pc : {"idle", "storeType", "testType", "requestBackend", "requestIR",
                      "loadFade", "startFade", "applyTrim"},
                type : Types \cup {NoType}, trim : Trims]
    /\ engPc \in Switching \cup
         {"block", "rampDown", "readType", "readIRReq", "readBackendReq", "setType",
          "startFadeIn", "rampUp", "checkRequests", "fadeAgain", "fadeDone"}
    /\ seen \in [type : Types \cup {NoType}, ir : BOOLEAN, backend : BOOLEAN]

\* The engine's own steps replace the live algorithm only at fade silence, while
\* a fade-out is on record (ReverbEngine.h:875-914, "switch at silence").  What
\* setAlgorithm does at any gain, and a trim applied in place, are the caller's.
SwitchAtSilence ==
    [][EngineStep /\ [algo' EXCEPT !.trim = algo.trim] # algo
          => fadeGain = 0 /\ fadeState = "out"]_vars

\* A block that gets no fade is at full level in the ramp's own account: wherever
\* in the fade a request lands, the wet level does not jump.
NoGainJump == engPc = "block" /\ fadeState = "none" => fadeGain = Steps

\* With no IR request outstanding, an IR algorithm convolves with the impulse
\* response loaded last: a load that races the rebuild is in the rebuilt
\* instance or its flag survives to ask for another one.
NoStaleIR ==
    /\ algo.type = IR
    /\ ~irReq
    /\ ctl.pc # "requestIR"
    /\ engPc \notin Switching
    => algo.ir = pendingIR

\* With no backend request outstanding for it, the live algorithm was created for
\* the device selected last for its type, also when the choice raced the switch to
\* that type and so raised no request.  It runs there, or on the CPU when that
\* device did not initialise, and the status the UI polls says which: the "falls
\* back to CPU and reports it" of ReverbEngine.h:305-306.
NoStaleDevice ==
    LET chosen == device[algo.type] IN
    /\ algo.type # NoType
    /\ ~backendReq[algo.type]
    /\ ctl.pc \notin {"testType", "requestBackend"}
    /\ engPc \notin Switching
    => /\ algo.asked = chosen
       /\ \/ chosen = Cpu /\ algo.device = Cpu /\ gpuStatus = "cpu"
          \/ chosen # Cpu /\ algo.device = chosen /\ gpuStatus = "active"
          \/ chosen # Cpu /\ algo.device = Cpu /\ gpuStatus = "fallback"

\* The fade never leaves the output silent.
SilenceEnds == (fadeGain = 0) ~> (fadeGain = Steps)

-------------------------------------------------------------------------------
(* What the comments say and the code does not do, with a run of its own *)

\* loadIRFile: "The engine thread picks up the new IR at silence and fades back
\* in"; applyFade: "If an IR or backend change arrived while we were fading,
\* re-trigger".  Every IR request is served, whenever it arrives.
IRRequestServed == irReq ~> ~irReq
===============================================================================
