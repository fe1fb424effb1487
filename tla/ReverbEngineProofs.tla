-------------------------- MODULE ReverbEngineProofs --------------------------
(***************************************************************************)
(* For any set of algorithm types, devices and impulse responses and any   *)
(* length of the fade: the wet level never jumps, the engine replaces the  *)
(* algorithm at silence only, and no request for an impulse response or a  *)
(* backend is lost to a race with the rebuild, whether or not the backend  *)
(* initialises.                                                            *)
(***************************************************************************)
EXTENDS ReverbEngine, TLAPS

\* Where the engine has completed a fade-out and has not begun the fade-in.
Silent == Switching \cup {"readType", "readIRReq", "readBackendReq", "setType", "startFadeIn"}

\* The new instance knows the device chosen for its type; from Prepared on it
\* has one.
Prepared == {"copyTrim", "copyIR", "install"}
Built == Prepared \cup {"prepare"}

-------------------------------------------------------------------------------
(* The inductive invariant *)

\* What the engine knows of the fade where it stands; only the control thread's
\* store of FadingOut can come in between.
FadeInv ==
    /\ engPc = "block" /\ fadeState = "none" => fadeGain = Steps
    /\ engPc \in Silent \cup {"rampDown"} => fadeState = "out"
    /\ engPc \in Silent => fadeGain = 0
    /\ engPc = "rampUp" => fadeState # "none"
    /\ engPc \in {"checkRequests", "fadeAgain", "fadeDone"} => fadeGain = Steps

\* The live instance, unless a caller set it, and the one under construction are
\* of the current type.
TypeInv ==
    /\ engPc \notin Switching => algo.type \in {currentType, NoType}
    /\ engPc \in Built => new.type = currentType
    /\ engPc \in {"copyTrim", "copyIR"} => currentType = IR

\* No impulse response was loaded whose request is still to be raised or served.
IRSettled == ~irReq /\ ctl.pc # "requestIR"

\* No device was chosen for type t whose request is still to be raised or served.
DeviceSettled(t) ==
    ~backendReq[t] /\ ~(ctl.pc \in {"testType", "requestBackend"} /\ ctl.type = t)

\* An instance runs on the device it was created for, or on the CPU for want of
\* it, and the status tells.
Reported(i) ==
    \/ i.asked = Cpu /\ i.device = Cpu /\ gpuStatus = "cpu"
    \/ i.asked # Cpu /\ i.device = i.asked /\ gpuStatus = "active"
    \/ i.asked # Cpu /\ i.device = Cpu /\ gpuStatus = "fallback"

\* Once nothing is outstanding, the instance the engine runs, and the one it is
\* about to install, were built from the latest choices; the status is about
\* the one built last.
Fresh ==
    /\ engPc \notin Switching /\ algo.type = IR /\ IRSettled => algo.ir = pendingIR
    /\ engPc = "install" /\ new.type = IR /\ IRSettled => new.ir = pendingIR
    /\ engPc \notin Switching /\ algo.type \in Types /\ DeviceSettled(algo.type)
          => algo.asked = device[algo.type]
    /\ engPc \in Built /\ new.type \in Types /\ DeviceSettled(new.type)
          => new.asked = device[new.type]
    /\ engPc \notin Switching /\ algo.type \in Types => Reported(algo)
    /\ engPc \in Prepared /\ new.type \in Types => Reported(new)

IInv == TypeOK /\ FadeInv /\ TypeInv /\ Fresh

-------------------------------------------------------------------------------
(* Type correctness *)

\* The control thread's calls and steps keep the types.
LEMMA ControlTypeOK == TypeOK /\ (ControlCall \/ ControlStep) => TypeOK'
  <1> SUFFICES ASSUME TypeOK, ControlCall \/ ControlStep PROVE TypeOK'
    OBVIOUS
  <1> USE ReverbAssumption DEF ReverbAssumption, requests, retained, engine, CtlAt, IdleCtl
  <1>1. ASSUME NEW t \in Types, SetAlgorithmType(t) PROVE TypeOK'
    <2>1. ctl' = [pc |-> "storeType", type |-> t, trim |-> Trim0]
      BY <1>1 DEF SetAlgorithmType
    <2>2. QED
      BY <1>1, <2>1 DEF SetAlgorithmType, TypeOK
  <1>2. ASSUME NEW t \in Types, NEW d \in Devices, SetBackendDevice(t, d) PROVE TypeOK'
    <2>1. ctl' = [pc |-> "testType", type |-> t, trim |-> Trim0]
      BY <1>2 DEF SetBackendDevice
    <2>2. QED
      BY <1>2, <2>1 DEF SetBackendDevice, TypeOK
  <1>3. ASSUME NEW f \in Files, LoadIRFile(f) PROVE TypeOK'
    BY <1>3 DEF LoadIRFile, TypeOK
  <1>4. ASSUME NEW x \in Trims, SetIRParameters(x) PROVE TypeOK'
    <2>1. ctl' = [pc |-> "applyTrim", type |-> NoType, trim |-> x]
      BY <1>4 DEF SetIRParameters
    <2>2. QED
      BY <1>4, <2>1 DEF SetIRParameters, TypeOK
  <1>5. CASE StoreType
    BY <1>5 DEF StoreType, TypeOK
  <1>6. CASE TestType
    BY <1>6 DEF TestType, TypeOK
  <1>7. CASE RequestBackend
    <2>1. backendReq' \in [Types -> BOOLEAN]
      BY <1>7 DEF RequestBackend, TypeOK
    <2>2. QED
      BY <1>7, <2>1 DEF RequestBackend, TypeOK
  <1>8. CASE RequestIR
    BY <1>8 DEF RequestIR, TypeOK
  <1>9. CASE LoadFade
    BY <1>9 DEF LoadFade, TypeOK
  <1>10. CASE StartFade
    BY <1>10 DEF StartFade, TypeOK
  <1>11. CASE ApplyTrim
    BY <1>11 DEF ApplyTrim, TypeOK, Algorithms
  <1>12. CASE SetAlgorithm
    <2>1. algo' \in Algorithms
      BY <1>12 DEF SetAlgorithm, NoAlgo, Algorithms
    <2>2. QED
      BY <1>12, <2>1 DEF SetAlgorithm, TypeOK
  <1>13. QED
    BY <1>1, <1>2, <1>3, <1>4, <1>5, <1>6, <1>7, <1>8, <1>9, <1>10, <1>11, <1>12 DEF ControlCall, ControlStep

\* The engine thread's steps keep the types; the ramps keep the gain in range.
LEMMA EngineTypeOK == TypeOK /\ EngineStep => TypeOK'
  <1> SUFFICES ASSUME TypeOK, EngineStep PROVE TypeOK'
    OBVIOUS
  <1> USE ReverbAssumption DEF ReverbAssumption, requests, retained, EngGo, Switching
  <1>1. CASE RenderBlock
    BY <1>1 DEF RenderBlock, TypeOK
  <1>2. CASE RampDown
    BY <1>2 DEF RampDown, TypeOK
  <1>3. CASE ReadType
    BY <1>3 DEF ReadType, TypeOK
  <1>4. CASE ReadIRReq
    BY <1>4 DEF ReadIRReq, TypeOK
  <1>5. CASE ReadBackendReq
    <2> DEFINE effectiveType == IF seen.type # NoType THEN seen.type ELSE currentType
               flag == effectiveType # NoType /\ backendReq[effectiveType]
    <2>1. flag \in BOOLEAN
      OBVIOUS
    <2>2. seen' = [seen EXCEPT !.backend = flag]
      BY <1>5 DEF ReadBackendReq
    <2> HIDE DEF flag
    <2>3. seen' \in [type : Types \cup {NoType}, ir : BOOLEAN, backend : BOOLEAN]
      BY <2>1, <2>2 DEF TypeOK
    <2>4. QED
      BY <1>5, <2>3 DEF ReadBackendReq, TypeOK
  <1>6. CASE SetType
    BY <1>6 DEF SetType, TypeOK, Nothing
  <1>7. CASE ClearIRReq
    <2>1. irReq' \in BOOLEAN
      BY <1>7 DEF ClearIRReq
    <2>2. QED
      BY <1>7, <2>1 DEF ClearIRReq, TypeOK
  <1>8. CASE ClearBackendReq
    BY <1>8 DEF ClearBackendReq, TypeOK
  <1>9. CASE Create
    <2> DEFINE dev == IF currentType # NoType THEN device[currentType] ELSE Cpu
    <2>1. dev \in Devices /\ currentType \in Types \cup {NoType}
      BY DEF TypeOK
    <2>2. new' = [type |-> currentType, asked |-> dev, device |-> Cpu, ir |-> NoFile,
                  trim |-> Trim0]
      BY <1>9 DEF Create, NoAlgo
    <2>3. new' \in Algorithms
      BY <2>1, <2>2 DEF Algorithms
    <2>4. QED
      BY <1>9, <2>3 DEF Create, TypeOK
  <1>10. CASE CopyTrim
    BY <1>10 DEF CopyTrim, TypeOK, Algorithms, NoAlgo
  <1>11. CASE CopyIR
    BY <1>11 DEF CopyIR, TypeOK, Algorithms, NoAlgo
  <1>12. CASE Install
    BY <1>12 DEF Install, TypeOK, Algorithms, NoAlgo
  <1>13. CASE StartFadeIn
    BY <1>13 DEF StartFadeIn, TypeOK
  <1>14. CASE RampUp
    BY <1>14 DEF RampUp, TypeOK
  <1>15. CASE CheckRequests
    BY <1>15 DEF CheckRequests, TypeOK
  <1>16. CASE EndFade
    BY <1>16 DEF EndFade, TypeOK
  <1>17. CASE PrepareBackend
    <2>1. PICK isReady \in BOOLEAN :
            /\ new' = [new EXCEPT !.device = IF new.asked # Cpu /\ isReady THEN new.asked
                                                                          ELSE Cpu]
            /\ gpuStatus' \in {gpuStatus, "cpu", "active", "fallback"}
      BY <1>17 DEF PrepareBackend
    <2>2. new' \in Algorithms
      BY <2>1 DEF TypeOK, Algorithms
    <2>3. QED
      BY <1>17, <2>1, <2>2 DEF PrepareBackend, TypeOK
  <1>18. QED
    BY <1>1, <1>2, <1>3, <1>4, <1>5, <1>6, <1>7, <1>8, <1>9, <1>10, <1>11, <1>12, <1>13, <1>14, <1>15, <1>16, <1>17 DEF EngineStep

LEMMA StepTypeOK == TypeOK /\ [Next]_vars => TypeOK'
  <1>1. TypeOK /\ UNCHANGED vars => TypeOK'
    BY DEF vars, TypeOK
  <1>2. QED
    BY <1>1, ControlTypeOK, EngineTypeOK DEF Next

-------------------------------------------------------------------------------
(* The fade *)

\* The control thread touches the fade in one place: it may order a fade-out.
LEMMA ControlFade == FadeInv /\ (ControlCall \/ ControlStep) => FadeInv'
  <1> SUFFICES ASSUME FadeInv, ControlCall \/ ControlStep PROVE FadeInv'
    OBVIOUS
  <1>1. /\ UNCHANGED <<fadeGain, engPc>>
        /\ fadeState' \in {fadeState, "out"}
    BY DEF ControlCall, ControlStep, engine, requests, retained, SetAlgorithmType,
           SetBackendDevice, LoadIRFile, SetIRParameters, StoreType, TestType, RequestBackend, RequestIR, LoadFade, StartFade, ApplyTrim, SetAlgorithm
  <1>2. QED
    BY <1>1 DEF FadeInv, Silent, Switching

LEMMA EngineFade == TypeOK /\ FadeInv /\ EngineStep => FadeInv'
  <1> SUFFICES ASSUME TypeOK, FadeInv, EngineStep PROVE FadeInv'
    OBVIOUS
  <1> USE ReverbAssumption DEF ReverbAssumption, EngGo, Silent, Switching, FadeInv
  <1>1. CASE RenderBlock
    BY <1>1 DEF RenderBlock, TypeOK
  <1>2. CASE RampDown
    BY <1>2 DEF RampDown, TypeOK
  <1>3. CASE ReadType
    BY <1>3 DEF ReadType, TypeOK
  <1>4. CASE ReadIRReq
    BY <1>4 DEF ReadIRReq, TypeOK
  <1>5. CASE ReadBackendReq
    BY <1>5 DEF ReadBackendReq, TypeOK
  <1>6. CASE SetType
    BY <1>6 DEF SetType, TypeOK
  <1>7. CASE ClearIRReq
    BY <1>7 DEF ClearIRReq, TypeOK
  <1>8. CASE ClearBackendReq
    BY <1>8 DEF ClearBackendReq, TypeOK
  <1>9. CASE Create
    BY <1>9 DEF Create, TypeOK
  <1>10. CASE CopyTrim
    BY <1>10 DEF CopyTrim, TypeOK
  <1>11. CASE CopyIR
    BY <1>11 DEF CopyIR, TypeOK
  <1>12. CASE Install
    BY <1>12 DEF Install, TypeOK
  <1>13. CASE StartFadeIn
    BY <1>13 DEF StartFadeIn, TypeOK
  <1>14. CASE RampUp
    BY <1>14 DEF RampUp, TypeOK
  <1>15. CASE CheckRequests
    BY <1>15 DEF CheckRequests, TypeOK
  <1>16. CASE EndFade
    BY <1>16 DEF EndFade, TypeOK
  <1>17. CASE PrepareBackend
    BY <1>17 DEF PrepareBackend, TypeOK
  <1>18. QED
    BY <1>1, <1>2, <1>3, <1>4, <1>5, <1>6, <1>7, <1>8, <1>9, <1>10, <1>11, <1>12, <1>13, <1>14, <1>15, <1>16, <1>17 DEF EngineStep

-------------------------------------------------------------------------------
(* The instance and the choices it was built from *)

\* The control thread moves no instance, but for setAlgorithm; a trim keeps
\* everything else.
LEMMA ControlKeepsAlgo ==
  ASSUME TypeOK, ControlCall \/ ControlStep, ~SetAlgorithm
  PROVE  /\ UNCHANGED <<currentType, engPc, new, gpuStatus>>
         /\ algo'.type = algo.type /\ algo'.asked = algo.asked
         /\ algo'.device = algo.device /\ algo'.ir = algo.ir
  <1>1. UNCHANGED <<currentType, engPc, new, gpuStatus>>
    BY DEF ControlCall, ControlStep, engine, requests, retained, SetAlgorithmType,
           SetBackendDevice, LoadIRFile, SetIRParameters, StoreType, TestType, RequestBackend, RequestIR, LoadFade, StartFade, ApplyTrim
  <1>2. CASE ApplyTrim
    BY <1>1, <1>2 DEF ApplyTrim, TypeOK, Algorithms
  <1>3. CASE ~ApplyTrim
    BY <1>1, <1>3 DEF ControlCall, ControlStep, SetAlgorithmType, SetBackendDevice, LoadIRFile,
           SetIRParameters, StoreType, TestType, RequestBackend, RequestIR, LoadFade, StartFade
  <1>4. QED
    BY <1>1, <1>2, <1>3

\* A step of the control thread that settles nothing and chooses nothing new
\* leaves the instances as fresh as they were.
LEMMA SettlesNothing ==
  ASSUME IInv, ControlCall \/ ControlStep, ~SetAlgorithm, UNCHANGED <<device, pendingIR>>,
         IRSettled' => IRSettled,
         \A t \in Types : DeviceSettled(t)' => DeviceSettled(t)
  PROVE  Fresh'
  <1>1. /\ UNCHANGED <<currentType, engPc, new, gpuStatus>>
        /\ algo'.type = algo.type /\ algo'.asked = algo.asked
        /\ algo'.device = algo.device /\ algo'.ir = algo.ir
    BY ControlKeepsAlgo DEF IInv
  <1>2. \A t \in Types : DeviceSettled(t)' => DeviceSettled(t)
    OBVIOUS
  <1>3. algo'.type \in Types /\ DeviceSettled(algo.type)' => DeviceSettled(algo.type)
    BY <1>1, <1>2 DEF DeviceSettled
  <1>4. new'.type \in Types /\ DeviceSettled(new.type)' => DeviceSettled(new.type)
    BY <1>1, <1>2 DEF DeviceSettled
  <1>5. QED
    BY <1>1, <1>3, <1>4 DEF IInv, Fresh, Reported

\* Only the read of currentType settles a choice without raising its request:
\* the type is not the current one, so no instance of it lives or is being built.
LEMMA SettersFresh ==
  ASSUME IInv, ControlCall \/ ControlStep, ~SetAlgorithm
  PROVE  TypeInv' /\ Fresh'
  <1>0. /\ TypeOK /\ TypeInv /\ Fresh
        /\ UNCHANGED <<currentType, engPc, new, gpuStatus>>
        /\ algo'.type = algo.type /\ algo'.asked = algo.asked
        /\ algo'.device = algo.device /\ algo'.ir = algo.ir
    BY ControlKeepsAlgo DEF IInv
  <1>a. TypeInv'
    BY <1>0 DEF TypeInv
  <1> USE ReverbAssumption, <1>0 DEF ReverbAssumption, requests, retained, engine, CtlAt, IdleCtl
  <1>1. ASSUME NEW t \in Types, SetAlgorithmType(t) PROVE Fresh'
    <2>1. ctl.pc = "idle" /\ ctl'.pc = "storeType"
      BY <1>1 DEF SetAlgorithmType
    <2>2. UNCHANGED <<irReq, backendReq, device, pendingIR>>
      BY <1>1 DEF SetAlgorithmType
    <2>3. (IRSettled' => IRSettled) /\ \A u \in Types : DeviceSettled(u)' => DeviceSettled(u)
      BY <2>1, <2>2 DEF IRSettled, DeviceSettled
    <2>4. QED
      BY <2>2, <2>3, SettlesNothing
  <1>2. ASSUME NEW t \in Types, NEW d \in Devices, SetBackendDevice(t, d) PROVE Fresh'
    BY <1>2 DEF SetBackendDevice, TypeOK, Fresh, Reported, IRSettled, DeviceSettled
  <1>3. ASSUME NEW f \in Files, LoadIRFile(f) PROVE Fresh'
    BY <1>3 DEF LoadIRFile, TypeOK, Fresh, Reported, IRSettled, DeviceSettled
  <1>4. ASSUME NEW x \in Trims, SetIRParameters(x) PROVE Fresh'
    <2>1. ctl.pc = "idle" /\ ctl'.pc = "applyTrim"
      BY <1>4 DEF SetIRParameters
    <2>2. UNCHANGED <<irReq, backendReq, device, pendingIR>>
      BY <1>4 DEF SetIRParameters
    <2>3. (IRSettled' => IRSettled) /\ \A u \in Types : DeviceSettled(u)' => DeviceSettled(u)
      BY <2>1, <2>2 DEF IRSettled, DeviceSettled
    <2>4. QED
      BY <2>2, <2>3, SettlesNothing
  <1>5. CASE TestType
    BY <1>5 DEF TestType, TypeOK, TypeInv, Switching, Prepared, Built, Fresh, Reported,
           IRSettled, DeviceSettled
  <1>6. CASE RequestBackend
    <2>1. ctl.pc = "requestBackend" /\ ctl'.pc = "loadFade"
      BY <1>6 DEF RequestBackend
    <2>2. \A u \in Types : ~backendReq'[u] => ~backendReq[u] /\ u # ctl.type
      BY <1>6 DEF RequestBackend, TypeOK
    <2>3. UNCHANGED <<irReq, device, pendingIR>>
      BY <1>6 DEF RequestBackend
    <2>4. (IRSettled' => IRSettled) /\ \A u \in Types : DeviceSettled(u)' => DeviceSettled(u)
      BY <2>1, <2>2, <2>3 DEF IRSettled, DeviceSettled
    <2>5. QED
      BY <1>a, <2>3, <2>4, SettlesNothing
  <1>7. CASE RequestIR
    <2>1. ctl.pc = "requestIR" /\ ctl'.pc = "loadFade" /\ irReq' = TRUE
      BY <1>7 DEF RequestIR
    <2>2. UNCHANGED <<backendReq, device, pendingIR>>
      BY <1>7 DEF RequestIR
    <2>3. (IRSettled' => IRSettled) /\ \A u \in Types : DeviceSettled(u)' => DeviceSettled(u)
      BY <2>1, <2>2 DEF IRSettled, DeviceSettled
    <2>4. QED
      BY <1>a, <2>2, <2>3, SettlesNothing
  <1>8. CASE StoreType
    <2>1. ctl.pc = "storeType" /\ ctl'.pc = "loadFade"
      BY <1>8 DEF StoreType
    <2>2. UNCHANGED <<irReq, backendReq, device, pendingIR>>
      BY <1>8 DEF StoreType
    <2>3. (IRSettled' => IRSettled) /\ \A u \in Types : DeviceSettled(u)' => DeviceSettled(u)
      BY <2>1, <2>2 DEF IRSettled, DeviceSettled
    <2>4. QED
      BY <1>a, <2>2, <2>3, SettlesNothing
  <1>9. CASE LoadFade
    <2>1. ctl.pc = "loadFade" /\ ctl'.pc \in {"startFade", "idle"}
      BY <1>9 DEF LoadFade, TypeOK
    <2>2. UNCHANGED <<irReq, backendReq, device, pendingIR>>
      BY <1>9 DEF LoadFade
    <2>3. (IRSettled' => IRSettled) /\ \A u \in Types : DeviceSettled(u)' => DeviceSettled(u)
      BY <2>1, <2>2 DEF IRSettled, DeviceSettled
    <2>4. QED
      BY <1>a, <2>2, <2>3, SettlesNothing
  <1>10. CASE StartFade
    <2>1. ctl.pc = "startFade" /\ ctl'.pc = "idle"
      BY <1>10 DEF StartFade
    <2>2. UNCHANGED <<irReq, backendReq, device, pendingIR>>
      BY <1>10 DEF StartFade
    <2>3. (IRSettled' => IRSettled) /\ \A u \in Types : DeviceSettled(u)' => DeviceSettled(u)
      BY <2>1, <2>2 DEF IRSettled, DeviceSettled
    <2>4. QED
      BY <1>a, <2>2, <2>3, SettlesNothing
  <1>11. CASE ApplyTrim
    <2>1. ctl.pc = "applyTrim" /\ ctl'.pc = "idle"
      BY <1>11 DEF ApplyTrim
    <2>2. UNCHANGED <<irReq, backendReq, device, pendingIR>>
      BY <1>11 DEF ApplyTrim
    <2>3. (IRSettled' => IRSettled) /\ \A u \in Types : DeviceSettled(u)' => DeviceSettled(u)
      BY <2>1, <2>2 DEF IRSettled, DeviceSettled
    <2>4. QED
      BY <1>a, <2>2, <2>3, SettlesNothing
  <1>12. QED
    BY <1>a, <1>1, <1>2, <1>3, <1>4, <1>5, <1>6, <1>7, <1>8, <1>9, <1>10, <1>11
       DEF ControlCall, ControlStep

\* An instance the caller set is of no type the engine built: nothing is claimed
\* of it.
LEMMA ControlFresh == IInv /\ (ControlCall \/ ControlStep) => TypeInv' /\ Fresh'
  <1> SUFFICES ASSUME IInv, ControlCall \/ ControlStep PROVE TypeInv' /\ Fresh'
    OBVIOUS
  <1>1. CASE SetAlgorithm
    <2>1. /\ algo'.type = NoType /\ NoType \notin Types /\ IR \in Types
          /\ UNCHANGED <<currentType, engPc, new, gpuStatus, device, pendingIR, irReq,
                         backendReq, ctl>>
      BY <1>1, ReverbAssumption
         DEF SetAlgorithm, NoAlgo, engine, retained, requests, ReverbAssumption
    <2>2. QED
      BY <2>1 DEF IInv, TypeInv, Fresh, Reported, IRSettled, DeviceSettled
  <1>2. CASE ~SetAlgorithm
    BY <1>2, SettersFresh
  <1>3. QED
    BY <1>1, <1>2

\* The engine clears the requests before it reads what they are about, so a
\* choice made after the read finds its request up again.
LEMMA EngineFresh == IInv /\ EngineStep => TypeInv' /\ Fresh'
  <1> SUFFICES ASSUME IInv, EngineStep PROVE TypeInv' /\ Fresh'
    OBVIOUS
  <1>0. TypeOK /\ TypeInv /\ Fresh
    BY DEF IInv
  <1> USE ReverbAssumption, <1>0
      DEF ReverbAssumption, requests, retained, EngGo, TypeInv, Fresh, IRSettled,
          DeviceSettled, Reported, Switching, Prepared, Built
  <1>1. CASE RenderBlock
    BY <1>1 DEF RenderBlock, TypeOK
  <1>2. CASE RampDown
    BY <1>2 DEF RampDown, TypeOK
  <1>3. CASE ReadType
    BY <1>3 DEF ReadType, TypeOK
  <1>4. CASE ReadIRReq
    BY <1>4 DEF ReadIRReq, TypeOK
  <1>5. CASE ReadBackendReq
    BY <1>5 DEF ReadBackendReq, TypeOK
  <1>6. CASE SetType
    BY <1>6 DEF SetType, TypeOK, Nothing
  <1>7. CASE ClearIRReq
    BY <1>7 DEF ClearIRReq, TypeOK
  <1>8. CASE ClearBackendReq
    BY <1>8 DEF ClearBackendReq, TypeOK
  <1>9. CASE Create
    BY <1>9 DEF Create, TypeOK, Algorithms, NoAlgo
  <1>10. CASE CopyTrim
    BY <1>10 DEF CopyTrim, TypeOK, Algorithms, NoAlgo
  <1>11. CASE CopyIR
    BY <1>11 DEF CopyIR, TypeOK, Algorithms, NoAlgo
  <1>12. CASE Install
    BY <1>12 DEF Install, TypeOK, Algorithms, NoAlgo
  <1>13. CASE StartFadeIn
    BY <1>13 DEF StartFadeIn, TypeOK
  <1>14. CASE RampUp
    BY <1>14 DEF RampUp, TypeOK
  <1>15. CASE CheckRequests
    BY <1>15 DEF CheckRequests, TypeOK
  <1>16. CASE EndFade
    BY <1>16 DEF EndFade, TypeOK
  <1>17. CASE PrepareBackend
    <2>1. PICK isReady \in BOOLEAN :
            LET onGpu == new.asked # Cpu /\ isReady IN
            /\ new' = [new EXCEPT !.device = IF onGpu THEN new.asked ELSE Cpu]
            /\ new.type # NoType => gpuStatus' = IF new.asked = Cpu THEN "cpu"
                                                ELSE IF onGpu THEN "active" ELSE "fallback"
      BY <1>17 DEF PrepareBackend
    <2>2. /\ new'.type = new.type /\ new'.asked = new.asked /\ new'.ir = new.ir
          /\ new'.device = IF new.asked # Cpu /\ isReady THEN new.asked ELSE Cpu
      BY <2>1 DEF TypeOK, Algorithms
    <2>3. /\ engPc = "prepare" /\ engPc' \in {"copyTrim", "install"}
          /\ engPc' = "copyTrim" <=> currentType = IR
          /\ UNCHANGED <<currentType, irReq, backendReq, device, pendingIR, algo, ctl>>
      BY <1>17 DEF PrepareBackend
    <2>4. Reported(new)' \/ new.type \notin Types
      BY <2>1, <2>2
    <2>5. QED
      BY <2>2, <2>3, <2>4
  <1>18. QED
    BY <1>1, <1>2, <1>3, <1>4, <1>5, <1>6, <1>7, <1>8, <1>9, <1>10, <1>11, <1>12, <1>13, <1>14, <1>15, <1>16, <1>17 DEF EngineStep

LEMMA InitIInv == Init => IInv
  <1> SUFFICES ASSUME Init PROVE IInv
    OBVIOUS
  <1>1. TypeOK
    <2>1. irReq \in BOOLEAN /\ backendReq \in [Types -> BOOLEAN] /\ device \in [Types -> Devices]
      BY ReverbAssumption DEF ReverbAssumption, Init
    <2>2. seen \in [type : Types \cup {NoType}, ir : BOOLEAN, backend : BOOLEAN]
      BY DEF Init, Nothing
    <2>3. algo \in Algorithms /\ new \in Algorithms
      BY ReverbAssumption DEF ReverbAssumption, Init, NoAlgo, Algorithms
    <2>4. QED
      BY <2>1, <2>2, <2>3, ReverbAssumption DEF ReverbAssumption, Init, IdleCtl, TypeOK
  <1>2. FadeInv
    BY DEF Init, FadeInv, Silent, Switching
  <1>3. TypeInv /\ Fresh
    BY ReverbAssumption DEF ReverbAssumption, Init, TypeInv, Fresh, NoAlgo, Switching, Prepared, Built
  <1>4. QED
    BY <1>1, <1>2, <1>3 DEF IInv

LEMMA StepIInv == IInv /\ [Next]_vars => IInv'
  <1> SUFFICES ASSUME IInv, [Next]_vars PROVE IInv'
    OBVIOUS
  <1>1. TypeOK'
    BY StepTypeOK DEF IInv
  <1>2. CASE ControlCall \/ ControlStep
    BY <1>1, <1>2, ControlFade, ControlFresh DEF IInv
  <1>3. CASE EngineStep
    BY <1>1, <1>3, EngineFade, EngineFresh DEF IInv
  <1>4. CASE UNCHANGED vars
    BY <1>1, <1>4 DEF vars, IInv, FadeInv, TypeInv, Fresh, Reported, IRSettled, DeviceSettled
  <1>5. QED
    BY <1>2, <1>3, <1>4 DEF Next

\* Where the engine stands tells the fade; an instance it built is of the current
\* type, from the latest impulse response and for the latest device once no
\* request is outstanding, and the status says whether it runs there or on the
\* CPU for want of it (ReverbEngine.h:855-1086).
THEOREM Invariance == Spec => []IInv
  BY InitIInv, StepIInv, PTL DEF Spec

\* TypeOK: every variable keeps its type; in particular the gain stays between
\* silence and full level.
THEOREM TypeCorrect == Spec => []TypeOK
  <1>1. IInv => TypeOK
    BY DEF IInv
  <1>2. QED
    BY Invariance, <1>1, PTL

\* NoGainJump: a block that gets no fade is at full level in the ramp's own
\* account, wherever in the fade a request lands.
THEOREM NoJump == Spec => []NoGainJump
  <1>1. IInv => NoGainJump
    BY DEF IInv, FadeInv, NoGainJump
  <1>2. QED
    BY Invariance, <1>1, PTL

\* NoStaleIR: with no request outstanding, an IR algorithm convolves with the
\* impulse response loaded last, also when the load raced the rebuild.
THEOREM LoadsSurvive == Spec => []NoStaleIR
  <1>1. IInv => NoStaleIR
    BY DEF IInv, Fresh, IRSettled, NoStaleIR
  <1>2. QED
    BY Invariance, <1>1, PTL

\* NoStaleDevice: with no request outstanding, the live algorithm was created for
\* the device chosen last for its type, also when the choice raced the switch, and
\* runs there or, reported as a fallback, on the CPU.
THEOREM DevicesSurvive == Spec => []NoStaleDevice
  <1>1. IInv => NoStaleDevice
    BY DEF IInv, TypeOK, Algorithms, Fresh, Reported, DeviceSettled, NoStaleDevice
  <1>2. QED
    BY Invariance, <1>1, PTL

\* SwitchAtSilence: the engine's own steps replace the live algorithm only where
\* the fade has reached silence, and while no fade-in has begun.
THEOREM SwitchesSilently == Spec => SwitchAtSilence
  <1> DEFINE Replaced == [algo' EXCEPT !.trim = algo.trim] # algo
  <1>1. ASSUME IInv, EngineStep, Replaced PROVE fadeGain = 0 /\ fadeState = "out"
    <2>1. CASE Install
      BY <1>1, <2>1 DEF Install, EngGo, IInv, FadeInv, Silent, Switching
    <2>2. CASE ~Install
      <3>1. algo' = algo
        BY <1>1, <2>2
           DEF EngineStep, RenderBlock, RampDown, ReadType, ReadIRReq, ReadBackendReq,
               SetType, ClearIRReq, ClearBackendReq, Create, PrepareBackend, CopyTrim,
               CopyIR, StartFadeIn, RampUp, CheckRequests, EndFade
      <3>2. QED
        BY <1>1, <3>1 DEF IInv, TypeOK, Algorithms
    <2>3. QED
      BY <2>1, <2>2
  <1>2. IInv /\ [Next]_vars =>
          [EngineStep /\ [algo' EXCEPT !.trim = algo.trim] # algo
              => fadeGain = 0 /\ fadeState = "out"]_vars
    BY <1>1
  <1>3. QED
    BY <1>2, Invariance, PTL DEF Spec, SwitchAtSilence
===============================================================================
