------------------------------- MODULE ForkJoin -------------------------------
(***************************************************************************)
(* What a fork-join pool promises its single caller, whatever its workers  *)
(* do: parallelFor(n, f) calls f(0), ..., f(n-1) exactly once each and     *)
(* returns only after the last of those calls has finished.                *)
(*                                                                         *)
(* AudioParallelFor (rt/AudioParallelFor.h) and GpuHostWorkPool            *)
(* (gpu/GpuHostWorkPool.h) are both shown to implement this module.        *)
(***************************************************************************)
EXTENDS Naturals

CONSTANT MaxItems        \* the largest item count a call is made with

VARIABLES
    call,   \* the item count of the call in progress, 0 between calls
    ran     \* ran[i]: how often item i has run in the call in progress

fjVars == <<call, ran>>

Items == 0..(MaxItems - 1)
NoneRan == [i \in Items |-> 0]

Init ==
    /\ call = 0
    /\ ran = NoneRan

Start(n) ==
    /\ call = 0
    /\ call' = n
    /\ UNCHANGED ran

Run(i) ==
    /\ i < call
    /\ ran[i] = 0
    /\ ran' = [ran EXCEPT ![i] = 1]
    /\ UNCHANGED call

Return ==
    /\ call > 0
    /\ \A i \in Items : i < call => ran[i] = 1
    /\ call' = 0
    /\ ran' = NoneRan

Next ==
    \/ \E n \in 1..MaxItems : Start(n)
    \/ \E i \in Items : Run(i)
    \/ Return

\* A call in progress keeps going: its items run and it returns.
Progress == Return \/ \E i \in Items : Run(i)

Safety == Init /\ [][Next]_fjVars

Spec == Safety /\ WF_fjVars(Progress)
===============================================================================
