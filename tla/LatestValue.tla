------------------------------ MODULE LatestValue ------------------------------
(***************************************************************************)
(* What a "latest wins" hand-off between one publisher and one reader      *)
(* promises: an acquire hands the reader the value that is newest at some  *)
(* instant of the call, and the reader goes on holding that value until    *)
(* its next acquire, however often the publisher publishes meanwhile.      *)
(*                                                                         *)
(* RtTripleBuffer (rt/RtTripleBuffer.h) is shown to implement this module. *)
(***************************************************************************)
CONSTANTS
    Values,       \* the values that can be published
    Default       \* T{}: what the reader sees before the first publish

VARIABLES
    current,      \* the value published last
    held,         \* the value the reader holds
    acquiring     \* the reader is inside acquire()

lvVars == <<current, held, acquiring>>

Init ==
    /\ current = Default
    /\ held = Default
    /\ acquiring = FALSE

Publish(v) ==
    /\ current' = v
    /\ UNCHANGED <<held, acquiring>>

BeginAcquire ==
    /\ ~acquiring
    /\ acquiring' = TRUE
    /\ UNCHANGED <<current, held>>

EndAcquire ==
    /\ acquiring
    /\ acquiring' = FALSE
    /\ held' = current
    /\ UNCHANGED current

Next ==
    \/ \E v \in Values : Publish(v)
    \/ BeginAcquire
    \/ EndAcquire

Spec == Init /\ [][Next]_lvVars
===============================================================================
