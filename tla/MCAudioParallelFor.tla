-------------------------- MODULE MCAudioParallelFor --------------------------
(* TLC instance of AudioParallelFor: two workers and calls of up to three     *)
(* items, so that a straggler, an idle worker and the caller meet.            *)
EXTENDS AudioParallelFor
===============================================================================
