----------------------------- MODULE MCRtExchange -----------------------------
(* TLC instance of the two wait-free exchanges of rt/, which share nothing: a   *)
(* behaviour is one of LockFreeRingBuffer or one of RtTripleBuffer.  Four slots *)
(* and bursts longer than the three samples they hold, so that every copy can   *)
(* cross the seam and be cut; three distinct snapshots, so that the three slots *)
(* of the triple buffer can all differ and a stale one be told from a fresh one.*)
EXTENDS LockFreeRingBuffer, RtTripleBuffer

VARIABLE part   \* the exchange that is used in this behaviour

MCInit == part \in {"ring", "buffer"} /\ Init /\ BufferInit

MCNext ==
    /\ UNCHANGED part
    /\ \/ part = "ring" /\ Next /\ UNCHANGED bufferVars
       \/ part = "buffer" /\ BufferNext /\ UNCHANGED vars

MCSpec == MCInit /\ [][MCNext]_<<vars, bufferVars, part>>
===============================================================================
