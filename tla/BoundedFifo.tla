------------------------------ MODULE BoundedFifo ------------------------------
(***************************************************************************)
(* What a bounded stream between one producer and one consumer promises.   *)
(* The samples that were accepted come out once each and in order.  A put  *)
(* takes a prefix of what it is offered, at least as much as there was     *)
(* room for when it was called; a take returns at least as much of what    *)
(* was asked for as was there when it was called.                          *)
(*                                                                         *)
(* LockFreeRingBuffer (rt/LockFreeRingBuffer.h) is shown to implement      *)
(* this module.                                                            *)
(***************************************************************************)
EXTENDS Integers, Sequences

CONSTANTS
    Samples,      \* what the stream carries
    Capacity,     \* samples the stream can hold
    MaxBurst      \* the largest put and the largest take

VARIABLES
    queue,        \* the samples accepted and not yet taken
    offer,        \* what the put under way offers, <<>> between puts
    room,         \* the room there was when that put was called
    want,         \* how many samples the take under way asks for, 0 between takes
    there,        \* how many samples there were when that take was called
    taken         \* what the last take returned

fifoVars == <<queue, offer, room, want, there, taken>>

Smaller(a, b) == IF a <= b THEN a ELSE b

Init ==
    /\ queue = <<>>
    /\ offer = <<>>
    /\ room = 0
    /\ want = 0
    /\ there = 0
    /\ taken = <<>>

CallPut(s) ==
    /\ offer = <<>>
    /\ offer' = s
    /\ room' = Capacity - Len(queue)
    /\ UNCHANGED <<queue, want, there, taken>>

Put(k) ==
    /\ offer # <<>>
    /\ k >= Smaller(Len(offer), room)
    /\ k <= Smaller(Len(offer), Capacity - Len(queue))
    /\ queue' = queue \o SubSeq(offer, 1, k)
    /\ offer' = <<>>
    /\ room' = 0
    /\ UNCHANGED <<want, there, taken>>

CallTake(n) ==
    /\ want = 0
    /\ want' = n
    /\ there' = Len(queue)
    /\ taken' = <<>>
    /\ UNCHANGED <<queue, offer, room>>

Take(k) ==
    /\ want # 0
    /\ k >= Smaller(want, there)
    /\ k <= Smaller(want, Len(queue))
    /\ taken' = SubSeq(queue, 1, k)
    /\ queue' = SubSeq(queue, k + 1, Len(queue))
    /\ want' = 0
    /\ there' = 0
    /\ UNCHANGED <<offer, room>>

\* Emptying the stream between two calls.
Clear ==
    /\ offer = <<>> /\ want = 0
    /\ queue' = <<>>
    /\ UNCHANGED <<offer, room, want, there, taken>>

Next ==
    \/ \E n \in 1..MaxBurst : \E s \in [1..n -> Samples] : CallPut(s)
    \/ \E k \in 0..MaxBurst : Put(k) \/ Take(k)
    \/ \E n \in 1..MaxBurst : CallTake(n)
    \/ Clear

Spec == Init /\ [][Next]_fifoVars
===============================================================================
