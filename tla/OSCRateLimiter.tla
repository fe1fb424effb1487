---------------------------- MODULE OSCRateLimiter ----------------------------
(***************************************************************************)
(* The rate limiter of control/osc/OSCRateLimiter: messages wait per       *)
(* target, or in the broadcast queue, newest per key, until the timer of   *)
(* the message thread finds that the last send to the target is an         *)
(* interval ago.  Every operation holds queueLock from start to end.       *)
(*                                                                         *)
(* lastSendTime is kept as the time since that send, capped at the longest *)
(* interval: canSendToTarget tells nothing else apart.                     *)
(***************************************************************************)
EXTENDS Naturals

CONSTANTS
    Targets,      \* the MAX_TARGETS targets
    Broadcast,    \* target -1
    Keys,         \* coalescing keys
    Intervals,    \* the values minIntervalMs may take, in ticks of the clock
    FirstInterval,\* the one of the constructor's rate
    MaxInterval,  \* the longest: that of 1 Hz, to which setMaxRate clamps
    MaxQueued     \* bound on the messages queued

ASSUME LimiterAssumption ==
    /\ Broadcast \notin Targets
    /\ MaxInterval \in Nat /\ Intervals \subseteq 1 .. MaxInterval
    /\ FirstInterval \in Intervals
    /\ MaxQueued \in Nat

VARIABLES
    targetQueues,    \* Targets -> the messages waiting, by key
    broadcastQueue,  \* the messages waiting for all targets, by key
    minInterval,     \* minIntervalMs
    sinceSend,       \* Targets -> time since lastSendTime
    queued,          \* messages queued so far: their versions
    sinceWire,       \* history: time since a message last left for a target
    received         \* history: Targets -> Keys -> the last version sent

lvars == <<targetQueues, broadcastQueue, minInterval, sinceSend, queued,
           sinceWire, received>>

EmptyQueue == [k \in {} |-> 0]
Queue(q, k, v) == [j \in DOMAIN q \cup {k} |-> IF j = k THEN v ELSE q[j]]
canSendToTarget(t) == sinceSend[t] >= minInterval

LimiterInit ==
    /\ targetQueues = [t \in Targets |-> EmptyQueue]
    /\ broadcastQueue = EmptyQueue
    /\ minInterval = FirstInterval
    /\ sinceSend = [t \in Targets |-> MaxInterval]
    /\ queued = 0
    /\ sinceWire = [t \in Targets |-> MaxInterval]
    /\ received = [t \in Targets |-> [k \in Keys |-> 0]]

\* queueMessage; target -1 is queueBroadcast.
queueMessage(t, k) ==
    /\ queued < MaxQueued
    /\ queued' = queued + 1
    /\ IF t = Broadcast
       THEN /\ broadcastQueue' = Queue(broadcastQueue, k, queued + 1)
            /\ UNCHANGED targetQueues
       ELSE /\ targetQueues' = [targetQueues EXCEPT ![t] = Queue(@, k, queued + 1)]
            /\ UNCHANGED broadcastQueue
    /\ UNCHANGED <<minInterval, sinceSend, sinceWire, received>>

\* setMaxRate: a new interval, counted from the sends already made.
setMaxRate(interval) ==
    /\ minInterval' = interval
    /\ UNCHANGED <<targetQueues, broadcastQueue, sinceSend, queued, sinceWire, received>>

\* What target t has after the messages of q were sent to it.
After(q, has) == [k \in Keys |-> IF k \in DOMAIN q THEN q[k] ELSE has[k]]

-------------------------------------------------------------------------------
(* timerCallback: the broadcast queue first, then each target's own queue.  *)
(* A broadcast pass restarts the interval of every target, of those that    *)
(* could not receive it as well, so no target is ready after one.           *)

ReadyTargets == {t \in Targets : canSendToTarget(t)}

\* Mutant: a broadcast does not restart the interval.
ProcessBroadcastKeepingTimes ==
    /\ broadcastQueue # EmptyQueue
    /\ broadcastQueue' = EmptyQueue
    /\ received' = [t \in Targets |-> IF canSendToTarget(t)
                                       THEN After(broadcastQueue, received[t])
                                       ELSE received[t]]
    /\ sinceWire' = [t \in Targets |-> IF canSendToTarget(t) THEN 0 ELSE sinceWire[t]]
    /\ UNCHANGED <<sinceSend, targetQueues>>

processBroadcast ==
    /\ broadcastQueue # EmptyQueue
    /\ broadcastQueue' = EmptyQueue
    /\ received' = [t \in Targets |-> IF canSendToTarget(t)
                                       THEN After(broadcastQueue, received[t])
                                       ELSE received[t]]
    /\ sinceWire' = [t \in Targets |-> IF canSendToTarget(t) THEN 0 ELSE sinceWire[t]]
    /\ sinceSend' = [t \in Targets |-> 0]
    /\ UNCHANGED targetQueues

processTargets ==
    LET served == {t \in ReadyTargets : targetQueues[t] # EmptyQueue} IN
    /\ broadcastQueue = EmptyQueue
    /\ served # {}
    /\ received' = [t \in Targets |-> IF t \in served
                                       THEN After(targetQueues[t], received[t])
                                       ELSE received[t]]
    /\ targetQueues' = [t \in Targets |-> IF t \in served THEN EmptyQueue
                                                          ELSE targetQueues[t]]
    /\ sinceSend' = [t \in Targets |-> IF t \in served THEN 0 ELSE sinceSend[t]]
    /\ sinceWire' = [t \in Targets |-> IF t \in served THEN 0 ELSE sinceWire[t]]
    /\ UNCHANGED broadcastQueue

limiterTimerCallback ==
    /\ processBroadcast \/ processTargets
    /\ UNCHANGED <<minInterval, queued>>

\* flushAll: everything, whatever the intervals.
flushAll ==
    /\ received' = [t \in Targets |->
                      After(targetQueues[t], After(broadcastQueue, received[t]))]
    /\ targetQueues' = [t \in Targets |-> EmptyQueue]
    /\ broadcastQueue' = EmptyQueue
    /\ sinceSend' = [t \in Targets |-> 0]
    /\ sinceWire' = [t \in Targets |-> IF broadcastQueue = EmptyQueue
                                            /\ targetQueues[t] = EmptyQueue
                                         THEN sinceWire[t] ELSE 0]
    /\ UNCHANGED <<minInterval, queued>>

clearAll ==
    /\ targetQueues' = [t \in Targets |-> EmptyQueue]
    /\ broadcastQueue' = EmptyQueue
    /\ UNCHANGED <<minInterval, sinceSend, queued, sinceWire, received>>

\* The clock, as far as the longest interval reaches.
Later(since) == IF since < MaxInterval THEN since + 1 ELSE since

LimiterTick ==
    /\ sinceSend' = [t \in Targets |-> Later(sinceSend[t])]
    /\ sinceWire' = [t \in Targets |-> Later(sinceWire[t])]

IsQueue(q) == DOMAIN q \subseteq Keys /\ \A k \in DOMAIN q : q[k] \in 1 .. MaxQueued

LimiterTypeOK ==
    /\ DOMAIN targetQueues = Targets
    /\ IsQueue(broadcastQueue) /\ \A t \in Targets : IsQueue(targetQueues[t])
    /\ minInterval \in Intervals
    /\ sinceSend \in [Targets -> 0 .. MaxInterval]
    /\ sinceWire \in [Targets -> 0 .. MaxInterval]
    /\ queued \in 0 .. MaxQueued
    /\ received \in [Targets -> [Keys -> 0 .. MaxQueued]]
===============================================================================
