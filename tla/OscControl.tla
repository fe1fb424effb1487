------------------------------ MODULE OscControl ------------------------------
(***************************************************************************)
(* The OSC path from the sockets to the targets: the client threads of     *)
(* OSCTCPReceiver and the datagram thread of OSCReceiverWithSenderIP push  *)
(* into OSCIngestQueue, the message thread drains it and hands each item   *)
(* to the application, which may queue feedback in OSCRateLimiter.         *)
(* Tracking samples take TrackingIngestQueue instead.  The two drains and  *)
(* the limiter's timer run on the message thread, so none starts inside    *)
(* another.  docs/control-plane-map.md, 3.3 and 3.7, gives the wiring; the *)
(* application is external.                                                *)
(***************************************************************************)
EXTENDS OSCTCPReceiver, OSCIngestQueue, OSCRateLimiter, TrackingIngestQueue

\* What the application answers for a parameter has a coalescing key.
ASSUME OscAssumption == Params \subseteq Keys

vars == <<rvars, qvars, lvars, tvars>>

Init == ReceiverInit /\ QueueInit /\ LimiterInit /\ TrackingInit

\* No timer callback of the message thread is under way.
MessageThreadIdle == DrainAt("idle") /\ ~draining

-------------------------------------------------------------------------------
\* A client thread hands a packet to the queue (rawDataCallback); packets
\* that set none of Params are not followed further.
TcpPush(c) ==
    /\ HandlerPush(c)
    /\ UNCHANGED qvars \/ \E s \in Sources : Push(s[1], s[2])
    /\ UNCHANGED <<lvars, tvars>>

\* The datagram thread: one push per datagram that arrives.
UdpPush ==
    /\ \E s \in Sources : Push(s[1], s[2])
    /\ UNCHANGED <<rvars, lvars, tvars>>

\* The dispatch callback: the application applies the message and may queue
\* feedback for one target or for all.
Dispatch ==
    /\ \E over \in BOOLEAN : DispatchItem(over)
    /\ \/ UNCHANGED lvars
       \/ \E t \in Targets \cup {Broadcast} : queueMessage(t, drain.item.par)
    /\ UNCHANGED <<rvars, tvars>>

DrainInternal ==
    /\ DrainAt("idle") => MessageThreadIdle
    /\ (\E second \in BOOLEAN : BeginDrain(second)) \/ TakeItem \/ StopTaking \/ EndDrain
    /\ UNCHANGED <<rvars, lvars, tvars>>

LimiterTimer ==
    /\ MessageThreadIdle
    /\ limiterTimerCallback
    /\ UNCHANGED <<rvars, qvars, tvars>>

LimiterCalls ==
    /\ MessageThreadIdle
    /\ flushAll \/ clearAll \/ \E interval \in Intervals : setMaxRate(interval)
    /\ UNCHANGED <<rvars, qvars, tvars>>

Tick ==
    /\ LimiterTick
    /\ UNCHANGED <<rvars, qvars, tvars, targetQueues, broadcastQueue, minInterval, queued,
                   received>>

Receiver ==
    /\ OwnerStep \/ AcceptStep \/ PeerStep \/ \E c \in Conns : HandlerStep(c)
    /\ UNCHANGED <<qvars, lvars, tvars>>

Tracking ==
    /\ \/ \E k \in Trackers, has \in SUBSET Halves, bad \in SUBSET Halves :
             has # {} /\ bad \subseteq has /\ PushSample(k, has, bad)
       \/ MessageThreadIdle /\ TakeBatch
       \/ \E k \in Trackers : ApplySample(k)
    /\ UNCHANGED <<rvars, qvars, lvars>>

Next ==
    \/ Receiver
    \/ \E c \in Conns : TcpPush(c)
    \/ UdpPush
    \/ Dispatch \/ DrainInternal
    \/ LimiterTimer \/ LimiterCalls
    \/ Tick
    \/ Tracking

\* The threads of the receiver keep running, the message loop keeps calling
\* the limiter's timer and the clock moves on.
Fairness ==
    /\ WF_vars(AcceptStep /\ UNCHANGED <<qvars, lvars, tvars>>)
    /\ \A c \in Conns : /\ WF_vars(TcpPush(c))
                         /\ WF_vars((HandlerLeave(c) \/ HandlerEnd(c)) /\ UNCHANGED <<qvars, lvars, tvars>>)

Spec == Init /\ [][Next]_vars /\ Fairness

-------------------------------------------------------------------------------
\* Every variable of the four parts has its type, and the bounded containers of
\* the queues and the client list keep their limits.
TypeOK == ReceiverTypeOK /\ QueueTypeOK /\ LimiterTypeOK /\ TrackingTypeOK

\* A client thread that runs is in the client list or in the accept thread's hand
\* (OSCTCPReceiver.cpp:56-63, 140-144, 151-161), and none is left when the receiver
\* is gone: what disconnect() overlooked, the end of the list itself stops.  The
\* members a client uses may be dead by then, see ConnectionsClosed.
HandlersOwned ==
    /\ \A c \in Conns : Alive(c) => c \in clients \/ (Accepting("add") /\ accept.conn = c)
    /\ owner = "gone" => \A c \in Conns : ~Alive(c)

\* A message of the source stands between the queue and the application.
Waits(s) ==
    \/ drain.item # NoItem /\ SourceOf(drain.item) = s
    \/ tryClassify(s[1], s[2]) /\ s[1] \in DOMAIN coalesced
    \/ \E i \in 1 .. Len(fifo) : SourceOf(fifo[i]) = s

\* A short form younger than the long form that was coalesced and taken after it:
\* the FIFO goes first, whatever the age (OSCIngestQueue.cpp:243-255).
Overtaken(p, f) ==
    f = "short" /\ tryClassify(p, "long") /\ value[p] = newest[<<p, "long">>]

\* Once nothing of a source waits, the application has seen the newest version
\* its queue accepted: coalescing, the bounds, the merge of halves and a drain
\* that stops in the middle lose older versions only (OSCIngestQueue.cpp:145-274,
\* TrackingIngestQueue.cpp:29-115).  Once nothing of a parameter waits in either
\* form, it holds no version older than the newest of a form, but for a short form
\* that was Overtaken; a long form is never undone by an older short one.
LatestSurvives ==
    /\ \A s \in Sources : Waits(s) \/ applied[s] = newest[s]
    /\ \A p \in Params :
          (\A f \in Forms : ~Waits(<<p, f>>)) =>
              \A f \in Forms : value[p] >= newest[<<p, f>>] \/ Overtaken(p, f)
    /\ NewestHalfApplied

\* The timer sends to a target at most once per interval, the interval in force at
\* that moment, whichever of the two queues the messages come from
\* (OSCRateLimiter.cpp:30-40, 159-238).
RateHeld ==
    [][limiterTimerCallback =>
        \A t \in Targets : received'[t] # received[t] => sinceWire[t] >= minInterval]_vars

\* While the server runs, the place of a client whose other end is gone becomes
\* free (OSCTCPReceiver.cpp:151-161, 291-306: "after 16 such peers every new
\* client was refused").
SlotsReclaimed ==
    \A c \in Conns : (c \in clients /\ peer[c] = "closed")
                        ~> (c \notin clients \/ shouldStop)

-------------------------------------------------------------------------------
(* What the header says and the code does not do, with a run of its own *)

\* disconnect(), OSCTCPReceiver.h:35: "Stop the server and close all connections."
\* Once it has returned no client is served, and the destructor, which relies on
\* it, may let the members go that a client uses.
ConnectionsClosed == ~connected => \A c \in Conns : ~Alive(c)
===============================================================================
