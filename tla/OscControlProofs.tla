--------------------------- MODULE OscControlProofs ---------------------------
(***************************************************************************)
(* Proofs about OscControl, for any connections, parameters, trackers and  *)
(* targets, and any of the caps: a client thread is never lost from sight, *)
(* the queues lose older versions only, and the limiter keeps its rate.    *)
(* Each of the four parts has an invariant of its own.                     *)
(***************************************************************************)
EXTENDS OscControl, FiniteSetTheorems, SequenceTheorems, TLAPS

-------------------------------------------------------------------------------
(* The inductive invariant *)

\* The accept thread has a connection in hand from accept() to the end of the
\* round, and runs only between connect() and the end of disconnect(); while it
\* has a handler to add there is room for it.  The members go when no server runs.
ReceiverInv ==
    /\ ReceiverTypeOK /\ IsFiniteSet(clients)
    /\ accept.pc \in {"limit", "start", "add"} => accept.conn \in Conns
    /\ ~connected => accept.pc = "none"
    /\ owner \in {"members", "lateClients", "gone"} => ~connected
    /\ owner = "gone" => clients = {}
    /\ accept.pc \in {"start", "add"} => Cardinality(clients) < MaxClients
    /\ HandlersOwned

Items == [par : Params, form : Forms, version : 1 .. MaxPushes]
Held(s) == drain.item # NoItem /\ SourceOf(drain.item) = s
Queued(s) == \/ tryClassify(s[1], s[2]) /\ s[1] \in DOMAIN coalesced
             \/ \E i \in 1 .. Len(fifo) : SourceOf(fifo[i]) = s
LastOf(s, i) ==
    SourceOf(fifo[i]) = s /\ \A j \in i + 1 .. Len(fifo) : SourceOf(fifo[j]) # s

\* The youngest message of a source, wherever it stands between the queue and the
\* application, has the newest version accepted.
Newest(s) ==
    /\ \A i \in 1 .. Len(fifo) : LastOf(s, i) => fifo[i].version = newest[s]
    /\ tryClassify(s[1], s[2]) /\ s[1] \in DOMAIN coalesced => coalesced[s[1]] = newest[s]
    /\ ~Queued(s) /\ Held(s) => drain.item.version = newest[s]
    /\ ~Queued(s) /\ ~Held(s) => applied[s] = newest[s]

\* Once a source has nothing in the queue, what the FIFO still holds of its
\* parameter is younger, and what the drain took from the FIFO is no older.
Order(s) ==
    ~Queued(s) =>
        /\ \A i \in 1 .. Len(fifo) : fifo[i].par = s[1] => fifo[i].version > newest[s]
        /\ drain.item # NoItem /\ drain.item.par = s[1]
               /\ ~tryClassify(drain.item.par, drain.item.form)
             => drain.item.version >= newest[s]

\* Then nothing older than its newest is the parameter's value, unless a coalesced
\* long form overtook its short one.
Settled(s) ==
    ~Queued(s) /\ ~Held(s) =>
        \/ value[s[1]] >= newest[s]
        \/ /\ s[2] = "short" /\ tryClassify(s[1], "long") /\ "long" \in Forms
           /\ value[s[1]] = applied[<<s[1], "long">>]

\* The FIFO holds its messages in the order of the pushes.
Sorted ==
    /\ \A i \in 1 .. Len(fifo) : fifo[i].version <= pushes
    /\ \A i, j \in 1 .. Len(fifo) : i < j => fifo[i].version < fifo[j].version

AgesKept == Sorted /\ \A s \in Sources : Order(s) /\ Settled(s)

DrainType ==
    /\ drain \in [pc : {"idle", "take", "dispatch", "report"},
                  taken : 0 .. MaxItemsPerTick, item : Items \cup {NoItem}, report : Nat]
    /\ drain.item # NoItem <=> drain.pc = "dispatch"

QueueInv ==
    /\ QueueTypeOK /\ DrainType
    /\ coalesced = [p \in DOMAIN coalesced |-> coalesced[p]] /\ IsFiniteSet(DOMAIN coalesced)
    /\ DOMAIN coalesced # {} => "long" \in Forms
    /\ dropped <= pushes /\ unreported <= pushes
    /\ \A s \in Sources : newest[s] <= pushes
    /\ \A i \in 1 .. Len(fifo) : ~tryClassify(fifo[i].par, fifo[i].form)
    /\ \A s \in Sources : Newest(s)
    /\ AgesKept

\* The limiter's own clock never runs ahead of the wire.
LimiterInv ==
    /\ LimiterTypeOK
    /\ \A t \in Targets : sinceSend[t] <= sinceWire[t]

\* A half waits, or is in the batch, or has been applied in its newest version.
HalfInv(k, h) ==
    /\ waiting[k][h] # 0 => waiting[k][h] = newestHalf[k][h]
    /\ waiting[k][h] = 0 /\ batch[k][h] # 0 => batch[k][h] = newestHalf[k][h]
    /\ waiting[k][h] = 0 /\ batch[k][h] = 0 => appliedHalf[k][h] = newestHalf[k][h]

TrackingInv ==
    /\ TrackingTypeOK /\ IsFiniteSet(Pending(waiting)) /\ IsFiniteSet(Pending(batch))
    /\ \A k \in Trackers, h \in Halves : HalfInv(k, h)

IInv == ReceiverInv /\ QueueInv /\ LimiterInv /\ TrackingInv
-------------------------------------------------------------------------------
(* OSCTCPReceiver *)

\* The types without the bound on the client list.
ReceiverTypes ==
    /\ connected \in BOOLEAN /\ shouldStop \in BOOLEAN /\ listening \in BOOLEAN
    /\ owner \in {"idle", "close", "stopClients", "awaitClients", "join", "members",
                  "lateClients", "gone"}
    /\ destroying \in BOOLEAN
    /\ accept \in [pc : {"none", "test", "reclaim", "wait", "limit", "start", "add"},
                   conn : Conns \cup {NoConn}]
    /\ clients \subseteq Conns
    /\ handler \in [Conns -> [thread : {"none", "loop", "push", "leave", "ended"},
                              stop : BOOLEAN, active : BOOLEAN]]
    /\ peer \in [Conns -> {"idle", "waiting", "open", "closed"}]

\* The bound, and the room kept for the handler under way.
Room ==
    /\ IsFiniteSet(clients) /\ Cardinality(clients) <= MaxClients
    /\ accept.pc \in {"start", "add"} => Cardinality(clients) < MaxClients

InHand ==
    /\ accept.pc \in {"limit", "start", "add"} => accept.conn \in Conns
    /\ ~connected => accept.pc = "none"
    /\ owner \in {"members", "lateClients", "gone"} => ~connected
    /\ owner = "gone" => clients = {}

LEMMA ReceiverParts == ReceiverInv <=> ReceiverTypes /\ Room /\ InHand /\ HandlersOwned
  BY DEF ReceiverInv, ReceiverTypeOK, ReceiverTypes, Room, InHand

ReceiverNext ==
    OwnerStep \/ AcceptStep \/ PeerStep \/ \E c \in Conns : HandlerStep(c) \/ HandlerPush(c)

LEMMA InitReceiver == Init => ReceiverInv
  <1> SUFFICES ASSUME Init PROVE ReceiverInv
    OBVIOUS
  <1> USE DEF Init, ReceiverInit
  <1>1. ReceiverTypes
    BY DEF ReceiverTypes, NoHandler
  <1>2. Room
    BY FS_EmptySet, ReceiverAssumption DEF Room, ReceiverAssumption
  <1>3. InHand /\ HandlersOwned
    BY DEF InHand, HandlersOwned, Alive, NoHandler
  <1>4. QED
    BY <1>1, <1>2, <1>3, ReceiverParts

LEMMA ReceiverTypesStep == ReceiverTypes /\ InHand /\ ReceiverNext => ReceiverTypes' /\ InHand'
  <1> SUFFICES ASSUME ReceiverTypes, InHand, ReceiverNext PROVE ReceiverTypes' /\ InHand'
    OBVIOUS
  <1> USE DEF ReceiverTypes, InHand, Accepting, HandlerAt
  <1>1. CASE OwnerStep
    <2> USE DEF NoHandler
    <2>1. CASE Connect
      BY <2>1 DEF Connect
    <2>2. CASE Disconnect
      BY <2>2 DEF Disconnect
    <2>3. CASE CloseListener
      BY <2>3 DEF CloseListener
    <2>4. CASE StopClients
      BY <2>4 DEF StopClients
    <2>5. CASE StoppedClients
      BY <2>5 DEF StoppedClients
    <2>6. CASE Disconnected
      BY <2>6 DEF Disconnected
    <2>7. CASE Destroy
      BY <2>7 DEF Destroy
    <2>8. ASSUME NEW c \in Conns, StopClient(c) PROVE ReceiverTypes' /\ InHand'
      BY <2>8 DEF StopClient
    <2>9. CASE DestroyMembers
      BY <2>9 DEF DestroyMembers
    <2>10. QED
      BY <1>1, <2>1, <2>2, <2>3, <2>4, <2>5, <2>6, <2>7, <2>8, <2>9 DEF OwnerStep
  <1>2. CASE AcceptStep
    <2> USE DEF NoHandler, NewHandler
    <2>1. CASE AcceptTest
      BY <2>1 DEF AcceptTest
    <2>2. CASE RemoveInactiveClients
      BY <2>2 DEF RemoveInactiveClients
    <2>3. CASE WaitAgain
      BY <2>3 DEF WaitAgain
    <2>4. ASSUME NEW c \in Conns, AcceptConnection(c) PROVE ReceiverTypes' /\ InHand'
      BY <2>4 DEF AcceptConnection
    <2>5. CASE CheckLimit
      BY <2>5 DEF CheckLimit
    <2>6. CASE StartHandler
      BY <2>6 DEF StartHandler
    <2>7. CASE AddClient
      BY <2>7 DEF AddClient
    <2>8. QED
      BY <1>2, <2>1, <2>2, <2>3, <2>4, <2>5, <2>6, <2>7 DEF AcceptStep
  <1>3. CASE PeerStep
    BY <1>3 DEF PeerStep, PeerConnect, PeerClose
  <1>4. ASSUME NEW c \in Conns, HandlerStep(c) \/ HandlerPush(c)
        PROVE  ReceiverTypes' /\ InHand'
    BY <1>4 DEF HandlerStep, HandlerRead, HandlerPush, HandlerLeave, HandlerEnd
  <1>5. QED
    BY <1>1, <1>2, <1>3, <1>4 DEF ReceiverNext

\* Only the accept thread makes the list longer, and it has looked.
LEMMA RoomStep == ReceiverTypes /\ Room /\ ReceiverNext => Room'
  <1> SUFFICES ASSUME ReceiverTypes, Room, ReceiverNext PROVE Room'
    OBVIOUS
  <1>1. IsFiniteSet(clients) /\ Cardinality(clients) \in Nat /\ MaxClients \in Nat \ {0}
    BY FS_CardinalityType, ReceiverAssumption DEF Room, ReceiverAssumption
  <1>2. ASSUME UNCHANGED clients,
               accept'.pc \in {"start", "add"} => accept.pc \in {"start", "add"}
        PROVE  Room'
    BY <1>2 DEF Room
  <1>3. CASE OwnerStep
    <2>1. CASE StoppedClients
      BY <1>1, <2>1, FS_EmptySet DEF StoppedClients, Room
    <2>2. CASE ~StoppedClients
      BY <1>2, <1>3, <2>2
         DEF OwnerStep, Connect, Disconnect, Destroy, CloseListener, StopClients, StopClient,
             Disconnected, DestroyMembers, ReceiverTypes
    <2>3. QED
      BY <2>1, <2>2
  <1>4. CASE AcceptStep
    <2>1. CASE RemoveInactiveClients
      <3>1. clients' \in SUBSET clients /\ accept'.pc = "wait"
        BY <2>1 DEF RemoveInactiveClients, ReceiverTypes
      <3>2. /\ IsFiniteSet(clients') /\ Cardinality(clients') <= Cardinality(clients)
            /\ Cardinality(clients') \in Nat
        BY <1>1, <3>1, FS_Subset, FS_CardinalityType
      <3>3. QED
        BY <1>1, <3>1, <3>2 DEF Room
    <2>2. CASE CheckLimit
      <3>1. UNCHANGED clients
        BY <2>2 DEF CheckLimit
      <3>2. CASE Cardinality(clients) >= MaxClients
        <4>1. accept'.pc = "test"
          BY <2>2, <3>2 DEF CheckLimit
        <4>2. QED
          BY <3>1, <4>1 DEF Room
      <3>3. CASE ~(Cardinality(clients) >= MaxClients)
        BY <1>1, <3>1, <3>3 DEF Room
      <3>4. QED
        BY <3>2, <3>3
    <2>3. CASE AddClient
      <3>1. clients' = clients \cup {accept.conn} /\ accept.pc = "add" /\ accept'.pc = "test"
        BY <2>3 DEF AddClient, Accepting
      <3>2. IsFiniteSet(clients') /\ Cardinality(clients') <= Cardinality(clients) + 1
        BY <1>1, <3>1, FS_AddElement
      <3>3. Cardinality(clients') \in Nat
        BY <3>2, FS_CardinalityType
      <3>4. QED
        BY <1>1, <3>1, <3>2, <3>3 DEF Room
    <2>4. CASE ~RemoveInactiveClients /\ ~CheckLimit /\ ~AddClient
      BY <1>2, <1>4, <2>4
         DEF AcceptStep, AcceptTest, WaitAgain, AcceptConnection, StartHandler, Accepting,
             ReceiverTypes
    <2>5. QED
      BY <2>1, <2>2, <2>3, <2>4
  <1>5. CASE PeerStep
    BY <1>2, <1>5 DEF PeerStep, PeerConnect, PeerClose
  <1>6. ASSUME NEW c \in Conns, HandlerStep(c) \/ HandlerPush(c) PROVE Room'
    BY <1>2, <1>6 DEF HandlerStep, HandlerRead, HandlerPush, HandlerLeave, HandlerEnd
  <1>7. QED
    BY <1>3, <1>4, <1>5, <1>6 DEF ReceiverNext

\* A handler leaves the list, or is destroyed, when its thread has ended; it is
\* in the hand of the accept thread from its start until it is in the list.
LEMMA OwnedStep == ReceiverTypes /\ InHand /\ HandlersOwned /\ ReceiverNext => HandlersOwned'
  <1> SUFFICES ASSUME ReceiverTypes, InHand, HandlersOwned, ReceiverNext PROVE HandlersOwned'
    OBVIOUS
  <1> USE DEF HandlersOwned, Alive, Accepting, ReceiverTypes, InHand
  <1>1. CASE OwnerStep
    <2>1. CASE Connect
      BY <2>1 DEF Connect
    <2>2. CASE StopClients
      BY <2>2 DEF StopClients
    <2>3. CASE StoppedClients
      BY <2>3 DEF StoppedClients, NoHandler
    <2>4. CASE Disconnect \/ Destroy \/ CloseListener \/ Disconnected \/ DestroyMembers
      BY <2>4 DEF Disconnect, Destroy, CloseListener, Disconnected, DestroyMembers
    <2>5. ASSUME NEW c \in Conns, StopClient(c) PROVE HandlersOwned'
      BY <2>5 DEF StopClient
    <2>6. QED
      BY <1>1, <2>1, <2>2, <2>3, <2>4, <2>5 DEF OwnerStep
  <1>2. CASE AcceptStep
    <2>1. CASE RemoveInactiveClients
      BY <2>1 DEF RemoveInactiveClients, NoHandler
    <2>2. CASE StartHandler
      BY <2>2 DEF StartHandler
    <2>3. CASE AddClient
      BY <2>3 DEF AddClient
    <2>4. CASE AcceptTest \/ WaitAgain \/ CheckLimit
      BY <2>4 DEF AcceptTest, WaitAgain, CheckLimit
    <2>5. ASSUME NEW c \in Conns, AcceptConnection(c) PROVE HandlersOwned'
      BY <2>5 DEF AcceptConnection
    <2>6. QED
      BY <1>2, <2>1, <2>2, <2>3, <2>4, <2>5 DEF AcceptStep
  <1>3. CASE PeerStep
    BY <1>3 DEF PeerStep, PeerConnect, PeerClose
  <1>4. ASSUME NEW c \in Conns, HandlerStep(c) \/ HandlerPush(c) PROVE HandlersOwned'
    BY <1>4 DEF HandlerStep, HandlerRead, HandlerPush, HandlerLeave, HandlerEnd, HandlerAt
  <1>5. QED
    BY <1>1, <1>2, <1>3, <1>4 DEF ReceiverNext

LEMMA ReceiverStep == ReceiverInv /\ (ReceiverNext \/ UNCHANGED rvars) => ReceiverInv'
  <1> SUFFICES ASSUME ReceiverInv, ReceiverNext \/ UNCHANGED rvars PROVE ReceiverInv'
    OBVIOUS
  <1>1. ReceiverTypes /\ Room /\ InHand /\ HandlersOwned
    BY ReceiverParts
  <1>2. (ReceiverInv <=> ReceiverTypes /\ Room /\ InHand /\ HandlersOwned)'
    BY ReceiverParts, PTL
  <1>3. CASE ReceiverNext
    BY <1>1, <1>2, <1>3, ReceiverTypesStep, RoomStep, OwnedStep
  <1>4. CASE UNCHANGED rvars
    BY <1>1, <1>2, <1>4 DEF rvars, ReceiverTypes, Room, InHand, HandlersOwned, Alive, Accepting
  <1>5. QED
    BY <1>3, <1>4
-------------------------------------------------------------------------------
(* OSCRateLimiter *)

LimiterNext ==
    \/ \E t \in Targets \cup {Broadcast}, k \in Keys : queueMessage(t, k)
    \/ limiterTimerCallback \/ flushAll \/ clearAll
    \/ \E interval \in Intervals : setMaxRate(interval)
    \/ LimiterTick /\ UNCHANGED <<targetQueues, broadcastQueue, minInterval, queued, received>>

LEMMA InitLimiter == Init => LimiterInv
  <1> SUFFICES ASSUME Init PROVE LimiterInv
    OBVIOUS
  <1> USE LimiterAssumption
     DEF LimiterAssumption, Init, LimiterInit, LimiterInv, LimiterTypeOK, IsQueue, EmptyQueue
  <1>1. sinceSend \in [Targets -> 0 .. MaxInterval] /\ sinceWire \in [Targets -> 0 .. MaxInterval]
    OBVIOUS
  <1>2. received \in [Targets -> [Keys -> 0 .. MaxQueued]]
    OBVIOUS
  <1>3. QED
    BY <1>1, <1>2

\* Queueing one more version, under a key, keeps a queue a queue.
LEMMA QueueType ==
    ASSUME LimiterTypeOK, queued < MaxQueued, NEW k \in Keys, NEW q, IsQueue(q)
    PROVE  IsQueue(Queue(q, k, queued + 1))
  <1>1. queued + 1 \in 1 .. MaxQueued
    BY LimiterAssumption DEF LimiterTypeOK, LimiterAssumption
  <1>2. QED
    BY <1>1 DEF IsQueue, Queue

\* Sending the messages of a queue leaves each key with a version.
LEMMA AfterType ==
    ASSUME NEW q, IsQueue(q), NEW has \in [Keys -> 0 .. MaxQueued]
    PROVE  After(q, has) \in [Keys -> 0 .. MaxQueued]
  <1>1. \A v \in 1 .. MaxQueued : v \in 0 .. MaxQueued
    BY LimiterAssumption DEF LimiterAssumption
  <1>2. QED
    BY <1>1 DEF IsQueue, After

LEMMA LimiterStep == LimiterInv /\ (LimiterNext \/ UNCHANGED lvars) => LimiterInv'
  <1> SUFFICES ASSUME LimiterInv, LimiterNext \/ UNCHANGED lvars PROVE LimiterInv'
    OBVIOUS
  <1>0. /\ LimiterTypeOK /\ \A t \in Targets : sinceSend[t] <= sinceWire[t]
        /\ MaxInterval \in Nat /\ MaxQueued \in Nat
        /\ IsQueue(EmptyQueue)
    BY LimiterAssumption DEF LimiterInv, LimiterAssumption, IsQueue, EmptyQueue
  <1>1. ASSUME NEW t \in Targets \cup {Broadcast}, NEW k \in Keys, queueMessage(t, k)
        PROVE  LimiterInv'
    <2>1. queued < MaxQueued /\ queued' \in 0 .. MaxQueued
      BY <1>0, <1>1 DEF queueMessage, LimiterTypeOK
    <2>2. CASE t = Broadcast
      <3>1. IsQueue(broadcastQueue')
        BY <1>0, <1>1, <2>1, <2>2, QueueType DEF queueMessage, LimiterTypeOK
      <3>2. QED
        BY <1>0, <1>1, <2>1, <2>2, <3>1
           DEF queueMessage, LimiterInv, LimiterTypeOK, IsQueue
    <2>3. CASE t # Broadcast
      <3>1. /\ t \in Targets /\ DOMAIN targetQueues = Targets
            /\ targetQueues' = [targetQueues EXCEPT ![t] = Queue(targetQueues[t], k, queued + 1)]
        BY <1>0, <1>1, <2>3 DEF queueMessage, LimiterTypeOK
      <3>2. IsQueue(Queue(targetQueues[t], k, queued + 1))
        BY <1>0, <2>1, <3>1, QueueType DEF LimiterTypeOK
      <3>3. DOMAIN targetQueues' = Targets
        BY <3>1
      <3>4. \A u \in Targets : IsQueue(targetQueues'[u])
        <4>1. ASSUME NEW u \in Targets PROVE IsQueue(targetQueues'[u])
          <5>1. CASE u = t
            BY <3>1, <3>2, <5>1
          <5>2. CASE u # t
            <6>1. targetQueues'[u] = targetQueues[u]
              BY <3>1, <5>2
            <6>2. QED
              BY <1>0, <6>1 DEF LimiterTypeOK
          <5>3. QED
            BY <5>1, <5>2
        <4>2. QED
          BY <4>1
      <3>5. UNCHANGED <<broadcastQueue, minInterval, sinceSend, sinceWire, received>>
        BY <1>1, <2>3 DEF queueMessage
      <3>6. QED
        BY <1>0, <2>1, <3>3, <3>4, <3>5 DEF LimiterInv, LimiterTypeOK, IsQueue
    <2>4. QED
      BY <2>2, <2>3
  <1>2. CASE processBroadcast /\ UNCHANGED <<minInterval, queued>>
    <2>1. received' \in [Targets -> [Keys -> 0 .. MaxQueued]]
      <3>1. \A t \in Targets : After(broadcastQueue, received[t]) \in [Keys -> 0 .. MaxQueued]
        BY <1>0, AfterType DEF LimiterTypeOK
      <3>2. QED
        BY <1>0, <1>2, <3>1 DEF processBroadcast, LimiterTypeOK
    <2>2. /\ sinceSend' = [t \in Targets |-> 0]
          /\ sinceWire' \in [Targets -> 0 .. MaxInterval]
      BY <1>0, <1>2 DEF processBroadcast, LimiterTypeOK
    <2>3. /\ DOMAIN targetQueues' = Targets /\ \A t \in Targets : IsQueue(targetQueues'[t])
          /\ IsQueue(broadcastQueue')
      BY <1>0, <1>2 DEF processBroadcast, LimiterTypeOK
    <2>4. QED
      BY <1>0, <1>2, <2>1, <2>2, <2>3 DEF LimiterInv, LimiterTypeOK, IsQueue
  <1>3. CASE processTargets /\ UNCHANGED <<minInterval, queued>>
    <2>1. received' \in [Targets -> [Keys -> 0 .. MaxQueued]]
      <3>1. \A t \in Targets : After(targetQueues[t], received[t]) \in [Keys -> 0 .. MaxQueued]
        BY <1>0, AfterType DEF LimiterTypeOK
      <3>2. QED
        BY <1>0, <1>3, <3>1 DEF processTargets, LimiterTypeOK
    <2>2. /\ sinceSend' \in [Targets -> 0 .. MaxInterval]
          /\ sinceWire' \in [Targets -> 0 .. MaxInterval]
          /\ \A t \in Targets : sinceSend'[t] <= sinceWire'[t]
      BY <1>0, <1>3 DEF processTargets, LimiterTypeOK
    <2>3. /\ DOMAIN targetQueues' = Targets /\ \A t \in Targets : IsQueue(targetQueues'[t])
          /\ UNCHANGED broadcastQueue
      BY <1>0, <1>3 DEF processTargets, LimiterTypeOK
    <2>4. QED
      BY <1>0, <1>3, <2>1, <2>2, <2>3 DEF LimiterInv, LimiterTypeOK, IsQueue
  <1>4. CASE flushAll
    <2>1. received' \in [Targets -> [Keys -> 0 .. MaxQueued]]
      <3>1. \A t \in Targets : After(broadcastQueue, received[t]) \in [Keys -> 0 .. MaxQueued]
        BY <1>0, AfterType DEF LimiterTypeOK
      <3>2. \A t \in Targets : After(targetQueues[t], After(broadcastQueue, received[t]))
                                  \in [Keys -> 0 .. MaxQueued]
        BY <1>0, <3>1, AfterType DEF LimiterTypeOK
      <3>3. QED
        BY <1>0, <1>4, <3>2 DEF flushAll, LimiterTypeOK
    <2>2. /\ sinceSend' = [t \in Targets |-> 0]
          /\ sinceWire' \in [Targets -> 0 .. MaxInterval]
      BY <1>0, <1>4 DEF flushAll, LimiterTypeOK
    <2>3. /\ DOMAIN targetQueues' = Targets /\ \A t \in Targets : IsQueue(targetQueues'[t])
          /\ IsQueue(broadcastQueue') /\ UNCHANGED <<minInterval, queued>>
      BY <1>0, <1>4 DEF flushAll, LimiterTypeOK
    <2>4. QED
      BY <1>0, <2>1, <2>2, <2>3 DEF LimiterInv, LimiterTypeOK, IsQueue
  <1>5. CASE clearAll
    <2>1. /\ DOMAIN targetQueues' = Targets /\ \A t \in Targets : IsQueue(targetQueues'[t])
          /\ IsQueue(broadcastQueue') /\ UNCHANGED <<minInterval, sinceSend, queued, sinceWire,
                                                   received>>
      BY <1>0, <1>5 DEF clearAll, LimiterTypeOK
    <2>2. QED
      BY <1>0, <2>1 DEF LimiterInv, LimiterTypeOK, IsQueue
  <1>6. CASE LimiterTick /\ UNCHANGED <<targetQueues, broadcastQueue, minInterval, queued, received>>
    <2>1. /\ sinceSend' \in [Targets -> 0 .. MaxInterval]
          /\ sinceWire' \in [Targets -> 0 .. MaxInterval]
          /\ \A t \in Targets : sinceSend'[t] <= sinceWire'[t]
      BY <1>0, <1>6 DEF LimiterTick, Later, LimiterTypeOK
    <2>2. QED
      BY <1>0, <1>6, <2>1 DEF LimiterInv, LimiterTypeOK, IsQueue
  <1>7. CASE UNCHANGED lvars
    BY <1>0, <1>7 DEF LimiterInv, LimiterTypeOK, IsQueue, lvars
  <1>8. ASSUME NEW interval \in Intervals, setMaxRate(interval) PROVE LimiterInv'
    BY <1>0, <1>8 DEF setMaxRate, LimiterInv, LimiterTypeOK, IsQueue
  <1>9. QED
    BY <1>1, <1>2, <1>3, <1>4, <1>5, <1>6, <1>7, <1>8 DEF LimiterNext, limiterTimerCallback
-------------------------------------------------------------------------------
(* TrackingIngestQueue *)

TrackingNext ==
    \/ \E k \in Trackers, has \in SUBSET Halves, bad \in SUBSET Halves : PushSample(k, has, bad)
    \/ TakeBatch
    \/ \E k \in Trackers : ApplySample(k)

HalvesOf == [Halves -> 0 .. MaxSamples]

\* The tracking types but for the counts of pending samples.
TrackingTypes ==
    /\ waiting \in HalfVersions /\ batch \in HalfVersions
    /\ newestHalf \in HalfVersions /\ appliedHalf \in HalfVersions
    /\ draining = (Pending(batch) # {}) /\ samples \in 0 .. MaxSamples

Counted ==
    /\ IsFiniteSet(Pending(waiting)) /\ Cardinality(Pending(waiting)) <= TrackerCap
    /\ IsFiniteSet(Pending(batch)) /\ Cardinality(Pending(batch)) <= MaxPerTick

HalvesKept == \A k \in Trackers, h \in Halves : HalfInv(k, h)

LEMMA TrackingParts == TrackingInv <=> TrackingTypes /\ Counted /\ HalvesKept
  BY DEF TrackingInv, TrackingTypeOK, TrackingTypes, Counted, HalvesKept

LEMMA TrackingNumbers ==
    /\ TrackerCap \in Nat \ {0} /\ MaxPerTick \in Nat \ {0} /\ MaxSamples \in Nat
    /\ None \in HalvesOf /\ HalfVersions = [Trackers -> HalvesOf]
  BY TrackingAssumption DEF TrackingAssumption, None, HalvesOf, HalfVersions

\* Laying a newer sample over an older one.
LEMMA OverType ==
    ASSUME NEW new \in HalvesOf, NEW old \in HalvesOf
    PROVE  /\ Over(new, old) \in HalvesOf
           /\ \A h \in Halves : Over(new, old)[h] = IF new[h] # 0 THEN new[h] ELSE old[h]
           /\ new # None => Over(new, old) # None
  <1>1. Over(new, old) \in HalvesOf
    BY DEF Over, HalvesOf
  <1>2. \A h \in Halves : Over(new, old)[h] = IF new[h] # 0 THEN new[h] ELSE old[h]
    BY DEF Over
  <1>3. ASSUME new # None PROVE Over(new, old) # None
    <2>1. PICK h \in Halves : new[h] # 0
      BY <1>3 DEF None, HalvesOf
    <2>2. Over(new, old)[h] # 0
      BY <1>2, <2>1
    <2>3. None[h] = 0
      BY DEF None
    <2>4. QED
      BY <2>2, <2>3
  <1>4. QED
    BY <1>1, <1>2, <1>3

LEMMA InitTracking == Init => TrackingInv
  <1> SUFFICES ASSUME Init PROVE TrackingInv
    OBVIOUS
  <1> USE TrackingNumbers DEF Init, TrackingInit
  <1>1. Pending(waiting) = {} /\ Pending(batch) = {}
    BY DEF Pending
  <1>2. TrackingTypes
    <2>1. draining = (Pending(batch) # {})
      BY <1>1
    <2>2. [k \in Trackers |-> None] \in HalfVersions /\ 0 \in 0 .. MaxSamples
      OBVIOUS
    <2>3. QED
      BY <2>1, <2>2 DEF TrackingTypes
  <1>3. Counted
    <2>1. IsFiniteSet({}) /\ Cardinality({}) = 0
      BY FS_EmptySet
    <2>2. QED
      BY <1>1, <2>1 DEF Counted
  <1>4. HalvesKept
    BY DEF HalvesKept, HalfInv, None
  <1>5. QED
    BY <1>2, <1>3, <1>4, TrackingParts

\* A sample is merged half by half, and a full queue keeps what it has.
LEMMA PushSampleKeeps ==
    ASSUME TrackingTypes, Counted, HalvesKept, NEW k \in Trackers,
           NEW has \in SUBSET Halves, NEW bad \in SUBSET Halves, PushSample(k, has, bad)
    PROVE  TrackingTypes' /\ Counted' /\ HalvesKept'
  <1> DEFINE update == [h \in Halves |-> IF h \in has \ bad THEN samples + 1 ELSE 0]
  <1>1. /\ samples < MaxSamples /\ samples' = samples + 1
        /\ UNCHANGED <<batch, draining, appliedHalf>>
    BY DEF PushSample
  <1>2. samples' \in 0 .. MaxSamples /\ update \in HalvesOf
    BY <1>1, TrackingNumbers DEF TrackingTypes, HalvesOf
  <1>3. CASE UNCHANGED <<waiting, newestHalf>>
    BY <1>1, <1>2, <1>3 DEF TrackingTypes, Counted, HalvesKept, HalfInv, Pending
  <1>4. CASE ~UNCHANGED <<waiting, newestHalf>>
    <2>1. /\ update # None
          /\ waiting[k] # None \/ ~(Cardinality(Pending(waiting)) >= TrackerCap)
          /\ waiting' = [waiting EXCEPT ![k] = Over(update, waiting[k])]
          /\ newestHalf' = [newestHalf EXCEPT ![k] = Over(update, newestHalf[k])]
      BY <1>4 DEF PushSample, Merge
    <2> HIDE DEF update
    <2>2. /\ waiting \in [Trackers -> HalvesOf] /\ newestHalf \in [Trackers -> HalvesOf]
          /\ waiting[k] \in HalvesOf /\ newestHalf[k] \in HalvesOf
      BY TrackingNumbers DEF TrackingTypes
    <2>3. /\ Over(update, waiting[k]) \in HalvesOf /\ Over(update, waiting[k]) # None
          /\ Over(update, newestHalf[k]) \in HalvesOf
      BY <1>2, <2>1, <2>2, OverType
    <2>4. TrackingTypes'
      BY <1>1, <1>2, <2>1, <2>2, <2>3, TrackingNumbers DEF TrackingTypes, Pending
    <2>5. Counted'
      <3>1. Pending(waiting') = Pending(waiting) \cup {k}
        BY <2>1, <2>2, <2>3 DEF Pending
      <3>2. k \in Pending(waiting) <=> waiting[k] # None
        BY DEF Pending
      <3>3. IsFiniteSet(Pending(waiting)) /\ Cardinality(Pending(waiting)) \in Nat
        BY FS_CardinalityType DEF Counted
      <3>4. /\ IsFiniteSet(Pending(waiting'))
            /\ Cardinality(Pending(waiting')) =
                 IF k \in Pending(waiting) THEN Cardinality(Pending(waiting))
                 ELSE Cardinality(Pending(waiting)) + 1
        BY <3>1, <3>3, FS_AddElement
      <3>5. Cardinality(Pending(waiting')) <= TrackerCap
        BY <2>1, <3>2, <3>3, <3>4, TrackingNumbers DEF Counted
      <3>6. QED
        BY <1>1, <3>4, <3>5 DEF Counted, Pending
    <2>6. HalvesKept'
      <3>1. ASSUME NEW j \in Trackers, NEW h \in Halves PROVE HalfInv(j, h)'
        <4>1. HalfInv(j, h)
          BY DEF HalvesKept
        <4>2. CASE j # k
          BY <1>1, <2>1, <2>2, <4>1, <4>2 DEF HalfInv
        <4>3. CASE j = k
          <5>1. /\ waiting'[k][h] = IF update[h] # 0 THEN update[h] ELSE waiting[k][h]
                /\ newestHalf'[k][h] = IF update[h] # 0 THEN update[h] ELSE newestHalf[k][h]
            BY <1>2, <2>1, <2>2, OverType
          <5>2. QED
            BY <1>1, <4>1, <4>3, <5>1 DEF HalfInv
        <4>4. QED
          BY <4>2, <4>3
      <3>2. QED
        BY <3>1 DEF HalvesKept
    <2>7. QED
      BY <2>4, <2>5, <2>6
  <1>5. QED
    BY <1>3, <1>4

\* A batch is part of what waits, and none of the last one is left.
LEMMA TakeBatchKeeps ==
    ASSUME TrackingTypes, Counted, HalvesKept, TakeBatch
    PROVE  TrackingTypes' /\ Counted' /\ HalvesKept'
  <1>1. PICK taken \in SUBSET Pending(waiting) :
          /\ \/ Cardinality(taken) = MaxPerTick
             \/ taken = Pending(waiting) /\ Cardinality(taken) < MaxPerTick
          /\ batch' = [k \in Trackers |-> IF k \in taken THEN waiting[k] ELSE None]
          /\ waiting' = [k \in Trackers |-> IF k \in taken THEN None ELSE waiting[k]]
    BY DEF TakeBatch
  <1>2. /\ ~draining /\ Pending(waiting) # {} /\ draining' = TRUE
        /\ UNCHANGED <<samples, newestHalf, appliedHalf>>
    BY DEF TakeBatch
  <1>3. waiting \in [Trackers -> HalvesOf] /\ batch \in [Trackers -> HalvesOf]
    BY TrackingNumbers DEF TrackingTypes
  <1>4. Pending(waiting') = Pending(waiting) \ taken /\ Pending(batch') = taken
    BY <1>1, <1>3 DEF Pending
  <1>5. /\ IsFiniteSet(Pending(waiting)) /\ Cardinality(Pending(waiting)) \in Nat
        /\ Cardinality(Pending(waiting)) <= TrackerCap
    BY FS_CardinalityType DEF Counted
  <1>6. /\ IsFiniteSet(taken) /\ IsFiniteSet(Pending(waiting'))
        /\ Cardinality(Pending(waiting')) <= Cardinality(Pending(waiting))
    <2>1. Pending(waiting') \in SUBSET Pending(waiting)
      BY <1>4
    <2>2. QED
      BY <1>5, <2>1, FS_Subset
  <1>7. /\ Cardinality(taken) \in Nat /\ Cardinality(Pending(waiting')) \in Nat
        /\ Cardinality(taken) = 0 <=> taken = {}
    BY <1>6, FS_CardinalityType, FS_EmptySet
  <1>8. Counted'
    BY <1>1, <1>4, <1>5, <1>6, <1>7, TrackingNumbers DEF Counted, Pending
  <1>9. TrackingTypes'
    <2>1. taken # {}
      BY <1>1, <1>2, <1>7, TrackingNumbers
    <2>2. waiting' \in HalfVersions /\ batch' \in HalfVersions
      BY <1>1, <1>3, TrackingNumbers
    <2>3. draining' = (Pending(batch)' # {})
      BY <1>2, <1>4, <2>1 DEF Pending
    <2>4. QED
      BY <1>2, <2>2, <2>3 DEF TrackingTypes
  <1>10. HalvesKept'
    <2>1. ASSUME NEW k \in Trackers, NEW h \in Halves PROVE HalfInv(k, h)'
      <3>1. HalfInv(k, h)
        BY DEF HalvesKept
      <3>2. batch[k] = None
        BY <1>2 DEF TrackingTypes, Pending
      <3>3. batch[k][h] = 0 /\ None[h] = 0
        BY <3>2 DEF None
      <3>4. CASE k \in taken
        BY <1>1, <1>2, <3>1, <3>3, <3>4 DEF HalfInv
      <3>5. CASE k \notin taken
        BY <1>1, <1>2, <3>1, <3>3, <3>5 DEF HalfInv
      <3>6. QED
        BY <3>4, <3>5
    <2>2. QED
      BY <2>1 DEF HalvesKept
  <1>11. QED
    BY <1>8, <1>9, <1>10

LEMMA ApplySampleKeeps ==
    ASSUME TrackingTypes, Counted, HalvesKept, NEW k \in Trackers, ApplySample(k)
    PROVE  TrackingTypes' /\ Counted' /\ HalvesKept'
  <1>1. /\ batch[k] # None
        /\ appliedHalf' = [appliedHalf EXCEPT ![k] = Over(batch[k], appliedHalf[k])]
        /\ batch' = [batch EXCEPT ![k] = None] /\ draining' = (Pending(batch) # {k})
        /\ UNCHANGED <<waiting, samples, newestHalf>>
    BY DEF ApplySample
  <1>2. batch \in [Trackers -> HalvesOf] /\ appliedHalf \in [Trackers -> HalvesOf]
    BY TrackingNumbers DEF TrackingTypes
  <1>3. Pending(batch') = Pending(batch) \ {k} /\ k \in Pending(batch)
    BY <1>1, <1>2 DEF Pending
  <1>4. Over(batch[k], appliedHalf[k]) \in HalvesOf
    BY <1>2, OverType
  <1>5. TrackingTypes'
    BY <1>1, <1>2, <1>3, <1>4, TrackingNumbers DEF TrackingTypes, Pending
  <1>6. Counted'
    <2>1. IsFiniteSet(Pending(batch)) /\ Pending(batch') \in SUBSET Pending(batch)
      BY <1>3 DEF Counted
    <2>2. /\ IsFiniteSet(Pending(batch'))
          /\ Cardinality(Pending(batch')) <= Cardinality(Pending(batch))
      BY <2>1, FS_Subset
    <2>3. Cardinality(Pending(batch')) \in Nat /\ Cardinality(Pending(batch)) \in Nat
      BY <2>1, <2>2, FS_CardinalityType
    <2>4. QED
      BY <1>1, <2>2, <2>3, TrackingNumbers DEF Counted, Pending
  <1>7. HalvesKept'
    <2>1. ASSUME NEW j \in Trackers, NEW h \in Halves PROVE HalfInv(j, h)'
      <3>1. HalfInv(j, h)
        BY DEF HalvesKept
      <3>2. CASE j # k
        BY <1>1, <1>2, <3>1, <3>2 DEF HalfInv
      <3>3. CASE j = k
        <4>1. /\ appliedHalf'[k][h] = IF batch[k][h] # 0 THEN batch[k][h] ELSE appliedHalf[k][h]
              /\ batch'[k][h] = 0
          BY <1>1, <1>2, OverType DEF None
        <4>2. QED
          BY <1>1, <3>1, <3>3, <4>1 DEF HalfInv
      <3>4. QED
        BY <3>2, <3>3
    <2>2. QED
      BY <2>1 DEF HalvesKept
  <1>8. QED
    BY <1>5, <1>6, <1>7

LEMMA TrackingStep == TrackingInv /\ (TrackingNext \/ UNCHANGED tvars) => TrackingInv'
  <1> SUFFICES ASSUME TrackingInv, TrackingNext \/ UNCHANGED tvars PROVE TrackingInv'
    OBVIOUS
  <1>1. TrackingTypes /\ Counted /\ HalvesKept
    BY TrackingParts
  <1>2. (TrackingInv <=> TrackingTypes /\ Counted /\ HalvesKept)'
    BY TrackingParts, PTL
  <1>3. CASE TrackingNext
    BY <1>1, <1>2, <1>3, PushSampleKeeps, TakeBatchKeeps, ApplySampleKeeps DEF TrackingNext
  <1>4. CASE UNCHANGED tvars
    BY <1>1, <1>2, <1>4 DEF tvars, TrackingTypes, Counted, HalvesKept, HalfInv, Pending
  <1>5. QED
    BY <1>3, <1>4
-------------------------------------------------------------------------------
(* OSCIngestQueue *)

QueueNext ==
    \/ \E s \in Sources : Push(s[1], s[2])
    \/ \E second \in BOOLEAN : BeginDrain(second)
    \/ TakeItem
    \/ \E over \in BOOLEAN : DispatchItem(over)
    \/ StopTaking \/ EndDrain

\* The queue's types but for the count of the coalesced keys.
QueueTypes ==
    /\ coalesced \in [DOMAIN coalesced -> 1 .. MaxPushes]
    /\ DOMAIN coalesced \subseteq Params \ BypassParams
    /\ DOMAIN coalesced # {} => "long" \in Forms
    /\ fifo \in Seq(Items) /\ Len(fifo) <= FifoCap
    /\ dropped \in 0 .. pushes /\ unreported \in 0 .. pushes /\ pushes \in 0 .. MaxPushes
    /\ reported \in BOOLEAN /\ DrainType
    /\ newest \in [Sources -> 0 .. pushes] /\ applied \in [Sources -> 0 .. MaxPushes]
    /\ value \in [Params -> 0 .. MaxPushes]

KeysBounded == IsFiniteSet(DOMAIN coalesced) /\ Cardinality(DOMAIN coalesced) <= CoalesceCap

\* The FIFO holds what is not coalesced.
FifoForms == \A i \in 1 .. Len(fifo) : ~tryClassify(fifo[i].par, fifo[i].form)

NewestKept == \A s \in Sources : Newest(s)

LEMMA QueueNumbers ==
    /\ CoalesceCap \in Nat \ {0} /\ FifoCap \in Nat \ {0} /\ MaxItemsPerTick \in Nat \ {0}
    /\ MaxPushes \in Nat /\ "none" \notin Forms
  BY QueueAssumption DEF QueueAssumption

LEMMA QueueParts ==
  QueueInv <=> QueueTypes /\ KeysBounded /\ FifoForms /\ NewestKept /\ AgesKept
  <1>1. QueueInv => QueueTypes
    BY QueueNumbers DEF QueueInv, QueueTypeOK, QueueTypes, DrainType, Items
  <1>2. QueueInv => KeysBounded /\ FifoForms /\ NewestKept /\ AgesKept
    BY DEF QueueInv, QueueTypeOK, KeysBounded, FifoForms, NewestKept
  <1>3. ASSUME QueueTypes, KeysBounded, FifoForms, NewestKept, AgesKept PROVE QueueInv
    <2>1. /\ {dropped, unreported, pushes} \subseteq 0 .. MaxPushes
          /\ dropped <= pushes /\ unreported <= pushes
          /\ newest \in [Sources -> 0 .. MaxPushes] /\ \A s \in Sources : newest[s] <= pushes
      <3>1. pushes \in Nat /\ pushes <= MaxPushes
        BY <1>3, QueueNumbers DEF QueueTypes
      <3>2. \A n \in 0 .. pushes : n \in 0 .. MaxPushes /\ n <= pushes
        BY <3>1, QueueNumbers
      <3>3. QED
        BY <1>3, <3>1, <3>2 DEF QueueTypes
    <2>2. QueueTypeOK
      BY <1>3, <2>1 DEF QueueTypes, KeysBounded, QueueTypeOK, DrainType, Items
    <2>3. QED
      BY <1>3, <2>1, <2>2 DEF QueueInv, QueueTypes, KeysBounded, FifoForms, NewestKept
  <1>4. QED
    BY <1>1, <1>2, <1>3

LEMMA SourceParts ==
    /\ \A s \in Sources : s[1] \in Params /\ s[2] \in Forms /\ s = <<s[1], s[2]>>
    /\ \A m \in Items : SourceOf(m) \in Sources /\ m # NoItem
    /\ \A m \in Items : SourceOf(m) = <<m.par, m.form>>
  BY QueueNumbers DEF Sources, Items, SourceOf, NoItem

LEMMA InitQueue == Init => QueueInv
  <1> SUFFICES ASSUME Init PROVE QueueInv
    OBVIOUS
  <1> USE QueueNumbers DEF Init, QueueInit
  <1>1. DOMAIN coalesced = {} /\ fifo = <<>> /\ drain = IdleDrain /\ Len(fifo) = 0
    OBVIOUS
  <1>2. DrainType
    BY <1>1 DEF DrainType, IdleDrain
  <1>3. QueueTypes
    <2>1. coalesced \in [DOMAIN coalesced -> 1 .. MaxPushes] /\ fifo \in Seq(Items)
      BY <1>1
    <2>2. /\ newest \in [Sources -> 0 .. pushes] /\ applied \in [Sources -> 0 .. MaxPushes]
          /\ value \in [Params -> 0 .. MaxPushes]
      OBVIOUS
    <2>3. dropped = 0 /\ unreported = 0 /\ pushes = 0 /\ reported = FALSE
      OBVIOUS
    <2> HIDE DEF Init, QueueInit
    <2>4. /\ dropped \in 0 .. pushes /\ unreported \in 0 .. pushes
          /\ pushes \in 0 .. MaxPushes /\ reported \in BOOLEAN
      <3>1. MaxPushes \in Nat /\ 0 \in 0 .. MaxPushes /\ 0 \in 0 .. 0
        BY QueueNumbers
      <3>2. reported \in BOOLEAN
        BY <2>3
      <3>3. QED
        BY <2>3, <3>1, <3>2
    <2>5. Len(fifo) <= FifoCap
      BY <1>1, QueueNumbers
    <2>6. QED
      BY <1>1, <1>2, <2>1, <2>2, <2>4, <2>5 DEF QueueTypes
  <1>4. KeysBounded
    <2>1. IsFiniteSet({}) /\ Cardinality({}) = 0
      BY FS_EmptySet
    <2>2. QED
      BY <1>1, <2>1 DEF KeysBounded
  <1>5. FifoForms
    BY <1>1 DEF FifoForms
  <1>6. NewestKept
    BY <1>1 DEF NewestKept, Newest, LastOf, Held, Queued, IdleDrain
  <1>7. AgesKept
    <2>1. value = [p \in Params |-> 0] /\ newest = [t \in Sources |-> 0]
      OBVIOUS
    <2>2. \A s \in Sources : s[1] \in Params /\ value[s[1]] >= newest[s]
      BY <2>1, SourceParts
    <2>3. QED
      BY <1>1, <2>2 DEF AgesKept, Sorted, Order, Settled, IdleDrain
  <1>8. QED
    BY <1>3, <1>4, <1>5, <1>6, <1>7, QueueParts

\* A step that leaves the queues and the item in hand alone.
LEMMA QuietQueue ==
    ASSUME NewestKept, UNCHANGED <<coalesced, fifo, newest, applied>>, drain'.item = drain.item
    PROVE  NewestKept'
  BY DEF NewestKept, Newest, LastOf, Held, Queued

\* What is dropped leaves no trace but the counts.
LEMMA DropKeeps ==
    ASSUME QueueTypes, KeysBounded, FifoForms, NewestKept, pushes < MaxPushes,
           pushes' = pushes + 1, Drop, UNCHANGED <<reported, drain, applied, value>>
    PROVE  QueueTypes' /\ KeysBounded' /\ FifoForms' /\ NewestKept'
  <1>1. /\ pushes' \in 0 .. MaxPushes /\ dropped' \in 0 .. pushes' /\ unreported' \in 0 .. pushes'
        /\ newest' \in [Sources -> 0 .. pushes']
    <2>1. \A n \in 0 .. pushes : n \in 0 .. pushes + 1 /\ n + 1 \in 0 .. pushes + 1
      BY QueueNumbers DEF QueueTypes
    <2>2. newest' \in [Sources -> 0 .. pushes']
      BY <2>1 DEF QueueTypes, Drop
    <2>3. dropped' = dropped + 1 /\ unreported' = unreported + 1
      BY DEF Drop
    <2>4. pushes' \in 0 .. MaxPushes
      BY QueueNumbers DEF QueueTypes
    <2>5. QED
      BY <2>1, <2>2, <2>3, <2>4 DEF QueueTypes
  <1>2. UNCHANGED <<coalesced, fifo, newest, applied, value, drain, reported>>
    BY DEF Drop
  <1>3. NewestKept'
    BY <1>2, QuietQueue
  <1>4. QED
    BY <1>1, <1>2, <1>3 DEF QueueTypes, KeysBounded, FifoForms, DrainType

\* A key's newest value replaces the one that waits.
LEMMA CoalesceKeeps ==
    ASSUME QueueTypes, KeysBounded, FifoForms, NewestKept, pushes < MaxPushes,
           pushes' = pushes + 1, NEW p \in Params, NEW f \in Forms, tryClassify(p, f),
           ~(Cardinality(DOMAIN coalesced) >= CoalesceCap /\ p \notin DOMAIN coalesced),
           coalesced' = Coalesce(coalesced, p, pushes + 1),
           newest' = [newest EXCEPT ![<<p, f>>] = pushes + 1],
           UNCHANGED <<fifo, dropped, unreported, reported, drain, applied, value>>
    PROVE  QueueTypes' /\ KeysBounded' /\ FifoForms' /\ NewestKept'
  <1> DEFINE v == pushes + 1
  <1>1. /\ <<p, f>> \in Sources /\ p \notin BypassParams /\ f = "long"
    BY DEF Sources, tryClassify
  <1>2. v \in 1 .. MaxPushes /\ v \in 0 .. pushes' /\ pushes' \in 0 .. MaxPushes
    BY <1>1, QueueNumbers DEF QueueTypes
  <1>3. /\ DOMAIN coalesced' = DOMAIN coalesced \cup {p}
        /\ coalesced' \in [DOMAIN coalesced' -> 1 .. MaxPushes]
        /\ coalesced'[p] = v
        /\ \A q \in DOMAIN coalesced \ {p} : coalesced'[q] = coalesced[q]
    BY <1>2 DEF Coalesce, Keep, QueueTypes
  <1>4. /\ dropped' \in 0 .. pushes' /\ unreported' \in 0 .. pushes'
        /\ newest' \in [Sources -> 0 .. pushes']
    <2>1. \A n \in 0 .. pushes : n \in 0 .. pushes + 1
      BY QueueNumbers DEF QueueTypes
    <2>2. QED
      BY <1>1, <1>2, <2>1 DEF QueueTypes
  <1> HIDE DEF v
  <1>5. QueueTypes'
    BY <1>1, <1>2, <1>3, <1>4 DEF QueueTypes, DrainType
  <1>6. KeysBounded'
    <2>1. IsFiniteSet(DOMAIN coalesced) /\ Cardinality(DOMAIN coalesced) \in Nat
      BY FS_CardinalityType DEF KeysBounded
    <2>2. /\ IsFiniteSet(DOMAIN coalesced')
          /\ Cardinality(DOMAIN coalesced') =
               IF p \in DOMAIN coalesced THEN Cardinality(DOMAIN coalesced)
               ELSE Cardinality(DOMAIN coalesced) + 1
      BY <1>3, <2>1, FS_AddElement
    <2>3. QED
      BY <2>1, <2>2, QueueNumbers DEF KeysBounded
  <1>7. FifoForms'
    BY DEF FifoForms
  <1>8. ASSUME NEW s \in Sources PROVE Newest(s)'
    <2>1. Newest(s) /\ s = <<s[1], s[2]>>
      BY SourceParts DEF NewestKept
    <2>2. CASE s = <<p, f>>
      <3>1. \A i \in 1 .. Len(fifo) : SourceOf(fifo[i]) # s
        <4>1. ASSUME NEW i \in 1 .. Len(fifo), SourceOf(fifo[i]) = s PROVE FALSE
          <5>1. fifo[i].par = p /\ fifo[i].form = f
            BY <2>2, <4>1 DEF SourceOf
          <5>2. QED
            BY <5>1 DEF FifoForms
        <4>2. QED
          BY <4>1
      <3>2. s[1] = p /\ s[2] = f /\ newest'[s] = v
        BY <1>1, <2>2 DEF QueueTypes, v
      <3>3. QED
        BY <1>3, <3>1, <3>2 DEF Newest, LastOf, Queued
    <2>3. CASE s # <<p, f>>
      <3>1. newest'[s] = newest[s]
        BY <2>3 DEF QueueTypes
      <3>2. tryClassify(s[1], s[2]) => s[1] # p
        BY <1>1, <2>1, <2>3 DEF tryClassify
      <3>3. /\ Queued(s)' <=> Queued(s)
            /\ Held(s)' <=> Held(s)
        BY <1>3, <3>2 DEF Queued, Held
      <3>4. QED
        BY <1>3, <2>1, <3>1, <3>2, <3>3 DEF Newest, LastOf
    <2>4. QED
      BY <2>2, <2>3
  <1>9. QED
    BY <1>5, <1>6, <1>7, <1>8 DEF NewestKept

\* Any other message joins the end of the FIFO, behind those of its source.
LEMMA AppendKeeps ==
    ASSUME QueueTypes, KeysBounded, FifoForms, NewestKept, pushes < MaxPushes,
           pushes' = pushes + 1, NEW p \in Params, NEW f \in Forms, ~tryClassify(p, f),
           ~FifoFull, fifo' = Append(fifo, Message(p, f, pushes + 1)),
           newest' = [newest EXCEPT ![<<p, f>>] = pushes + 1],
           UNCHANGED <<coalesced, dropped, unreported, reported, drain, applied, value>>
    PROVE  QueueTypes' /\ KeysBounded' /\ FifoForms' /\ NewestKept'
  <1> DEFINE v == pushes + 1
             m == Message(p, f, v)
  <1>1. <<p, f>> \in Sources
    BY DEF Sources
  <1>2. v \in 1 .. MaxPushes /\ v \in 0 .. pushes' /\ pushes' \in 0 .. MaxPushes
    BY <1>1, QueueNumbers DEF QueueTypes
  <1>3. m \in Items /\ m.par = p /\ m.form = f /\ m.version = v /\ SourceOf(m) = <<p, f>>
    BY <1>2 DEF Message, Items, SourceOf
  <1>4. newest'[<<p, f>>] = v /\ \A s \in Sources \ {<<p, f>>} : newest'[s] = newest[s]
    BY <1>1 DEF QueueTypes
  <1>5. fifo' = Append(fifo, m)
    OBVIOUS
  <1>6. /\ dropped' \in 0 .. pushes' /\ unreported' \in 0 .. pushes'
        /\ newest' \in [Sources -> 0 .. pushes']
    <2>1. \A n \in 0 .. pushes : n \in 0 .. pushes + 1
      BY QueueNumbers DEF QueueTypes
    <2>2. QED
      BY <1>1, <1>2, <2>1 DEF QueueTypes
  <1> HIDE DEF v, m
  <1>7. /\ fifo' \in Seq(Items) /\ Len(fifo) \in Nat /\ Len(fifo') = Len(fifo) + 1
        /\ \A i \in 1 .. Len(fifo) : fifo'[i] = fifo[i]
        /\ fifo'[Len(fifo) + 1] = m
    BY <1>3, <1>5, AppendProperties DEF QueueTypes
  <1>8. Len(fifo') <= FifoCap
    BY <1>7, QueueNumbers DEF FifoFull
  <1>9. QueueTypes'
    BY <1>2, <1>6, <1>7, <1>8 DEF QueueTypes, DrainType
  <1>10. KeysBounded'
    BY DEF KeysBounded
  <1>11. FifoForms'
    <2>1. ASSUME NEW i \in 1 .. Len(fifo') PROVE ~tryClassify(fifo'[i].par, fifo'[i].form)
      <3>1. i \in 1 .. Len(fifo) \/ i = Len(fifo) + 1
        BY <1>7
      <3>2. QED
        BY <1>3, <1>7, <3>1 DEF FifoForms
    <2>2. QED
      BY <2>1 DEF FifoForms, tryClassify
  <1>12. ASSUME NEW s \in Sources PROVE Newest(s)'
    <2>1. Newest(s) /\ s = <<s[1], s[2]>>
      BY SourceParts DEF NewestKept
    <2>2. CASE s = <<p, f>>
      <3>1. SourceOf(fifo'[Len(fifo) + 1]) = s /\ Len(fifo) + 1 \in 1 .. Len(fifo')
        BY <1>3, <1>7, <2>2
      <3>2. Queued(s)'
        BY <3>1 DEF Queued, SourceOf
      <3>3. ~tryClassify(s[1], s[2])
        BY <2>2
      <3>4. ASSUME NEW i \in 1 .. Len(fifo'), LastOf(s, i)' PROVE fifo'[i].version = newest'[s]
        <4>1. CASE i = Len(fifo) + 1
          BY <1>3, <1>4, <1>7, <2>2, <4>1
        <4>2. CASE i # Len(fifo) + 1
          <5>1. Len(fifo) + 1 \in i + 1 .. Len(fifo')
            BY <1>7, <4>2
          <5>2. QED
            BY <3>1, <3>4, <5>1 DEF LastOf, SourceOf
        <4>3. QED
          BY <4>1, <4>2
      <3>5. QED
        BY <3>2, <3>3, <3>4 DEF Newest, tryClassify
    <2>3. CASE s # <<p, f>>
      <3>1. newest'[s] = newest[s] /\ SourceOf(m) # s
        BY <1>3, <1>4, <2>3
      <3>2. Queued(s)' <=> Queued(s)
        <4>1. ASSUME NEW i \in 1 .. Len(fifo'), SourceOf(fifo'[i]) = s
              PROVE  i \in 1 .. Len(fifo) /\ SourceOf(fifo[i]) = s
          BY <1>7, <3>1, <4>1
        <4>2. \A i \in 1 .. Len(fifo) : i \in 1 .. Len(fifo') /\ fifo'[i] = fifo[i]
          BY <1>7
        <4>3. QED
          BY <4>1, <4>2 DEF Queued, SourceOf, tryClassify
      <3>3. ASSUME NEW i \in 1 .. Len(fifo'), LastOf(s, i)' PROVE fifo'[i].version = newest'[s]
        <4>1. SourceOf(fifo'[i]) = s
          BY <3>3 DEF LastOf, SourceOf
        <4>2. i \in 1 .. Len(fifo) /\ fifo'[i] = fifo[i]
          BY <1>7, <3>1, <4>1
        <4>3. \A j \in i + 1 .. Len(fifo) : j \in i + 1 .. Len(fifo') /\ fifo'[j] = fifo[j]
          BY <1>7, <4>2
        <4>4. LastOf(s, i)
          BY <3>3, <4>1, <4>2, <4>3 DEF LastOf, SourceOf
        <4>5. QED
          BY <2>1, <3>1, <4>2, <4>4 DEF Newest
      <3>4. Held(s)' <=> Held(s)
        BY DEF Held
      <3>5. QED
        BY <2>1, <3>1, <3>2, <3>3, <3>4 DEF Newest
    <2>4. QED
      BY <2>2, <2>3
  <1>13. QED
    BY <1>9, <1>10, <1>11, <1>12 DEF NewestKept

LEMMA PushKeeps ==
    ASSUME QueueTypes, KeysBounded, FifoForms, NewestKept, NEW s \in Sources, Push(s[1], s[2])
    PROVE  QueueTypes' /\ KeysBounded' /\ FifoForms' /\ NewestKept'
  <1> DEFINE p == s[1]
             f == s[2]
  <1>1. p \in Params /\ f \in Forms
    BY SourceParts
  <1>2. pushes < MaxPushes /\ pushes' = pushes + 1 /\ UNCHANGED <<reported, drain, applied, value>>
    BY DEF Push
  <1>3. CASE tryClassify(p, f)
    <2>1. CASE Cardinality(DOMAIN coalesced) >= CoalesceCap /\ p \notin DOMAIN coalesced
      BY <1>2, <1>3, <2>1, DropKeeps DEF Push
    <2>2. CASE ~(Cardinality(DOMAIN coalesced) >= CoalesceCap /\ p \notin DOMAIN coalesced)
      BY <1>1, <1>2, <1>3, <2>2, CoalesceKeeps DEF Push
    <2>3. QED
      BY <2>1, <2>2
  <1>4. CASE ~tryClassify(p, f)
    <2>1. CASE FifoFull
      BY <1>2, <1>4, <2>1, DropKeeps DEF Push
    <2>2. CASE ~FifoFull
      BY <1>1, <1>2, <1>4, <2>2, AppendKeeps DEF Push
    <2>3. QED
      BY <2>1, <2>2
  <1>5. QED
    BY <1>3, <1>4

\* An item the drain takes is in hand until it is dispatched.
LEMMA HandOver ==
    ASSUME DrainType, DrainAt("take"), drain.taken < MaxItemsPerTick, NEW m \in Items,
           drain' = [drain EXCEPT !.pc = "dispatch", !.taken = drain.taken + 1, !.item = m]
    PROVE  DrainType'
  <1>1. drain.taken + 1 \in 0 .. MaxItemsPerTick
    BY QueueNumbers DEF DrainType
  <1>2. m # NoItem
    BY SourceParts
  <1>3. /\ drain.report \in Nat
        /\ drain' = [pc |-> "dispatch", taken |-> drain.taken + 1, item |-> m,
                     report |-> drain.report]
    BY DEF DrainType
  <1> DEFINE n == drain.taken + 1
             r == drain.report
  <1> HIDE DEF n, r
  <1>4. n \in 0 .. MaxItemsPerTick /\ r \in Nat
        /\ drain' = [pc |-> "dispatch", taken |-> n, item |-> m, report |-> r]
    BY <1>1, <1>3 DEF n, r
  <1>5. QED
    BY <1>2, <1>4 DEF DrainType

\* The head of the FIFO goes to the application; it is the youngest of its source
\* when no other waits behind it.
LEMMA TakeFifoKeeps ==
    ASSUME QueueTypes, KeysBounded, FifoForms, NewestKept, DrainAt("take"),
           drain.taken < MaxItemsPerTick, fifo # <<>>, fifo' = Tail(fifo),
           drain' = [drain EXCEPT !.pc = "dispatch", !.taken = @ + 1, !.item = Head(fifo)],
           UNCHANGED <<coalesced, dropped, unreported, reported, pushes, newest, applied, value>>
    PROVE  QueueTypes' /\ KeysBounded' /\ FifoForms' /\ NewestKept'
  <1>1. /\ fifo' \in Seq(Items) /\ Len(fifo) \in Nat \ {0} /\ Len(fifo') = Len(fifo) - 1
        /\ fifo[1] \in Items /\ Head(fifo) = fifo[1]
        /\ \A i \in 1 .. Len(fifo') : fifo'[i] = fifo[i + 1]
    BY HeadTailProperties, EmptySeq, LenProperties DEF QueueTypes
  <1>2. drain'.item = fifo[1] /\ drain'.item # NoItem /\ drain.item = NoItem
    BY <1>1, SourceParts DEF QueueTypes, DrainType, DrainAt
  <1>3. QueueTypes'
    <2>1. DrainType'
      BY <1>1, HandOver DEF QueueTypes
    <2>2. Len(fifo') <= FifoCap
      BY <1>1, QueueNumbers DEF QueueTypes
    <2>3. QED
      BY <1>1, <2>1, <2>2 DEF QueueTypes
  <1>4. KeysBounded'
    BY DEF KeysBounded
  <1>5. FifoForms'
    <2>1. \A i \in 1 .. Len(fifo') : i + 1 \in 1 .. Len(fifo)
      BY <1>1
    <2>2. QED
      BY <1>1, <2>1 DEF FifoForms, tryClassify
  <1>6. ASSUME NEW s \in Sources PROVE Newest(s)'
    <2>1. Newest(s) /\ ~Held(s)
      BY <1>2 DEF NewestKept, Held
    <2>2. ASSUME NEW i \in 1 .. Len(fifo'), LastOf(s, i)' PROVE fifo'[i].version = newest'[s]
      <3>1. i + 1 \in 1 .. Len(fifo) /\ fifo'[i] = fifo[i + 1]
        BY <1>1
      <3>2. ASSUME NEW j \in i + 2 .. Len(fifo) PROVE SourceOf(fifo[j]) # s
        <4>1. j - 1 \in i + 1 .. Len(fifo') /\ j - 1 \in 1 .. Len(fifo') /\ (j - 1) + 1 = j
          BY <1>1
        <4>2. fifo'[j - 1] = fifo[j]
          BY <1>1, <4>1
        <4>3. QED
          BY <2>2, <4>1, <4>2 DEF LastOf, SourceOf
      <3>3. LastOf(s, i + 1)
        BY <2>2, <3>1, <3>2 DEF LastOf, SourceOf
      <3>4. QED
        BY <2>1, <3>1, <3>3 DEF Newest
    <2>3. ASSUME ~Queued(s)' PROVE \A j \in 2 .. Len(fifo) : SourceOf(fifo[j]) # s
      <3>1. ASSUME NEW j \in 2 .. Len(fifo) PROVE SourceOf(fifo[j]) # s
        <4>1. j - 1 \in 1 .. Len(fifo') /\ (j - 1) + 1 = j
          BY <1>1
        <4>2. fifo'[j - 1] = fifo[j]
          BY <1>1, <4>1
        <4>3. QED
          BY <2>3, <4>1, <4>2 DEF Queued, SourceOf
      <3>2. QED
        BY <3>1
    <2>4. ASSUME ~Queued(s)', Held(s)' PROVE drain'.item.version = newest'[s]
      <3>1. LastOf(s, 1) /\ 1 \in 1 .. Len(fifo)
        BY <1>1, <1>2, <2>3, <2>4 DEF LastOf, Held, SourceOf
      <3>2. QED
        BY <1>2, <2>1, <3>1 DEF Newest
    <2>5. ASSUME ~Queued(s)', ~Held(s)' PROVE applied'[s] = newest'[s]
      <3>1. SourceOf(fifo[1]) # s
        BY <1>2, <2>5 DEF Held, SourceOf
      <3>2. \A j \in 1 .. Len(fifo) : j = 1 \/ j \in 2 .. Len(fifo)
        BY <1>1
      <3>3. ~Queued(s)
        BY <2>3, <2>5, <3>1, <3>2 DEF Queued, tryClassify
      <3>4. QED
        BY <2>1, <3>3 DEF Newest
    <2>6. tryClassify(s[1], s[2])' /\ s[1] \in DOMAIN coalesced' => coalesced'[s[1]] = newest'[s]
      BY <2>1 DEF Newest, tryClassify
    <2>7. QED
      BY <2>2, <2>4, <2>5, <2>6 DEF Newest
  <1>7. QED
    BY <1>3, <1>4, <1>5, <1>6 DEF NewestKept

\* A coalesced key leaves the map with the newest version of its source.
LEMMA TakeKeyKeeps ==
    ASSUME QueueTypes, KeysBounded, FifoForms, NewestKept, DrainAt("take"),
           drain.taken < MaxItemsPerTick, fifo = <<>>, NEW p \in DOMAIN coalesced,
           drain' = [drain EXCEPT !.pc = "dispatch", !.taken = @ + 1,
                                  !.item = Message(p, "long", coalesced[p])],
           coalesced' = [q \in DOMAIN coalesced \ {p} |-> coalesced[q]],
           UNCHANGED <<fifo, dropped, unreported, reported, pushes, newest, applied, value>>
    PROVE  QueueTypes' /\ KeysBounded' /\ FifoForms' /\ NewestKept'
  <1> DEFINE m == Message(p, "long", coalesced[p])
  <1>1. /\ p \in Params /\ "long" \in Forms /\ coalesced[p] \in 1 .. MaxPushes
        /\ tryClassify(p, "long") /\ <<p, "long">> \in Sources
    BY DEF QueueTypes, tryClassify, Sources
  <1>2. m \in Items /\ m.version = coalesced[p] /\ SourceOf(m) = <<p, "long">>
    BY <1>1 DEF Items, Message, SourceOf
  <1>3. drain'.item = m /\ m # NoItem /\ drain.item = NoItem
    BY <1>2, SourceParts DEF QueueTypes, DrainType, DrainAt
  <1>4. /\ DOMAIN coalesced' = DOMAIN coalesced \ {p}
        /\ \A q \in DOMAIN coalesced' : coalesced'[q] = coalesced[q]
    OBVIOUS
  <1>5. drain' = [drain EXCEPT !.pc = "dispatch", !.taken = @ + 1, !.item = m]
    OBVIOUS
  <1> HIDE DEF m
  <1>6. QueueTypes'
    <2>1. DrainType'
      BY <1>2, <1>5, HandOver DEF QueueTypes
    <2>2. coalesced' \in [DOMAIN coalesced' -> 1 .. MaxPushes]
      BY <1>4 DEF QueueTypes
    <2>3. QED
      BY <1>4, <2>1, <2>2 DEF QueueTypes
  <1>7. KeysBounded'
    <2>1. IsFiniteSet(DOMAIN coalesced) /\ DOMAIN coalesced' \in SUBSET DOMAIN coalesced
      BY <1>4 DEF KeysBounded
    <2>2. /\ IsFiniteSet(DOMAIN coalesced')
          /\ Cardinality(DOMAIN coalesced') <= Cardinality(DOMAIN coalesced)
      BY <2>1, FS_Subset
    <2>3. Cardinality(DOMAIN coalesced') \in Nat /\ Cardinality(DOMAIN coalesced) \in Nat
      BY <2>1, <2>2, FS_CardinalityType
    <2>4. QED
      BY <2>2, <2>3, QueueNumbers DEF KeysBounded
  <1>8. FifoForms'
    BY DEF FifoForms, tryClassify
  <1>9. ASSUME NEW s \in Sources PROVE Newest(s)'
    <2>1. Newest(s) /\ s = <<s[1], s[2]>> /\ ~Held(s)
      BY <1>3, SourceParts DEF NewestKept, Held
    <2>2. Len(fifo) = 0 /\ Len(fifo') = 0
      OBVIOUS
    <2>3. CASE s = <<p, "long">>
      <3>1. Held(s)' /\ ~Queued(s)'
        BY <1>2, <1>3, <1>4, <2>2, <2>3 DEF Held, Queued, SourceOf
      <3>2. coalesced[p] = newest[s]
        BY <1>1, <2>1, <2>3 DEF Newest
      <3>3. QED
        BY <1>2, <1>3, <2>2, <3>1, <3>2 DEF Newest, Queued
    <2>4. CASE s # <<p, "long">>
      <3>1. tryClassify(s[1], s[2]) => s[1] # p
        BY <2>1, <2>4 DEF tryClassify
      <3>2. ~Held(s)'
        BY <1>2, <1>3, <2>4 DEF Held, SourceOf
      <3>3. Queued(s)' <=> Queued(s)
        BY <1>4, <2>2, <3>1 DEF Queued, tryClassify
      <3>4. QED
        BY <1>4, <2>1, <2>2, <3>1, <3>2, <3>3 DEF Newest, tryClassify
    <2>5. QED
      BY <2>3, <2>4
  <1>10. QED
    BY <1>6, <1>7, <1>8, <1>9 DEF NewestKept

\* What the application gets is the newest of its source, unless a newer one waits.
LEMMA DispatchKeeps ==
    ASSUME QueueTypes, KeysBounded, FifoForms, NewestKept, NEW over \in BOOLEAN,
           DispatchItem(over)
    PROVE  QueueTypes' /\ KeysBounded' /\ FifoForms' /\ NewestKept'
  <1> DEFINE r == SourceOf(drain.item)
  <1>1. /\ drain.item \in Items /\ drain.item # NoItem /\ r \in Sources
        /\ drain.item.version \in 0 .. MaxPushes
    <2>1. drain.item \in Items /\ drain.item # NoItem
      BY DEF QueueTypes, DrainType, DispatchItem, DrainAt
    <2>2. drain.item.version \in 1 .. MaxPushes
      BY <2>1 DEF Items
    <2>3. QED
      BY <2>1, <2>2, SourceParts, QueueNumbers
  <1>2. /\ applied' = [applied EXCEPT ![r] = drain.item.version]
        /\ value' = [value EXCEPT ![drain.item.par] = drain.item.version]
        /\ drain' = [drain EXCEPT !.pc = IF over THEN "report" ELSE "take", !.item = NoItem]
        /\ UNCHANGED <<coalesced, fifo, dropped, unreported, reported, pushes, newest>>
    BY DEF DispatchItem
  <1> HIDE DEF r
  <1>3. QueueTypes'
    <2>1. DrainType'
      BY <1>2 DEF QueueTypes, DrainType
    <2>2. applied' \in [Sources -> 0 .. MaxPushes] /\ value' \in [Params -> 0 .. MaxPushes]
      BY <1>1, <1>2 DEF QueueTypes
    <2>3. QED
      BY <1>2, <2>1, <2>2 DEF QueueTypes
  <1>4. KeysBounded' /\ FifoForms'
    BY <1>2 DEF KeysBounded, FifoForms, tryClassify
  <1>5. drain'.item = NoItem
    BY <1>2 DEF QueueTypes, DrainType
  <1>6. ASSUME NEW s \in Sources PROVE Newest(s)'
    <2>1. /\ Newest(s) /\ ~Held(s)' /\ (Queued(s)' <=> Queued(s))
          /\ (Held(s) <=> s = r)
      BY <1>1, <1>2, <1>5 DEF NewestKept, Held, Queued, r
    <2>2. applied'[s] = IF s = r THEN drain.item.version ELSE applied[s]
      BY <1>1, <1>2 DEF QueueTypes
    <2>3. \A i \in 1 .. Len(fifo) : LastOf(s, i)' <=> LastOf(s, i)
      BY <1>2 DEF LastOf
    <2>4. QED
      BY <1>2, <2>1, <2>2, <2>3 DEF Newest
  <1>7. QED
    BY <1>3, <1>4, <1>6 DEF NewestKept

\* The steps of a drain that hand nothing over.
LEMMA DrainKeeps ==
    ASSUME QueueTypes, KeysBounded, FifoForms, NewestKept,
           \/ \E second \in BOOLEAN : BeginDrain(second)
           \/ StopTaking \/ EndDrain
    PROVE  /\ QueueTypes' /\ KeysBounded' /\ FifoForms' /\ NewestKept'
           /\ UNCHANGED <<coalesced, fifo, pushes, newest, applied, value>>
           /\ drain'.item = drain.item
  <1>1. /\ UNCHANGED <<coalesced, fifo, dropped, pushes, newest, applied, value>>
        /\ unreported' \in {0, unreported} /\ reported' \in BOOLEAN
    BY DEF BeginDrain, StopTaking, EndDrain, QueueTypes
  <1>2. DrainType' /\ drain'.item = drain.item
    <2>1. unreported \in Nat
      BY QueueNumbers DEF QueueTypes
    <2>2. CASE \E second \in BOOLEAN : BeginDrain(second)
      <3>1. PICK second \in BOOLEAN : BeginDrain(second)
        BY <2>2
      <3>2. /\ drain.item = NoItem
            /\ \E n \in {0, unreported} :
                  drain' = [pc |-> "take", taken |-> 0, item |-> NoItem, report |-> n]
        BY <3>1 DEF BeginDrain, IdleDrain, DrainAt, QueueTypes, DrainType
      <3>3. QED
        BY <2>1, <3>2, QueueNumbers DEF DrainType
    <2>3. CASE StopTaking
      BY <2>3 DEF StopTaking, DrainAt, QueueTypes, DrainType
    <2>4. CASE EndDrain
      BY <2>4, QueueNumbers DEF EndDrain, DrainAt, IdleDrain, QueueTypes, DrainType
    <2>5. QED
      BY <2>2, <2>3, <2>4
  <1>3. unreported' \in 0 .. pushes'
    BY <1>1, QueueNumbers DEF QueueTypes
  <1>4. NewestKept'
    BY <1>1, <1>2, QuietQueue
  <1>5. QED
    BY <1>1, <1>2, <1>3, <1>4 DEF QueueTypes, KeysBounded, FifoForms, tryClassify

-------------------------------------------------------------------------------
(* Ages: what each step of the queue does to the order of a parameter's messages *)

LEMMA FifoItems ==
    ASSUME QueueTypes
    PROVE  /\ pushes \in Nat /\ Len(fifo) \in Nat
           /\ \A i \in 1 .. Len(fifo) : fifo[i] \in Items /\ fifo[i].version \in Nat
  <1>1. pushes \in Nat /\ fifo \in Seq(Items)
    BY QueueNumbers DEF QueueTypes
  <1>2. Len(fifo) \in Nat /\ \A i \in 1 .. Len(fifo) : fifo[i] \in Items
    BY <1>1, LenProperties, ElementOfSeq
  <1>3. \A m \in Items : m.version \in Nat
    BY QueueNumbers DEF Items
  <1>4. QED
    BY <1>1, <1>2, <1>3

\* A step that leaves the queues and the item in hand alone.
LEMMA QuietAges ==
    ASSUME QueueTypes, AgesKept, pushes' \in {pushes, pushes + 1},
           UNCHANGED <<coalesced, fifo, newest, applied, value>>, drain'.item = drain.item
    PROVE  AgesKept'
  <1>1. Sorted'
    BY FifoItems DEF AgesKept, Sorted
  <1>2. \A s \in Sources : Order(s)' /\ Settled(s)'
    BY DEF AgesKept, Order, Settled, Queued, Held, tryClassify, SourceOf
  <1>3. QED
    BY <1>1, <1>2 DEF AgesKept

\* A message that is coalesced stands in no other's way.
LEMMA CoalesceAges ==
    ASSUME QueueTypes, AgesKept, pushes' = pushes + 1, NEW p \in Params, NEW f \in Forms,
           tryClassify(p, f), coalesced' = Coalesce(coalesced, p, pushes + 1),
           newest' = [newest EXCEPT ![<<p, f>>] = pushes + 1],
           UNCHANGED <<fifo, drain, applied, value>>
    PROVE  AgesKept'
  <1>1. Sorted'
    BY FifoItems DEF AgesKept, Sorted
  <1>2. DOMAIN coalesced' = DOMAIN coalesced \cup {p}
    BY DEF Coalesce, Keep
  <1>3. ASSUME NEW s \in Sources PROVE Order(s)' /\ Settled(s)'
    <2>1. Order(s) /\ Settled(s) /\ s = <<s[1], s[2]>>
      BY SourceParts DEF AgesKept
    <2>2. CASE s = <<p, f>>
      <3>1. s[1] = p /\ s[2] = f
        BY <2>2
      <3>2. Queued(s)'
        BY <1>2, <3>1 DEF Queued, tryClassify
      <3>3. QED
        BY <3>2 DEF Order, Settled
    <2>3. CASE s # <<p, f>>
      <3>1. newest'[s] = newest[s]
        BY <2>3 DEF QueueTypes
      <3>2. Queued(s) => Queued(s)'
        BY <1>2 DEF Queued, tryClassify, SourceOf
      <3>3. Held(s)' <=> Held(s)
        BY DEF Held, SourceOf
      <3>4. QED
        BY <2>1, <3>1, <3>2, <3>3 DEF Order, Settled, tryClassify
    <2>4. QED
      BY <2>2, <2>3
  <1>4. QED
    BY <1>1, <1>3 DEF AgesKept

\* A message that joins the FIFO is younger than all before it.
LEMMA AppendAges ==
    ASSUME QueueTypes, AgesKept, pushes' = pushes + 1, NEW p \in Params, NEW f \in Forms,
           pushes < MaxPushes, fifo' = Append(fifo, Message(p, f, pushes + 1)),
           newest' = [newest EXCEPT ![<<p, f>>] = pushes + 1],
           UNCHANGED <<coalesced, drain, applied, value>>
    PROVE  AgesKept'
  <1> DEFINE m == Message(p, f, pushes + 1)
  <1>1. /\ pushes \in Nat /\ m \in Items /\ m.par = p /\ m.form = f
        /\ m.version = pushes + 1 /\ fifo' = Append(fifo, m)
    BY QueueNumbers DEF QueueTypes, Message, Items
  <1> HIDE DEF m
  <1>2. /\ Len(fifo) \in Nat /\ Len(fifo') = Len(fifo) + 1
        /\ \A i \in 1 .. Len(fifo) : fifo'[i] = fifo[i] /\ fifo[i].version \in Nat
        /\ fifo'[Len(fifo) + 1] = m
    BY <1>1, AppendProperties, FifoItems DEF QueueTypes
  <1>3. \A i \in 1 .. Len(fifo') : i \in 1 .. Len(fifo) \/ i = Len(fifo) + 1
    BY <1>2
  <1>4. Sorted'
    <2>1. \A i \in 1 .. Len(fifo) : fifo[i].version <= pushes
      BY DEF AgesKept, Sorted
    <2>2. \A i, j \in 1 .. Len(fifo) : i < j => fifo[i].version < fifo[j].version
      BY DEF AgesKept, Sorted
    <2>3. \A i \in 1 .. Len(fifo') : fifo'[i].version <= pushes'
      BY <1>1, <1>2, <1>3, <2>1
    <2>4. ASSUME NEW i \in 1 .. Len(fifo'), NEW j \in 1 .. Len(fifo'), i < j
          PROVE  fifo'[i].version < fifo'[j].version
      <3>1. i \in 1 .. Len(fifo)
        BY <1>2, <1>3, <2>4
      <3>2. QED
        BY <1>1, <1>2, <1>3, <2>1, <2>2, <2>4, <3>1
    <2>5. QED
      BY <2>3, <2>4 DEF Sorted
  <1>5. ASSUME NEW s \in Sources PROVE Order(s)' /\ Settled(s)'
    <2>1. Order(s) /\ Settled(s) /\ s = <<s[1], s[2]>>
      BY SourceParts DEF AgesKept
    <2>2. CASE s = <<p, f>>
      <3>1. Queued(s)'
        BY <1>1, <1>2, <2>2 DEF Queued, SourceOf
      <3>2. QED
        BY <3>1 DEF Order, Settled
    <2>3. CASE s # <<p, f>>
      <3>1. newest'[s] = newest[s] /\ newest[s] \in 0 .. pushes
        BY <2>3 DEF QueueTypes
      <3>2. Queued(s) => Queued(s)'
        BY <1>2 DEF Queued, tryClassify, SourceOf
      <3>3. Held(s)' <=> Held(s)
        BY DEF Held, SourceOf
      <3>4. Settled(s)'
        BY <2>1, <3>1, <3>2, <3>3 DEF Settled, tryClassify
      <3>5. Order(s)'
        <4>1. SUFFICES ASSUME ~Queued(s)' PROVE Order(s)'
          BY DEF Order
        <4>2. \A i \in 1 .. Len(fifo) : fifo[i].par = s[1] => fifo[i].version > newest[s]
          BY <2>1, <3>2, <4>1 DEF Order
        <4>3. \A i \in 1 .. Len(fifo') : fifo'[i].par = s[1] => fifo'[i].version > newest'[s]
          BY <1>1, <1>2, <1>3, <3>1, <4>2
        <4>4. QED
          BY <2>1, <3>1, <3>2, <4>1, <4>3 DEF Order, tryClassify
      <3>6. QED
        BY <3>4, <3>5
    <2>4. QED
      BY <2>2, <2>3
  <1>6. QED
    BY <1>4, <1>5 DEF AgesKept

LEMMA PushAges ==
    ASSUME QueueTypes, AgesKept, NEW s \in Sources, Push(s[1], s[2])
    PROVE  AgesKept'
  <1>1. /\ s[1] \in Params /\ s[2] \in Forms
        /\ pushes < MaxPushes /\ pushes' = pushes + 1
        /\ UNCHANGED <<reported, drain, applied, value>>
    BY SourceParts DEF Push
  <1>2. CASE Drop
    BY <1>1, <1>2, QuietAges DEF Drop
  <1>3. CASE ~Drop /\ tryClassify(s[1], s[2])
    BY <1>1, <1>3, CoalesceAges DEF Push
  <1>4. CASE ~Drop /\ ~tryClassify(s[1], s[2])
    BY <1>1, <1>4, AppendAges DEF Push
  <1>5. QED
    BY <1>2, <1>3, <1>4

\* The head of the FIFO is the oldest there; when it is the last of its source it
\* is that source's newest.
LEMMA TakeFifoAges ==
    ASSUME QueueTypes, NewestKept, AgesKept, DrainAt("take"), fifo # <<>>,
           fifo' = Tail(fifo), drain'.item = Head(fifo),
           UNCHANGED <<coalesced, pushes, newest, applied, value>>
    PROVE  AgesKept'
  <1>1. /\ Len(fifo) \in Nat \ {0} /\ Len(fifo') = Len(fifo) - 1
        /\ fifo[1] \in Items /\ drain'.item = fifo[1] /\ fifo[1] # NoItem
        /\ \A i \in 1 .. Len(fifo') : fifo'[i] = fifo[i + 1] /\ i + 1 \in 1 .. Len(fifo)
    <2>1. /\ Len(fifo) \in Nat \ {0} /\ Len(fifo') = Len(fifo) - 1
          /\ fifo[1] \in Items /\ Head(fifo) = fifo[1]
          /\ \A i \in 1 .. Len(fifo') : fifo'[i] = fifo[i + 1]
      BY HeadTailProperties, EmptySeq, LenProperties DEF QueueTypes
    <2>2. QED
      BY <2>1, SourceParts
  <1>2. /\ drain.item = NoItem /\ 1 \in 1 .. Len(fifo)
        /\ \A i \in 1 .. Len(fifo) : fifo[i].version \in Nat
        /\ \A j \in 2 .. Len(fifo) : /\ j - 1 \in 1 .. Len(fifo')
                                       /\ fifo'[j - 1] = fifo[j]
    <2>1. drain.item = NoItem
      BY DEF QueueTypes, DrainType, DrainAt
    <2>2. \A j \in 2 .. Len(fifo) : j - 1 \in 1 .. Len(fifo') /\ (j - 1) + 1 = j
      BY <1>1
    <2>3. \A i \in 1 .. Len(fifo) : fifo[i].version \in Nat
      BY FifoItems
    <2>4. QED
      BY <1>1, <2>1, <2>2, <2>3
  <1>3. /\ \A i \in 1 .. Len(fifo) : fifo[i].version <= pushes
        /\ \A i, j \in 1 .. Len(fifo) : i < j => fifo[i].version < fifo[j].version
    BY DEF AgesKept, Sorted
  <1>4. Sorted'
    <2>1. \A i, j \in 1 .. Len(fifo') : i < j => i + 1 < j + 1
      BY <1>1
    <2>2. QED
      BY <1>1, <1>3, <2>1 DEF Sorted
  <1>5. ASSUME NEW s \in Sources, ~Queued(s)' PROVE Order(s)' /\ Settled(s)'
    <2>1. Order(s) /\ Settled(s) /\ Newest(s) /\ s = <<s[1], s[2]>>
      BY SourceParts DEF AgesKept, NewestKept
    <2>2. \A j \in 2 .. Len(fifo) : SourceOf(fifo[j]) # s
      BY <1>2, <1>5 DEF Queued, SourceOf
    <2>3. \A i \in 1 .. Len(fifo) : i = 1 \/ i \in 2 .. Len(fifo)
      BY <1>1
    <2>4. CASE SourceOf(fifo[1]) = s
      <3>1. LastOf(s, 1)
        BY <2>2, <2>4 DEF LastOf
      <3>2. fifo[1].version = newest[s]
        BY <1>2, <2>1, <3>1 DEF Newest
      <3>3. Held(s)'
        BY <1>1, <2>4 DEF Held, SourceOf
      <3>4. \A i \in 1 .. Len(fifo') : fifo'[i].version > newest[s]
        <4>1. \A i \in 1 .. Len(fifo') : 1 < i + 1
          OBVIOUS
        <4>2. QED
          BY <1>1, <1>2, <1>3, <3>2, <4>1
      <3>5. QED
        BY <1>1, <1>2, <3>2, <3>3, <3>4 DEF Order, Settled
    <2>5. CASE SourceOf(fifo[1]) # s
      <3>1. ~Queued(s) /\ ~Held(s)
        BY <1>2, <1>5, <2>2, <2>3, <2>5 DEF Queued, Held, tryClassify
      <3>2. \A i \in 1 .. Len(fifo) : fifo[i].par = s[1] => fifo[i].version > newest[s]
        BY <2>1, <3>1 DEF Order
      <3>3. newest[s] \in Nat
        BY QueueNumbers DEF QueueTypes
      <3>4. Order(s)'
        BY <1>1, <1>2, <3>2, <3>3 DEF Order
      <3>5. Settled(s)'
        BY <2>1, <3>1 DEF Settled, tryClassify
      <3>6. QED
        BY <3>4, <3>5
    <2>6. QED
      BY <2>4, <2>5
  <1>6. \A s \in Sources : Queued(s)' => Order(s)' /\ Settled(s)'
    BY DEF Order, Settled
  <1>7. QED
    BY <1>4, <1>5, <1>6 DEF AgesKept

\* A coalesced key is taken only when the FIFO is empty.
LEMMA TakeKeyAges ==
    ASSUME QueueTypes, AgesKept, DrainAt("take"), fifo = <<>>, NEW p \in DOMAIN coalesced,
           drain'.item = Message(p, "long", coalesced[p]),
           coalesced' = [q \in DOMAIN coalesced \ {p} |-> coalesced[q]],
           UNCHANGED <<fifo, pushes, newest, applied, value>>
    PROVE  AgesKept'
  <1> DEFINE m == Message(p, "long", coalesced[p])
  <1>1. /\ m \in Items /\ m # NoItem /\ m.par = p /\ m.form = "long"
        /\ SourceOf(m) = <<p, "long">> /\ drain'.item = m /\ tryClassify(p, "long")
    BY SourceParts DEF QueueTypes, Items, Message, SourceOf, tryClassify
  <1> HIDE DEF m
  <1>2. drain.item = NoItem /\ Len(fifo) = 0
    BY DEF QueueTypes, DrainType, DrainAt
  <1>3. Sorted'
    BY DEF AgesKept, Sorted
  <1>4. ASSUME NEW s \in Sources PROVE Order(s)' /\ Settled(s)'
    <2>1. Settled(s) /\ s = <<s[1], s[2]>>
      BY SourceParts DEF AgesKept
    <2>2. Order(s)'
      BY <1>1, <1>2 DEF Order, tryClassify
    <2>3. CASE s = <<p, "long">>
      <3>1. Held(s)'
        BY <1>1, <2>3 DEF Held, SourceOf
      <3>2. QED
        BY <2>2, <3>1 DEF Settled
    <2>4. CASE s # <<p, "long">>
      <3>1. tryClassify(s[1], s[2]) => s[1] # p
        BY <2>1, <2>4 DEF tryClassify
      <3>2. Queued(s) => Queued(s)'
        BY <3>1 DEF Queued, tryClassify, SourceOf
      <3>3. ~Held(s)
        BY <1>2 DEF Held
      <3>4. QED
        BY <2>1, <2>2, <3>2, <3>3 DEF Settled, tryClassify
    <2>5. QED
      BY <2>3, <2>4
  <1>5. QED
    BY <1>3, <1>4 DEF AgesKept

\* What is dispatched is no older than what its parameter's other form had last,
\* unless it is a coalesced long form.
LEMMA DispatchAges ==
    ASSUME QueueTypes, NewestKept, AgesKept, NEW over \in BOOLEAN, DispatchItem(over)
    PROVE  AgesKept'
  <1> DEFINE m == drain.item
             r == SourceOf(m)
  <1>1. /\ m \in Items /\ m # NoItem /\ r \in Sources /\ r = <<m.par, m.form>>
        /\ m.version \in Nat /\ m.par \in Params /\ m.form \in Forms
    <2>1. m \in Items
      BY DEF QueueTypes, DrainType, DispatchItem, DrainAt
    <2>2. QED
      BY <2>1, SourceParts, QueueNumbers DEF Items
  <1>2. /\ applied' = [applied EXCEPT ![r] = m.version]
        /\ value' = [value EXCEPT ![m.par] = m.version]
        /\ drain'.item = NoItem
        /\ UNCHANGED <<coalesced, fifo, pushes, newest>>
    BY DEF DispatchItem, QueueTypes, DrainType
  <1> HIDE DEF m, r
  <1>3. Sorted'
    BY <1>2 DEF AgesKept, Sorted
  <1>4. ASSUME NEW s \in Sources PROVE Order(s)' /\ Settled(s)'
    <2>1. /\ Order(s) /\ Settled(s) /\ Newest(s) /\ s = <<s[1], s[2]>>
          /\ s[1] \in Params /\ s[2] \in Forms
      BY SourceParts DEF AgesKept, NewestKept
    <2>2. (Queued(s)' <=> Queued(s)) /\ (Held(s) <=> s = r)
      BY <1>1, <1>2 DEF Queued, Held, tryClassify, SourceOf, m, r
    <2>3. Order(s)'
      BY <1>2, <2>1, <2>2 DEF Order
    <2>4. SUFFICES ASSUME ~Queued(s) PROVE Settled(s)'
      BY <2>2, <2>3 DEF Settled
    <2>5. CASE s = r
      <3>1. m.version = newest[s] /\ value'[s[1]] = m.version
        BY <1>1, <1>2, <2>1, <2>2, <2>4, <2>5 DEF Newest, QueueTypes, m
      <3>2. QED
        BY <1>1, <1>2, <3>1 DEF Settled
    <2>6. CASE s # r /\ m.par = s[1] /\ tryClassify(m.par, m.form)
      <3>1. m.form = "long" /\ s[2] = "short"
        BY <1>1, <2>1, <2>6, QueueAssumption DEF tryClassify, QueueAssumption
      <3>2. value'[s[1]] = m.version /\ applied'[<<s[1], "long">>] = m.version
        BY <1>1, <1>2, <2>6, <3>1 DEF QueueTypes
      <3>3. QED
        BY <1>1, <2>6, <3>1, <3>2 DEF Settled, tryClassify
    <2>7. CASE s # r /\ m.par = s[1] /\ ~tryClassify(m.par, m.form)
      <3>1. m.version >= newest[s] /\ value'[s[1]] = m.version
        BY <1>1, <1>2, <2>1, <2>4, <2>7 DEF Order, QueueTypes, m
      <3>2. QED
        BY <1>2, <3>1 DEF Settled
    <2>8. CASE m.par # s[1]
      <3>1. value'[s[1]] = value[s[1]] /\ r # <<s[1], "long">> /\ s # r
        BY <1>1, <1>2, <2>1, <2>8 DEF QueueTypes
      <3>2. "long" \in Forms => applied'[<<s[1], "long">>] = applied[<<s[1], "long">>]
        BY <1>2, <2>1, <3>1 DEF QueueTypes, Sources
      <3>3. QED
        BY <1>2, <2>1, <2>2, <2>4, <3>1, <3>2 DEF Settled, tryClassify
    <2>9. QED
      BY <2>5, <2>6, <2>7, <2>8
  <1>5. QED
    BY <1>3, <1>4 DEF AgesKept

-------------------------------------------------------------------------------
LEMMA QueueStep == QueueInv /\ (QueueNext \/ UNCHANGED qvars) => QueueInv'
  <1> SUFFICES ASSUME QueueInv, QueueNext \/ UNCHANGED qvars PROVE QueueInv'
    OBVIOUS
  <1>1. QueueTypes /\ KeysBounded /\ FifoForms /\ NewestKept /\ AgesKept
    BY QueueParts
  <1>2. (QueueInv <=> QueueTypes /\ KeysBounded /\ FifoForms /\ NewestKept /\ AgesKept)'
    BY QueueParts, PTL
  <1> DEFINE Kept == QueueTypes' /\ KeysBounded' /\ FifoForms' /\ NewestKept'
  <1>3. ASSUME TakeItem PROVE Kept /\ AgesKept'
    <2>1. CASE fifo # <<>>
      <3>1. /\ DrainAt("take") /\ drain.taken < MaxItemsPerTick /\ fifo' = Tail(fifo)
            /\ drain' = [drain EXCEPT !.pc = "dispatch", !.taken = @ + 1, !.item = Head(fifo)]
            /\ UNCHANGED <<coalesced, dropped, unreported, reported, pushes, newest, applied,
                           value>>
        BY <1>3, <2>1 DEF TakeItem
      <3>2. drain'.item = Head(fifo)
        BY <1>1, <3>1 DEF QueueTypes, DrainType
      <3>3. QED
        BY <1>1, <2>1, <3>1, <3>2, TakeFifoKeeps, TakeFifoAges
    <2>2. CASE fifo = <<>>
      <3>1. PICK p \in DOMAIN coalesced :
              /\ drain' = [drain EXCEPT !.pc = "dispatch", !.taken = @ + 1,
                                        !.item = Message(p, "long", coalesced[p])]
              /\ coalesced' = [q \in DOMAIN coalesced \ {p} |-> coalesced[q]]
        BY <1>3, <2>2 DEF TakeItem
      <3>2. /\ DrainAt("take") /\ drain.taken < MaxItemsPerTick
            /\ UNCHANGED <<fifo, dropped, unreported, reported, pushes, newest, applied, value>>
        BY <1>3, <2>2 DEF TakeItem
      <3>3. drain'.item = Message(p, "long", coalesced[p])
        BY <1>1, <3>1 DEF QueueTypes, DrainType
      <3>4. QED
        BY <1>1, <2>2, <3>1, <3>2, <3>3, TakeKeyKeeps, TakeKeyAges
    <2>3. QED
      BY <2>1, <2>2
  <1>4. ASSUME NEW s \in Sources, Push(s[1], s[2]) PROVE Kept /\ AgesKept'
    BY <1>1, <1>4, PushKeeps, PushAges
  <1>5. ASSUME NEW over \in BOOLEAN, DispatchItem(over) PROVE Kept /\ AgesKept'
    BY <1>1, <1>5, DispatchKeeps, DispatchAges
  <1>6. ASSUME (\E second \in BOOLEAN : BeginDrain(second)) \/ StopTaking \/ EndDrain
        PROVE  Kept /\ AgesKept'
    BY <1>1, <1>6, DrainKeeps, QuietAges
  <1>7. ASSUME UNCHANGED qvars PROVE Kept /\ AgesKept'
    <2>1. NewestKept' /\ AgesKept'
      BY <1>1, <1>7, QuietQueue, QuietAges DEF qvars
    <2>2. QED
      BY <1>1, <1>7, <2>1 DEF qvars, QueueTypes, DrainType, KeysBounded, FifoForms, tryClassify
  <1>8. Kept /\ AgesKept'
    BY <1>3, <1>4, <1>5, <1>6, <1>7 DEF QueueNext
  <1>9. QED
    BY <1>2, <1>8
-------------------------------------------------------------------------------
(* The whole path *)

\* A step of the whole is, to each part, a step of its own or none.
LEMMA NextParts ==
    ASSUME QueueInv, [Next]_vars
    PROVE  /\ ReceiverNext \/ UNCHANGED rvars
           /\ QueueNext \/ UNCHANGED qvars
           /\ LimiterNext \/ UNCHANGED lvars
           /\ TrackingNext \/ UNCHANGED tvars
  <1> DEFINE Goal == /\ ReceiverNext \/ UNCHANGED rvars
                     /\ QueueNext \/ UNCHANGED qvars
                     /\ LimiterNext \/ UNCHANGED lvars
                     /\ TrackingNext \/ UNCHANGED tvars
  <1>1. ASSUME Receiver PROVE Goal
    BY <1>1 DEF Receiver, ReceiverNext
  <1>2. ASSUME NEW c \in Conns, TcpPush(c) PROVE Goal
    BY <1>2 DEF TcpPush, ReceiverNext, QueueNext
  <1>3. ASSUME UdpPush PROVE Goal
    BY <1>3 DEF UdpPush, QueueNext
  <1>4. ASSUME Dispatch PROVE Goal
    <2>1. QueueNext /\ UNCHANGED <<rvars, tvars>>
      BY <1>4 DEF Dispatch, QueueNext
    <2>2. drain.item.par \in Keys
      <3>1. drain.item \in Items
        BY <1>4 DEF Dispatch, DispatchItem, DrainAt, QueueInv, DrainType
      <3>2. QED
        BY <3>1, OscAssumption DEF Items, OscAssumption
    <2>3. LimiterNext \/ UNCHANGED lvars
      BY <1>4, <2>2 DEF Dispatch, LimiterNext
    <2>4. QED
      BY <2>1, <2>3
  <1>5. ASSUME DrainInternal PROVE Goal
    BY <1>5 DEF DrainInternal, QueueNext
  <1>6. ASSUME LimiterTimer \/ LimiterCalls PROVE Goal
    BY <1>6 DEF LimiterTimer, LimiterCalls, LimiterNext
  <1>7. ASSUME Tick PROVE Goal
    BY <1>7 DEF Tick, LimiterNext
  <1>8. ASSUME Tracking PROVE Goal
    BY <1>8 DEF Tracking, TrackingNext
  <1>9. ASSUME UNCHANGED vars PROVE Goal
    BY <1>9 DEF vars
  <1>10. QED
    BY <1>1, <1>2, <1>3, <1>4, <1>5, <1>6, <1>7, <1>8, <1>9 DEF Next

LEMMA InitIInv == Init => IInv
  BY InitReceiver, InitQueue, InitLimiter, InitTracking DEF IInv

LEMMA StepIInv == IInv /\ [Next]_vars => IInv'
  <1> SUFFICES ASSUME IInv, [Next]_vars PROVE IInv'
    OBVIOUS
  <1>1. ReceiverInv /\ QueueInv /\ LimiterInv /\ TrackingInv
    BY DEF IInv
  <1>2. /\ ReceiverNext \/ UNCHANGED rvars
        /\ QueueNext \/ UNCHANGED qvars
        /\ LimiterNext \/ UNCHANGED lvars
        /\ TrackingNext \/ UNCHANGED tvars
    BY <1>1, NextParts
  <1>3. QED
    BY <1>1, <1>2, ReceiverStep, QueueStep, LimiterStep, TrackingStep DEF IInv

\* The four parts keep their invariants whatever the others do.
THEOREM Invariance == Spec => []IInv
  BY InitIInv, StepIInv, PTL DEF Spec

\* Every variable has its type, and the client list, the coalesce maps, the FIFO
\* and the batches keep their limits (OSCTCPReceiver.cpp:291-306,
\* OSCIngestQueue.cpp:145-178, TrackingIngestQueue.cpp:29-65).
THEOREM TypeCorrect == Spec => []TypeOK
  <1>1. IInv => TypeOK
    BY DEF IInv, ReceiverInv, QueueInv, LimiterInv, TrackingInv, TypeOK
  <1>2. QED
    BY <1>1, Invariance, PTL

\* A client thread that runs is in the client list or in the accept thread's hand,
\* and none is left when the receiver is gone: disconnect() stops those listed while
\* it runs, the end of the list the rest (OSCTCPReceiver.cpp:56-63, 140-161, 200-207).
THEOREM OwnedHandlers == Spec => []HandlersOwned
  <1>1. IInv => HandlersOwned
    BY DEF IInv, ReceiverInv
  <1>2. QED
    BY <1>1, Invariance, PTL

\* Once nothing of a source or of a half waits, the application has its newest
\* accepted version; once nothing of a parameter waits, no version older than the
\* newest of a form is its value, but for a short form that a coalesced long form
\* overtook (OSCIngestQueue.cpp:145-274, TrackingIngestQueue.cpp:29-115).
THEOREM LatestKept == Spec => []LatestSurvives
  <1>1. QueueInv /\ TrackingInv => LatestSurvives
    <2> SUFFICES ASSUME QueueInv, TrackingInv PROVE LatestSurvives
      OBVIOUS
    <2>1. NewestHalfApplied
      BY DEF TrackingInv, HalfInv, NewestHalfApplied
    <2>2. \A s \in Sources : Waits(s) <=> Queued(s) \/ Held(s)
      BY DEF Waits, Queued, Held
    <2>3. \A s \in Sources : Waits(s) \/ applied[s] = newest[s]
      BY <2>2 DEF QueueInv, Newest
    <2>4. ASSUME NEW p \in Params, \A f \in Forms : ~Waits(<<p, f>>), NEW f \in Forms
          PROVE  value[p] >= newest[<<p, f>>] \/ Overtaken(p, f)
      <3>1. <<p, f>> \in Sources /\ ~Queued(<<p, f>>) /\ ~Held(<<p, f>>)
        BY <2>2, <2>4 DEF Sources
      <3>2. \/ value[p] >= newest[<<p, f>>]
            \/ /\ f = "short" /\ tryClassify(p, "long") /\ "long" \in Forms
               /\ value[p] = applied[<<p, "long">>]
        BY <3>1 DEF QueueInv, AgesKept, Settled
      <3>3. "long" \in Forms => applied[<<p, "long">>] = newest[<<p, "long">>]
        BY <2>3, <2>4 DEF Sources
      <3>4. QED
        BY <3>2, <3>3 DEF Overtaken
    <2>5. QED
      BY <2>1, <2>3, <2>4 DEF LatestSurvives
  <1>2. QED
    BY <1>1, Invariance, PTL DEF IInv

\* The timer sends to a target only when the interval in force has passed on the
\* wire, because the clock the limiter keeps is never ahead of it and setMaxRate
\* touches no clock (OSCRateLimiter.cpp:30-40, 159-238).
THEOREM RateKept == Spec => RateHeld
  <1>1. ASSUME IInv, limiterTimerCallback, NEW t \in Targets, received'[t] # received[t]
        PROVE  sinceWire[t] >= minInterval
    <2>1. /\ sinceSend[t] <= sinceWire[t] /\ sinceSend[t] \in Nat /\ sinceWire[t] \in Nat
          /\ minInterval \in Nat
      BY <1>1, LimiterAssumption
         DEF IInv, LimiterInv, LimiterTypeOK, LimiterAssumption
    <2>2. canSendToTarget(t)
      BY <1>1 DEF limiterTimerCallback, processBroadcast, processTargets, ReadyTargets
    <2>3. QED
      BY <2>1, <2>2 DEF canSendToTarget
  <1>2. IInv /\ [Next]_vars =>
          [limiterTimerCallback =>
              \A t \in Targets : received'[t] # received[t] => sinceWire[t] >= minInterval]_vars
    BY <1>1
  <1>3. QED
    BY <1>2, Invariance, PTL DEF Spec, RateHeld
===============================================================================
