-------------------------- MODULE MCPDispatcherProofs --------------------------
(***************************************************************************)
(* Proofs about MCPDispatcher, for any requests, calls and tiers, any pool *)
(* and any record buffer: a token confirms the call it was issued for, and *)
(* once; an answer tells the client what the handler did.                  *)
(***************************************************************************)
EXTENDS MCPDispatcher, FiniteSetTheorems, SequenceTheorems, TLAPS

-------------------------------------------------------------------------------
(* The inductive invariant *)

\* The requests in progress can be counted.
Countable == IsFiniteSet(InProgress)

\* A pending entry is a record.
Entries == pending \in [DOMAIN pending -> [call : Calls, lapsed : BOOLEAN]]

\* A request that has its go-ahead.
Cleared == {"execute", "wait", "record", "respond", "answered"}

\* A request offers a token from the moment it has one issued; the client holds
\* a token only when that answer has reached it; and a token a request runs on
\* is no longer pending, so no other request can run on it.
Tokens(r) ==
    LET t == request[r].token IN
    /\ offered[r] # 0 =>
         /\ pc[r] \in {"awaiting", "answered"} /\ issued[offered[r]] = request[r].call
         /\ pc[r] = "answered" => answer[r] = "awaiting"
    /\ pc[r] = "awaiting" \/ answer[r] = "awaiting" => offered[r] # 0
    /\ t # 0 => \E first \in Requests : offered[first] = t /\ answer[first] = "awaiting"
    /\ consent[r] = "token" =>
         pc[r] \in Cleared /\ t # 0 /\ t \notin DOMAIN pending /\ issued[t] = request[r].call

TokenInv ==
    /\ \A r \in Requests : Tokens(r)
    /\ \A r, s \in Requests :
         consent[r] = "token" /\ consent[s] = "token" /\ r # s =>
           request[r].token # request[s].token

\* A request whose payload has been posted to the message queue.
Posted(r) ==
    \/ pc[r] \in {"wait", "record", "respond"}
    \/ answer[r] \in {"result", "toolError", "timedOut"}

\* The record is pushed once the payload is known to be a successful change, and
\* before the answer.
RecordDue(r) ==
    /\ pc[r] = "respond" \/ answer[r] = "result"
    /\ payload[r] = "success" /\ request[r].call \in Modifies

\* The handler ran when the payload has a result; the thread of the request
\* decides on the payload, and the answer follows from where the thread went.
Told(r) ==
    /\ runs[r] = IF payload[r] = "none" THEN 0 ELSE 1
    /\ pushes[r] = IF RecordDue(r) THEN 1 ELSE 0
    /\ ~Posted(r) => payload[r] = "none"
    /\ answer[r] = "none" <=> pc[r] # "answered"
    /\ pc[r] = "record" => payload[r] = "success" /\ request[r].call \in Modifies
    /\ pc[r] = "respond" => payload[r] # "none"
    /\ answer[r] = "result" => payload[r] = "success"
    /\ answer[r] = "toolError" => payload[r] = "error"

ToldInv == \A r \in Requests : Told(r)

\* A payload is in the message queue at most once, and its handler has not run.
QueueInv ==
    /\ \A i \in 1..Len(queue) : Posted(queue[i]) /\ payload[queue[i]] = "none"
    /\ \A i, j \in 1..Len(queue) : queue[i] = queue[j] => i = j

IInv == TypeOK /\ Countable /\ Entries /\ TokenInv /\ ToldInv /\ QueueInv
-------------------------------------------------------------------------------
(* Types *)

TierTypes ==
    /\ issued \in Seq(Calls)
    /\ DOMAIN pending \subseteq 1..Len(issued)
    /\ \A t \in DOMAIN pending : pending[t].call = issued[t]
    /\ aiEnabled \in BOOLEAN /\ gate \in Windows /\ autoConfirm \in Windows
    /\ moves \in 0..MaxMoves
    /\ pc \in [Requests -> PCs]
    /\ request \in [Requests -> [call : Calls, token : 0..Len(issued)]]
    /\ offered \in [Requests -> 0..Len(issued)]
    /\ consent \in [Requests -> {"none", "tier1", "gate", "auto", "token"}]

DispatcherTypes ==
    /\ queue \in Seq(Requests)
    /\ payload \in [Requests -> Results]
    /\ records \in Seq(Requests) /\ Len(records) <= Capacity
    /\ answer \in [Requests -> Answers]
    /\ runs \in [Requests -> Nat] /\ pushes \in [Requests -> Nat]

Bounded == Countable /\ Cardinality(InProgress) <= PoolSize

\* TypeOK in the parts the actions disturb.
LEMMA TypeParts == Entries => (TypeOK <=> /\ TierTypes /\ DispatcherTypes
                                         /\ Cardinality(InProgress) <= PoolSize)
  <1>1. Entries => \A t \in DOMAIN pending : pending[t].lapsed \in BOOLEAN
    BY DEF Entries
  <1>2. QED
    BY <1>1, Zenon DEF TypeOK, TierTypes, DispatcherTypes

\* The tier the enforcement works with is one of the three.
LEMMA TierRange ==
    ASSUME TierTypes, NEW r \in Requests
    PROVE  effectiveTier(r) \in {1, 2, 3}
  <1>1. request[r].call \in Calls
    BY DEF TierTypes
  <1>2. Tier[request[r].call] \in Int
    BY <1>1, TierAssumption DEF TierAssumption
  <1>3. QED
    BY <1>2 DEF effectiveTier

\* Dropping entries leaves the others as they were.
LEMMA DroppedEntries ==
    ASSUME TierTypes, Entries, NEW S \in SUBSET DOMAIN pending,
           pending' = Only(pending, S), UNCHANGED issued
    PROVE  /\ Entries' /\ DOMAIN pending' = S
           /\ DOMAIN pending' \subseteq 1..Len(issued')
           /\ \A t \in DOMAIN pending' : pending'[t].call = issued'[t]
  BY DEF TierTypes, Entries, Only

\* The states of a request's thread while evaluate asks its questions, and those
\* its outcome leads to.
Asking == {"evaluate", "toggle", "gate", "window", "auto", "consume", "issue"}
Outcomes == {"awaiting", "aiDisabled", "gateClosed", "execute"}

\* Each question moves only the request that asks it, and changes no answer.
LEMMA EvaluateMoves ==
    ASSUME TierTypes, NEW r \in Requests, evaluate(r)
    PROVE  /\ pc[r] \in Asking
           /\ \E to \in Asking \cup Outcomes : Goto(r, to)
           /\ UNCHANGED <<windows, moves, request>>
  <1> USE DEF Asking, Outcomes
  <1>1. CASE PurgeExpired(r)
    BY <1>1 DEF PurgeExpired
  <1>2. CASE ReadToggle(r)
    <2>1. effectiveTier(r) \in {1, 2, 3} /\ aiEnabled \in BOOLEAN
      BY TierRange DEF TierTypes
    <2>2. Goto(r, "aiDisabled") \/ Goto(r, "execute") \/ Goto(r, "window") \/ Goto(r, "gate")
      BY <1>2, <2>1 DEF ReadToggle, Execute
    <2>3. QED
      BY <1>2, <2>2 DEF ReadToggle
  <1>3. CASE RequireGate(r)
    BY <1>3 DEF RequireGate
  <1>4. CASE ReadGate(r)
    BY <1>4 DEF ReadGate, Execute
  <1>5. CASE ReadAutoConfirm(r)
    BY <1>5 DEF ReadAutoConfirm, Execute
  <1>6. CASE consumeMatchingToken(r)
    BY <1>6 DEF consumeMatchingToken, Execute
  <1>7. CASE issueToken(r)
    BY <1>7 DEF issueToken
  <1>8. QED
    BY <1>1, <1>2, <1>3, <1>4, <1>5, <1>6, <1>7 DEF evaluate

\* What evaluate does to tokens and consent: it drops entries and clears the
\* request on a path that needs no token; or the matching entry answers for the
\* request; or the client is offered a new one.
Drops(r) ==
    /\ \E to \in Asking \cup Outcomes : to # "awaiting" /\ Goto(r, to)
    /\ \E S \in SUBSET DOMAIN pending : pending' = Only(pending, S)
    /\ \/ UNCHANGED consent
       \/ \E why \in {"tier1", "gate", "auto"} : consent' = [consent EXCEPT ![r] = why]
    /\ UNCHANGED <<issued, offered>>

Spends(r) ==
    LET t == request[r].token IN
    /\ t \in DOMAIN pending /\ pending[t].call = request[r].call
    /\ pending' = Only(pending, DOMAIN pending \ {t})
    /\ Execute(r, "token")
    /\ UNCHANGED <<issued, offered>>

LEMMA EvaluateTokens ==
    ASSUME TierTypes, Entries, NEW r \in Requests, evaluate(r)
    PROVE  Drops(r) \/ Spends(r) \/ issueToken(r)
  <1> USE DEF Asking, Outcomes
  <1>0. Only(pending, DOMAIN pending) = pending
    BY DEF Entries, Only
  <1>1. CASE PurgeExpired(r)
    BY <1>1 DEF PurgeExpired, Drops, Valid
  <1>2. CASE ReadToggle(r)
    <2>1. effectiveTier(r) \in {1, 2, 3} /\ aiEnabled \in BOOLEAN
      BY TierRange DEF TierTypes
    <2>2. consent' = consent \/ consent' = [consent EXCEPT ![r] = "tier1"]
      BY <1>2, <2>1 DEF ReadToggle, Execute
    <2>3. Goto(r, "aiDisabled") \/ Goto(r, "execute") \/ Goto(r, "window") \/ Goto(r, "gate")
      BY <1>2, <2>1 DEF ReadToggle, Execute
    <2>4. QED
      BY <1>0, <1>2, <2>2, <2>3 DEF ReadToggle, Drops
  <1>3. CASE RequireGate(r)
    BY <1>0, <1>3 DEF RequireGate, Drops
  <1>4. CASE ReadGate(r)
    BY <1>0, <1>4 DEF ReadGate, Execute, Drops
  <1>5. CASE ReadAutoConfirm(r)
    BY <1>0, <1>5 DEF ReadAutoConfirm, Execute, Drops
  <1>6. CASE consumeMatchingToken(r)
    <2>1. CASE Matches(r) /\ request[r].token \in Valid(pending)
      BY <1>6, <2>1 DEF consumeMatchingToken, Matches, Spends
    <2>2. CASE ~(Matches(r) /\ request[r].token \in Valid(pending))
      <3>1. \E S \in SUBSET DOMAIN pending : pending' = Only(pending, S)
        BY <1>0, <1>6 DEF consumeMatchingToken
      <3>2. QED
        BY <1>6, <2>2, <3>1 DEF consumeMatchingToken, Drops
    <2>3. QED
      BY <2>1, <2>2
  <1>7. QED
    BY <1>1, <1>2, <1>3, <1>4, <1>5, <1>6 DEF evaluate

LEMMA EvaluateTypes ==
    ASSUME TierTypes, Entries, NEW r \in Requests, evaluate(r)
    PROVE  TierTypes' /\ Entries'
  <1>1. /\ UNCHANGED <<aiEnabled, gate, autoConfirm, moves, request>>
        /\ pc' \in [Requests -> PCs]
    <2>1. UNCHANGED <<windows, moves, request>> /\ \E to \in Asking \cup Outcomes : Goto(r, to)
      BY EvaluateMoves
    <2>2. PICK to \in Asking \cup Outcomes : Goto(r, to)
      BY <2>1
    <2>3. pc' = [pc EXCEPT ![r] = to] /\ to \in PCs
      BY <2>2 DEF Goto, Asking, Outcomes, PCs
    <2>4. pc' \in [Requests -> PCs]
      BY <2>3 DEF TierTypes
    <2>5. QED
      BY <2>1, <2>4 DEF windows
  <1>2. CASE Drops(r)
    <2>1. /\ Entries' /\ DOMAIN pending' \subseteq 1..Len(issued')
          /\ \A t \in DOMAIN pending' : pending'[t].call = issued'[t]
      BY <1>2, DroppedEntries DEF Drops
    <2>2. consent' \in [Requests -> {"none", "tier1", "gate", "auto", "token"}]
      BY <1>2 DEF Drops, TierTypes
    <2>3. QED
      BY <1>1, <1>2, <2>1, <2>2 DEF Drops, TierTypes
  <1>3. CASE Spends(r)
    <2>1. /\ Entries' /\ DOMAIN pending' \subseteq 1..Len(issued')
          /\ \A t \in DOMAIN pending' : pending'[t].call = issued'[t]
      BY <1>3, DroppedEntries DEF Spends
    <2>2. consent' \in [Requests -> {"none", "tier1", "gate", "auto", "token"}]
      BY <1>3 DEF Spends, Execute, TierTypes
    <2>3. QED
      BY <1>1, <1>3, <2>1, <2>2 DEF Spends, TierTypes
  <1>4. CASE issueToken(r)
    <2>1. request[r].call \in Calls /\ Len(issued) \in Nat
      BY DEF TierTypes
    <2>2. /\ issued' \in Seq(Calls) /\ Len(issued') = Len(issued) + 1
          /\ \A t \in 1..Len(issued) : issued'[t] = issued[t]
          /\ issued'[Len(issued) + 1] = request[r].call
      BY <1>4, <2>1 DEF issueToken, TierTypes
    <2>3. Entries' /\ DOMAIN pending' = DOMAIN pending \cup {Len(issued) + 1}
      BY <1>4, <2>1 DEF issueToken, Entries
    <2>4. \A t \in DOMAIN pending' : pending'[t].call = issued'[t]
      <3>1. SUFFICES ASSUME NEW t \in DOMAIN pending' PROVE pending'[t].call = issued'[t]
        OBVIOUS
      <3>2. CASE t \in DOMAIN pending
        BY <1>4, <2>2, <3>2 DEF issueToken, TierTypes
      <3>3. CASE t \notin DOMAIN pending
        BY <1>4, <2>2, <2>3, <3>3 DEF issueToken
      <3>4. QED
        BY <3>2, <3>3
    <2>5. DOMAIN pending' \subseteq 1..Len(issued')
      BY <2>1, <2>2, <2>3 DEF TierTypes
    <2>6. offered' \in [Requests -> 0..Len(issued')]
      BY <1>4, <2>1, <2>2 DEF issueToken, TierTypes
    <2>7. request' \in [Requests -> [call : Calls, token : 0..Len(issued')]]
      <3>1. \A s \in Requests : request[s] \in [call : Calls, token : 0..Len(issued')]
        BY <2>1, <2>2 DEF TierTypes
      <3>2. QED
        BY <1>1, <3>1 DEF TierTypes
    <2>8. UNCHANGED consent
      BY <1>4 DEF issueToken
    <2>9. QED
      BY <1>1, <2>2, <2>3, <2>4, <2>5, <2>6, <2>7, <2>8 DEF TierTypes
  <1>5. QED
    BY <1>2, <1>3, <1>4, EvaluateTokens

\* The steps of a request outside evaluate move its thread, from a state in
\* progress, and leave the tiers alone.
ThreadMoves(r) ==
    /\ pc[r] \in {"find", "awaiting", "aiDisabled", "gateClosed", "execute", "wait",
                  "record", "respond"}
    /\ \E to \in {"evaluate", "wait", "record", "respond", "answered"} : Goto(r, to)
    /\ UNCHANGED <<pending, issued, windows, moves, request, offered, consent>>

\* The record buffer keeps to its capacity.
LEMMA PushedFits ==
    ASSUME NEW r \in Requests, NEW b \in Seq(Requests), Len(b) <= Capacity
    PROVE  Pushed(b, r) \in Seq(Requests) /\ Len(Pushed(b, r)) <= Capacity
  <1>1. Capacity \in Nat \ {0}
    BY DispatcherAssumption DEF DispatcherAssumption
  <1>2. CASE Len(b) >= Capacity
    <2>1. b # <<>>
      BY <1>1, <1>2
    <2>2. Tail(b) \in Seq(Requests) /\ Len(Tail(b)) = Len(b) - 1
      BY <2>1, HeadTailProperties
    <2>3. Pushed(b, r) = Append(Tail(b), r)
      BY <1>2 DEF Pushed
    <2>4. QED
      BY <1>1, <2>2, <2>3, AppendProperties
  <1>3. CASE ~(Len(b) >= Capacity)
    <2>1. Pushed(b, r) = Append(b, r)
      BY <1>3 DEF Pushed
    <2>2. QED
      BY <1>1, <1>3, <2>1, AppendProperties
  <1>4. QED
    BY <1>2, <1>3

ThreadStep(r) ==
    \/ FindTool(r) \/ AnswerOutcome(r) \/ Post(r) \/ WaitDone(r) \/ WaitTimeout(r)
    \/ PushRecord(r) \/ Respond(r)

LEMMA ThreadTypes ==
    ASSUME DispatcherTypes, NEW r \in Requests, ThreadStep(r)
    PROVE  DispatcherTypes' /\ ThreadMoves(r)
  <1> USE DEF DispatcherTypes, Answers, Results, ThreadMoves, Answer
  <1>1. CASE FindTool(r)
    <2>1. answer' \in [Requests -> Answers]
      BY <1>1 DEF FindTool
    <2>2. QED
      BY <1>1, <2>1 DEF FindTool
  <1>2. CASE AnswerOutcome(r)
    BY <1>2 DEF AnswerOutcome
  <1>3. CASE Post(r)
    BY <1>3, AppendProperties DEF Post
  <1>4. CASE WaitDone(r)
    BY <1>4 DEF WaitDone, dvars
  <1>5. CASE WaitTimeout(r)
    BY <1>5 DEF WaitTimeout
  <1>6. CASE PushRecord(r)
    <2>1. records' \in Seq(Requests) /\ Len(records') <= Capacity
      BY <1>6, PushedFits DEF PushRecord
    <2>2. pushes' \in [Requests -> Nat]
      BY <1>6 DEF PushRecord
    <2>3. QED
      BY <1>6, <2>1, <2>2 DEF PushRecord
  <1>7. CASE Respond(r)
    BY <1>7 DEF Respond
  <1>8. QED
    BY <1>1, <1>2, <1>3, <1>4, <1>5, <1>6, <1>7 DEF ThreadStep
LEMMA ThreadTierTypes ==
    ASSUME TierTypes, Entries, NEW r \in Requests, ThreadMoves(r)
    PROVE  TierTypes' /\ Entries'
  <1>1. PICK to \in {"evaluate", "wait", "record", "respond", "answered"} : Goto(r, to)
    BY DEF ThreadMoves
  <1>2. pc' \in [Requests -> PCs]
    BY <1>1 DEF Goto, TierTypes, PCs
  <1>3. QED
    BY <1>2 DEF ThreadMoves, TierTypes, Entries, windows

LEMMA ReceiveTypes ==
    ASSUME TierTypes, Entries, DispatcherTypes, NEW r \in Requests, Receive(r)
    PROVE  TierTypes' /\ Entries' /\ DispatcherTypes'
  <1>1. Len(issued) \in Nat
    BY DEF TierTypes
  <1>2. PICK t \in Known \cup {0} : request' = [request EXCEPT ![r].token = t]
    BY DEF Receive
  <1>3. t \in 0..Len(issued)
    BY <1>1 DEF Known, TierTypes
  <1>4. request' \in [Requests -> [call : Calls, token : 0..Len(issued)]]
    BY <1>2, <1>3 DEF TierTypes
  <1>5. pc' \in [Requests -> PCs]
    BY DEF Receive, Goto, TierTypes, PCs
  <1>6. QED
    BY <1>4, <1>5 DEF Receive, TierTypes, Entries, DispatcherTypes, windows, dvars

LEMMA HandlerTypes ==
    ASSUME DispatcherTypes, RunHandler
    PROVE  /\ DispatcherTypes' /\ UNCHANGED <<records, answer, pushes>>
           /\ Head(queue) \in Requests
           /\ \E res \in {"success", "error"} : payload' = [payload EXCEPT ![Head(queue)] = res]
           /\ runs' = [runs EXCEPT ![Head(queue)] = @ + 1]
  <1>1. Head(queue) \in Requests /\ Tail(queue) \in Seq(Requests)
    BY HeadTailProperties DEF RunHandler, DispatcherTypes
  <1>2. \E res \in {"success", "error"} : payload' = [payload EXCEPT ![Head(queue)] = res]
    BY DEF RunHandler
  <1>3. runs' = [runs EXCEPT ![Head(queue)] = @ + 1] /\ UNCHANGED <<records, answer, pushes>>
    BY DEF RunHandler
  <1>4. payload' \in [Requests -> Results]
    BY <1>1, <1>2 DEF DispatcherTypes, Results
  <1>5. runs' \in [Requests -> Nat]
    BY <1>1, <1>3 DEF DispatcherTypes
  <1>6. queue' \in Seq(Requests)
    BY <1>1 DEF RunHandler
  <1>7. QED
    BY <1>1, <1>2, <1>3, <1>4, <1>5, <1>6 DEF DispatcherTypes

LEMMA UndoTypes ==
    ASSUME DispatcherTypes, UndoLast
    PROVE  DispatcherTypes' /\ UNCHANGED <<queue, payload, answer, runs, pushes>>
  <1>1. records # <<>> /\ records \in Seq(Requests) /\ Len(records) <= Capacity
    BY DEF UndoLast, DispatcherTypes
  <1>2. Len(records) \in Nat /\ Len(records) # 0 /\ Capacity \in Nat
    BY <1>1, EmptySeq, DispatcherAssumption DEF DispatcherAssumption
  <1>3. \A i \in 1..(Len(records) - 1) : records[i] \in Requests
    BY <1>1, <1>2, ElementOfSeq
  <1>4. Front(records) \in Seq(Requests) /\ Len(Front(records)) <= Capacity
    <2>1. 1 \in Int /\ Len(records) - 1 \in Int
      BY <1>2
    <2>2. /\ SubSeq(records, 1, Len(records) - 1) \in Seq(Requests)
          /\ Len(SubSeq(records, 1, Len(records) - 1)) =
               IF 1 <= Len(records) - 1 THEN Len(records) - 1 - 1 + 1 ELSE 0
      BY <2>1, <1>3, SubSeqProperties
    <2>3. QED
      BY <1>1, <1>2, <2>2 DEF Front
  <1>5. QED
    BY <1>4 DEF UndoLast, DispatcherTypes

\* The message thread's timer and the operator, and the clock, leave the requests
\* and their tokens alone, but for entries that lapse or are dropped.
LEMMA TierThreadTypes ==
    ASSUME TierTypes, Entries, timerCallback \/ Operator \/ Clock
    PROVE  /\ TierTypes' /\ Entries' /\ DOMAIN pending' \subseteq DOMAIN pending
           /\ UNCHANGED <<issued, pc, request, offered, consent>>
  <1> USE DEF Windows
  <1>1. CASE timerCallback
    <2>1. Valid(pending) \in SUBSET DOMAIN pending
      BY DEF Valid
    <2>2. /\ Entries' /\ DOMAIN pending' = Valid(pending)
          /\ DOMAIN pending' \subseteq 1..Len(issued')
          /\ \A t \in DOMAIN pending' : pending'[t].call = issued'[t]
      BY <1>1, <2>1, DroppedEntries DEF timerCallback
    <2>3. gate' \in Windows /\ autoConfirm' \in Windows
      BY <1>1 DEF timerCallback, TierTypes
    <2>4. QED
      BY <1>1, <2>1, <2>2, <2>3 DEF timerCallback, TierTypes
  <1>2. CASE Operator
    <2>1. moves' \in 0..MaxMoves
      BY <1>2, TierAssumption
         DEF TierAssumption, Operator, SetSafetyGate, SetTier2AutoConfirm, setAIEnabled,
             Move, TierTypes
    <2>2. aiEnabled' \in BOOLEAN
      BY <1>2 DEF Operator, SetSafetyGate, SetTier2AutoConfirm, setAIEnabled, TierTypes
    <2>3. gate' \in Windows /\ autoConfirm' \in Windows
      BY <1>2 DEF Operator, SetSafetyGate, SetTier2AutoConfirm, setAIEnabled, TierTypes
    <2>4. UNCHANGED <<pending, issued, pc, request, offered, consent>>
      BY <1>2 DEF Operator, SetSafetyGate, SetTier2AutoConfirm, setAIEnabled, Move
    <2>5. QED
      BY <2>1, <2>2, <2>3, <2>4 DEF TierTypes, Entries
  <1>3. CASE TokenLapses
    <2>1. PICK t \in Valid(pending) : pending' = [pending EXCEPT ![t].lapsed = TRUE]
      BY <1>3 DEF TokenLapses
    <2>2. t \in DOMAIN pending
      BY DEF Valid
    <2>3. Entries' /\ DOMAIN pending' = DOMAIN pending
      BY <2>1, <2>2 DEF Entries
    <2>4. \A u \in DOMAIN pending : pending'[u].call = pending[u].call
      BY <2>1, <2>2 DEF Entries
    <2>5. QED
      BY <1>3, <2>3, <2>4 DEF TokenLapses, TierTypes, windows
  <1>4. CASE WindowLapses
    BY <1>4 DEF WindowLapses, TierTypes, Entries
  <1>5. QED
    BY <1>1, <1>2, <1>3, <1>4 DEF Clock
-------------------------------------------------------------------------------
(* The pool *)

\* A step that moves no thread out of "unsent" takes no thread of the pool.
LEMMA PoolShrinks ==
    ASSUME Bounded, InProgress' \subseteq InProgress
    PROVE  Bounded'
  <1>1. IsFiniteSet(InProgress) /\ PoolSize \in Nat /\ Cardinality(InProgress) <= PoolSize
    BY DispatcherAssumption DEF Bounded, Countable, DispatcherAssumption
  <1>2. /\ IsFiniteSet(InProgress') /\ Cardinality(InProgress') <= Cardinality(InProgress)
        /\ Cardinality(InProgress') \in Nat /\ Cardinality(InProgress) \in Nat
    BY <1>1, FS_Subset, FS_CardinalityType
  <1>3. QED
    BY <1>1, <1>2 DEF Bounded, Countable

LEMMA BoundedStep == TierTypes /\ Entries /\ Bounded /\ [Next]_vars => Bounded'
  <1> SUFFICES ASSUME TierTypes, Entries, Bounded, [Next]_vars PROVE Bounded'
    OBVIOUS
  <1>1. ASSUME NEW r \in Requests, Receive(r) PROVE Bounded'
    <2>1. /\ IsFiniteSet(InProgress) /\ Cardinality(InProgress) < PoolSize
          /\ Cardinality(InProgress) \in Nat /\ PoolSize \in Nat
      BY <1>1, FS_CardinalityType, DispatcherAssumption
         DEF Bounded, Countable, Receive, DispatcherAssumption
    <2>2. InProgress' = InProgress \cup {r}
      BY <1>1 DEF InProgress, Receive, Goto, TierTypes
    <2>3. IsFiniteSet(InProgress') /\ Cardinality(InProgress') <= Cardinality(InProgress) + 1
      BY <2>1, <2>2, FS_AddElement, SMTT(30)
    <2>4. Cardinality(InProgress') \in Nat
      BY <2>3, FS_CardinalityType
    <2>5. Cardinality(InProgress') <= PoolSize
      BY <2>1, <2>3, <2>4
    <2>6. QED
      BY <2>3, <2>5 DEF Bounded, Countable
  <1>2. ASSUME NEW r \in Requests, handleToolsCall(r) PROVE Bounded'
    <2>1. pc[r] \notin {"unsent", "answered"} /\ \E to \in PCs : Goto(r, to)
      <3>1. CASE evaluate(r)
        BY <3>1, EvaluateMoves DEF Asking, Outcomes, PCs
      <3>2. CASE ThreadStep(r)
        BY <3>2 DEF ThreadStep, FindTool, AnswerOutcome, Post, WaitDone, WaitTimeout,
                    PushRecord, Respond, Answer, PCs
      <3>3. QED
        BY <1>2, <3>1, <3>2 DEF handleToolsCall, ThreadStep
    <2>2. InProgress' \subseteq InProgress
      BY <2>1 DEF InProgress, Goto, TierTypes
    <2>3. QED
      BY <2>2, PoolShrinks
  <1>3. ASSUME UNCHANGED pc PROVE Bounded'
    BY <1>3, PoolShrinks DEF InProgress
  <1>4. MessageThread \/ Clock \/ UNCHANGED vars => UNCHANGED pc
    BY TierThreadTypes DEF MessageThread, RunHandler, UndoLast, vars, tvars
  <1>5. QED
    BY <1>1, <1>2, <1>3, <1>4 DEF Next

-------------------------------------------------------------------------------
(* What the client is told *)

\* Nothing about a request changes what was known of it.
LEMMA ToldKept ==
    ASSUME NEW r \in Requests, Told(r),
           pc'[r] = pc[r], answer'[r] = answer[r], payload'[r] = payload[r],
           runs'[r] = runs[r], pushes'[r] = pushes[r], request'[r].call = request[r].call
    PROVE  Told(r)' /\ (Posted(r)' <=> Posted(r))
  BY DEF Told, Posted, RecordDue

\* The messages that are queued stay queued, and nothing about them changes.
LEMMA QueueKept ==
    ASSUME DispatcherTypes, QueueInv, UNCHANGED <<queue, payload>>,
           \A r \in Requests : Posted(r) => Posted(r)'
    PROVE  QueueInv'
  <1>1. \A i \in 1..Len(queue) : queue[i] \in Requests
    BY ElementOfSeq DEF DispatcherTypes
  <1>2. QED
    BY <1>1 DEF QueueInv

LEMMA ReceiveTold ==
    ASSUME IInv, NEW r \in Requests, Receive(r)
    PROVE  ToldInv' /\ QueueInv'
  <1>1. /\ pc \in [Requests -> PCs] /\ pc' = [pc EXCEPT ![r] = "find"] /\ pc[r] = "unsent"
        /\ \A s \in Requests : request'[s].call = request[s].call
        /\ UNCHANGED dvars
    BY DEF Receive, Goto, IInv, TypeOK
  <1>2. ASSUME NEW s \in Requests PROVE Told(s)' /\ (Posted(s) => Posted(s)')
    <2>1. Told(s)
      BY DEF IInv, ToldInv
    <2>2. CASE s = r
      BY <1>1, <2>1, <2>2 DEF Told, Posted, RecordDue, dvars
    <2>3. CASE s # r
      BY <1>1, <2>1, <2>3, ToldKept DEF dvars
    <2>4. QED
      BY <2>2, <2>3
  <1>3. DispatcherTypes /\ QueueInv /\ UNCHANGED <<queue, payload>>
    BY <1>1 DEF IInv, TypeOK, DispatcherTypes, dvars
  <1>4. QED
    BY <1>2, <1>3, QueueKept DEF ToldInv

LEMMA EvaluateTold ==
    ASSUME IInv, TierTypes, NEW r \in Requests, evaluate(r), UNCHANGED dvars
    PROVE  ToldInv' /\ QueueInv'
  <1>1. /\ pc[r] \in Asking /\ \E to \in Asking \cup Outcomes : Goto(r, to)
        /\ UNCHANGED request
    BY EvaluateMoves
  <1>2. PICK to \in Asking \cup Outcomes : pc' = [pc EXCEPT ![r] = to]
    BY <1>1 DEF Goto
  <1>3. pc \in [Requests -> PCs]
    BY DEF IInv, TypeOK
  <1>4. ASSUME NEW s \in Requests PROVE Told(s)' /\ (Posted(s) => Posted(s)')
    <2>1. Told(s)
      BY DEF IInv, ToldInv
    <2>2. CASE s = r
      BY <1>1, <1>2, <1>3, <2>1, <2>2 DEF Told, Posted, RecordDue, dvars, Asking, Outcomes
    <2>3. CASE s # r
      BY <1>1, <1>2, <1>3, <2>1, <2>3, ToldKept DEF dvars
    <2>4. QED
      BY <2>2, <2>3
  <1>5. DispatcherTypes /\ QueueInv /\ UNCHANGED <<queue, payload>>
    BY DEF IInv, TypeOK, DispatcherTypes, dvars
  <1>6. QED
    BY <1>4, <1>5, QueueKept DEF ToldInv
LEMMA ThreadTold ==
    ASSUME IInv, NEW r \in Requests, ThreadStep(r)
    PROVE  ToldInv' /\ QueueInv'
  <1>1. /\ ThreadMoves(r) /\ DispatcherTypes /\ pc \in [Requests -> PCs]
        /\ request \in [Requests -> [call : Calls, token : 0..Len(issued)]]
    BY ThreadTypes DEF IInv, TypeOK, DispatcherTypes
  <1>2. UNCHANGED request /\ \E to \in PCs : pc' = [pc EXCEPT ![r] = to]
    BY <1>1 DEF ThreadMoves, Goto, PCs
  <1>3. Told(r)
    BY DEF IInv, ToldInv
  <1>4. ASSUME NEW s \in Requests \ {r} PROVE Told(s)' /\ (Posted(s)' <=> Posted(s))
    <2>1. Told(s)
      BY DEF IInv, ToldInv
    <2>2. answer'[s] = answer[s] /\ pushes'[s] = pushes[s] /\ UNCHANGED <<payload, runs>>
      BY <1>1 DEF ThreadStep, FindTool, AnswerOutcome, Post, WaitDone, WaitTimeout,
                  PushRecord, Respond, Answer, DispatcherTypes, dvars
    <2>3. pc'[s] = pc[s]
      BY <1>1, <1>2
    <2>4. QED
      BY <1>2, <2>1, <2>2, <2>3, ToldKept
  <1>5. Told(r)' /\ (Posted(r) => Posted(r)') /\ (Post(r) => ~Posted(r) /\ Posted(r)')
    <2> USE <1>1, <1>3 DEF Told, Posted, RecordDue, Goto, Answer, DispatcherTypes, Results
    <2>1. CASE FindTool(r)
      BY <2>1 DEF FindTool, Post
    <2>2. CASE AnswerOutcome(r)
      BY <2>2 DEF AnswerOutcome, Post
    <2>3. CASE Post(r)
      BY <2>3 DEF Post
    <2>4. CASE WaitDone(r)
      BY <2>4 DEF WaitDone, dvars, Post
    <2>5. CASE WaitTimeout(r)
      BY <2>5 DEF WaitTimeout, Post
    <2>6. CASE PushRecord(r)
      BY <2>6 DEF PushRecord, Post
    <2>7. CASE Respond(r)
      BY <2>7 DEF Respond, Post
    <2>8. QED
      BY <2>1, <2>2, <2>3, <2>4, <2>5, <2>6, <2>7 DEF ThreadStep
  <1>6. ToldInv' /\ \A s \in Requests : Posted(s) => Posted(s)'
    BY <1>4, <1>5 DEF ToldInv
  <1>7. CASE ~Post(r)
    <2>1. UNCHANGED <<queue, payload>>
      BY <1>7 DEF ThreadStep, FindTool, AnswerOutcome, WaitDone, WaitTimeout, PushRecord,
                  Respond, dvars
    <2>2. QED
      BY <1>1, <1>6, <2>1, QueueKept DEF IInv
  <1>8. CASE Post(r)
    <2>1. queue' = Append(queue, r) /\ UNCHANGED payload
      BY <1>8 DEF Post
    <2>2. /\ Len(queue) \in Nat /\ Len(queue') = Len(queue) + 1
          /\ \A i \in 1..Len(queue) : queue'[i] = queue[i] /\ queue[i] \in Requests
          /\ queue'[Len(queue) + 1] = r
      BY <1>1, <2>1 DEF DispatcherTypes
    <2>3. \A i \in 1..Len(queue) : Posted(queue[i]) /\ payload[queue[i]] = "none" /\ queue[i] # r
      BY <1>5, <1>8 DEF IInv, QueueInv
    <2>4. payload[r] = "none"
      BY <1>3, <1>5, <1>8 DEF Told
    <2>5. ASSUME NEW i \in 1..Len(queue')
          PROVE  Posted(queue[i])' /\ (payload[queue[i]] = "none")'
      <3>1. i \in 1..Len(queue) \/ i = Len(queue) + 1
        BY <2>2
      <3>2. Posted(queue'[i]) \/ queue'[i] = r
        BY <2>2, <2>3, <3>1
      <3>3. queue'[i] \in Requests /\ payload[queue'[i]] = "none"
        BY <2>2, <2>3, <2>4, <3>1
      <3>4. \A s \in Requests : Posted(s) \/ s = r => Posted(s)'
        BY <1>5, <1>6, <1>8
      <3>5. QED
        BY <2>1, <3>2, <3>3, <3>4 DEF Posted
    <2>6. ASSUME NEW i \in 1..Len(queue'), NEW j \in 1..Len(queue'), queue'[i] = queue'[j]
          PROVE  i = j
      <3>1. (i \in 1..Len(queue) \/ i = Len(queue) + 1)
            /\ (j \in 1..Len(queue) \/ j = Len(queue) + 1)
        BY <2>2
      <3>2. CASE i \in 1..Len(queue) /\ j \in 1..Len(queue)
        <4>1. queue[i] = queue[j]
          BY <2>2, <2>6, <3>2
        <4>2. QED
          BY <3>2, <4>1 DEF IInv, QueueInv
      <3>3. CASE i = Len(queue) + 1 \/ j = Len(queue) + 1
        BY <2>2, <2>3, <2>6, <3>1, <3>3
      <3>4. QED
        BY <3>1, <3>2, <3>3
    <2>7. QED
      BY <1>6, <2>5, <2>6 DEF QueueInv
  <1>9. QED
    BY <1>6, <1>7, <1>8

LEMMA HandlerTold ==
    ASSUME IInv, RunHandler
    PROVE  ToldInv' /\ QueueInv'
  <1>1. /\ DispatcherTypes /\ queue # <<>> /\ queue' = Tail(queue)
        /\ UNCHANGED <<pc, request, answer, pushes>>
    BY DEF IInv, TypeOK, DispatcherTypes, RunHandler, tvars
  <1>2. PICK r \in Requests :
          /\ r = Head(queue) /\ runs' = [runs EXCEPT ![r] = @ + 1]
          /\ \E res \in {"success", "error"} : payload' = [payload EXCEPT ![r] = res]
    BY <1>1, HandlerTypes
  <1>3. PICK res \in {"success", "error"} : payload' = [payload EXCEPT ![r] = res]
    BY <1>2
  <1>4. /\ r = queue[1] /\ Len(queue) \in Nat /\ Len(queue) > 0
        /\ Len(queue') = Len(queue) - 1
        /\ \A i \in 1..Len(queue') : queue'[i] = queue[i + 1] /\ queue[i + 1] \in Requests
    BY <1>1, <1>2 DEF DispatcherTypes
  <1>5. Told(r) /\ Posted(r) /\ payload[r] = "none"
    BY <1>2, <1>4 DEF IInv, ToldInv, QueueInv
  <1>6. /\ payload'[r] = res /\ runs'[r] = runs[r] + 1
        /\ \A s \in Requests \ {r} : payload'[s] = payload[s] /\ runs'[s] = runs[s]
    BY <1>1, <1>2, <1>3 DEF DispatcherTypes
  <1>7. Told(r)' /\ Posted(r)'
    <2>1. Posted(r)'
      BY <1>1, <1>5 DEF Posted
    <2>2. ~RecordDue(r) /\ ~RecordDue(r)'
      BY <1>1, <1>5 DEF Told, RecordDue
    <2>3. QED
      BY <1>1, <1>5, <1>6, <2>1, <2>2 DEF Told
  <1>8. ASSUME NEW s \in Requests \ {r} PROVE Told(s)' /\ (Posted(s)' <=> Posted(s))
    BY <1>1, <1>6, ToldKept DEF IInv, ToldInv
  <1>9. \A i \in 1..Len(queue') : queue'[i] \in Requests \ {r} /\ Posted(queue'[i])
                                   /\ payload[queue'[i]] = "none"
    <2>1. ASSUME NEW i \in 1..Len(queue') PROVE i + 1 \in 1..Len(queue) /\ i + 1 # 1
      BY <1>4
    <2>2. QED
      BY <1>4, <2>1 DEF IInv, QueueInv
  <1>10. \A i, j \in 1..Len(queue') : queue'[i] = queue'[j] => i = j
    <2>1. ASSUME NEW i \in 1..Len(queue'), NEW j \in 1..Len(queue'), queue'[i] = queue'[j]
          PROVE  i = j
      <3>1. i + 1 \in 1..Len(queue) /\ j + 1 \in 1..Len(queue) /\ queue[i + 1] = queue[j + 1]
        BY <1>4, <2>1
      <3>2. i + 1 = j + 1
        BY <3>1 DEF IInv, QueueInv
      <3>3. QED
        BY <1>4, <3>2
    <2>2. QED
      BY <2>1
  <1>11. QED
    BY <1>6, <1>7, <1>8, <1>9, <1>10 DEF ToldInv, QueueInv
-------------------------------------------------------------------------------
(* Tokens *)

\* What a client has been told stays told, a token stays the token of its call,
\* and no spent token comes back: entries only go, but for the next token.
Lasting ==
    /\ \A f \in Requests :
         answer[f] = "awaiting" => answer'[f] = "awaiting" /\ offered'[f] = offered[f]
    /\ \A t \in 1..Len(issued) : issued'[t] = issued[t]
    /\ \A t \in DOMAIN pending' : t \in DOMAIN pending \/ t = Len(issued) + 1

LEMMA TokensKept ==
    ASSUME TierTypes, Lasting, NEW r \in Requests, Tokens(r),
           pc'[r] = pc[r], answer'[r] = answer[r], offered'[r] = offered[r],
           request'[r] = request[r], consent'[r] = consent[r]
    PROVE  Tokens(r)'
  <1>1. /\ Len(issued) \in Nat /\ request[r].token \in 0..Len(issued)
        /\ offered[r] \in 0..Len(issued)
    BY DEF TierTypes
  <1>2. /\ request[r].token # 0 =>
             \E first \in Requests : offered'[first] = request[r].token /\ answer'[first] = "awaiting"
        /\ offered[r] # 0 => issued'[offered[r]] = issued[offered[r]]
        /\ request[r].token # 0 => issued'[request[r].token] = issued[request[r].token]
        /\ request[r].token \notin DOMAIN pending => request[r].token \notin DOMAIN pending'
    BY <1>1 DEF Lasting, Tokens
  <1>3. QED
    BY <1>2 DEF Tokens

LEMMA ReceiveTokens ==
    ASSUME IInv, TierTypes, NEW r \in Requests, Receive(r)
    PROVE  TokenInv'
  <1>1. PICK t \in Known \cup {0} : request' = [request EXCEPT ![r].token = t]
    BY DEF Receive
  <1>2. /\ UNCHANGED <<pending, issued, offered, consent, answer>>
        /\ pc[r] = "unsent" /\ pc' = [pc EXCEPT ![r] = "find"]
        /\ pc \in [Requests -> PCs]
        /\ request \in [Requests -> [call : Calls, token : 0..Len(issued)]]
    BY DEF Receive, Goto, dvars, TierTypes
  <1>3. Tokens(r) /\ offered[r] = 0 /\ consent[r] # "token" /\ answer[r] # "awaiting"
    BY <1>2 DEF IInv, TokenInv, Tokens, Cleared
  <1>4. Tokens(r)'
    <2>1. request'[r].token = t
      BY <1>1, <1>2
    <2>2. t # 0 => \E first \in Requests : offered[first] = t /\ answer[first] = "awaiting"
      BY DEF Known
    <2>3. QED
      BY <1>2, <1>3, <2>1, <2>2 DEF Tokens
  <1>5. \A s \in Requests \ {r} : request'[s] = request[s] /\ pc'[s] = pc[s]
    BY <1>1, <1>2
  <1>6. \A s \in Requests \ {r} : Tokens(s)'
    BY <1>2, <1>5, TokensKept DEF Lasting, IInv, TokenInv
  <1>7. QED
    BY <1>2, <1>3, <1>4, <1>5, <1>6 DEF TokenInv, IInv

LEMMA ThreadTokens ==
    ASSUME IInv, TierTypes, DispatcherTypes, NEW r \in Requests, ThreadStep(r)
    PROVE  TokenInv'
  <1>1. ThreadMoves(r)
    BY ThreadTypes
  <1>2. /\ UNCHANGED <<pending, issued, request, offered, consent>>
        /\ pc \in [Requests -> PCs]
    BY <1>1 DEF ThreadMoves, TierTypes
  <1>3. PICK to \in {"evaluate", "wait", "record", "respond", "answered"} :
          pc' = [pc EXCEPT ![r] = to]
    BY <1>1 DEF ThreadMoves, Goto
  <1>4. Tokens(r) /\ Told(r)
    BY DEF IInv, TokenInv, ToldInv
  <1>5. \A s \in Requests \ {r} : pc'[s] = pc[s] /\ answer'[s] = answer[s]
    BY <1>2, <1>3 DEF ThreadStep, FindTool, AnswerOutcome, Post, WaitDone, WaitTimeout,
                      PushRecord, Respond, Answer, DispatcherTypes, dvars
  <1>6. /\ answer[r] # "awaiting"
        /\ pc[r] = "awaiting" => pc'[r] = "answered" /\ answer'[r] = "awaiting"
        /\ pc[r] # "awaiting" => answer'[r] # "awaiting" /\ pc'[r] # "awaiting"
        /\ pc[r] \in Cleared => pc'[r] \in Cleared
    <2> USE <1>2, <1>4 DEF Told, Cleared, Goto, Answer, DispatcherTypes
    <2>1. CASE FindTool(r)
      BY <2>1 DEF FindTool
    <2>2. CASE AnswerOutcome(r)
      BY <2>2 DEF AnswerOutcome
    <2>3. CASE Post(r)
      BY <2>3 DEF Post
    <2>4. CASE WaitDone(r)
      BY <2>4 DEF WaitDone, dvars
    <2>5. CASE WaitTimeout(r)
      BY <2>5 DEF WaitTimeout
    <2>6. CASE PushRecord(r)
      BY <2>6 DEF PushRecord
    <2>7. CASE Respond(r)
      BY <2>7 DEF Respond
    <2>8. QED
      BY <2>1, <2>2, <2>3, <2>4, <2>5, <2>6, <2>7 DEF ThreadStep
  <1>7. \A f \in Requests : answer[f] = "awaiting" => answer'[f] = "awaiting"
    BY <1>5, <1>6
  <1>8. \A s \in Requests \ {r} : Tokens(s)'
    BY <1>2, <1>5, <1>7, TokensKept DEF Lasting, IInv, TokenInv
  <1>9. Tokens(r)'
    <2>1. offered[r] # 0 => pc[r] = "awaiting" /\ issued[offered[r]] = request[r].call
      BY <1>4, <1>6 DEF Tokens, Told
    <2>2. request[r].token # 0 => \E first \in Requests :
            offered[first] = request[r].token /\ answer'[first] = "awaiting"
      BY <1>4, <1>7 DEF Tokens
    <2>3. QED
      BY <1>2, <1>4, <1>6, <2>1, <2>2 DEF Tokens
  <1>10. QED
    BY <1>2, <1>8, <1>9 DEF TokenInv, IInv

LEMMA EvaluateTokenInv ==
    ASSUME IInv, TierTypes, NEW r \in Requests, evaluate(r), UNCHANGED dvars
    PROVE  TokenInv'
  <1>1. /\ pc[r] \in Asking /\ \E to \in Asking \cup Outcomes : Goto(r, to)
        /\ UNCHANGED request
    BY EvaluateMoves
  <1>2. PICK to \in Asking \cup Outcomes : pc' = [pc EXCEPT ![r] = to]
    BY <1>1 DEF Goto
  <1>3. /\ pc \in [Requests -> PCs] /\ UNCHANGED answer /\ Len(issued) \in Nat
        /\ consent \in [Requests -> {"none", "tier1", "gate", "auto", "token"}]
        /\ offered \in [Requests -> 0..Len(issued)]
        /\ request \in [Requests -> [call : Calls, token : 0..Len(issued)]]
        /\ DOMAIN pending \subseteq 1..Len(issued)
    BY DEF TierTypes, dvars
  <1>4. Tokens(r) /\ offered[r] = 0 /\ consent[r] # "token" /\ answer[r] # "awaiting"
    BY <1>1 DEF IInv, TokenInv, Tokens, Cleared, Asking
  <1>5. \A s \in Requests \ {r} : Tokens(s) /\ pc'[s] = pc[s]
    BY <1>2, <1>3 DEF IInv, TokenInv
  <1>6. Drops(r) \/ Spends(r) \/ issueToken(r)
    BY EvaluateTokens DEF IInv
  <1>7. CASE Drops(r)
    <2>1. /\ DOMAIN pending' \subseteq DOMAIN pending /\ UNCHANGED <<issued, offered>>
          /\ consent'[r] # "token" /\ \A s \in Requests \ {r} : consent'[s] = consent[s]
      BY <1>3, <1>4, <1>7 DEF Drops, Only
    <2>2. pc'[r] # "awaiting"
      BY <1>3, <1>7 DEF Drops, Goto
    <2>3. Tokens(r)'
      BY <1>1, <1>3, <1>4, <2>1, <2>2 DEF Tokens
    <2>4. \A s \in Requests \ {r} : Tokens(s)'
      BY <1>1, <1>3, <1>5, <2>1, TokensKept DEF Lasting
    <2>5. QED
      BY <1>1, <2>1, <2>3, <2>4 DEF TokenInv, IInv
  <1>8. CASE Spends(r)
    <2> DEFINE t == request[r].token
    <2>1. /\ t \in DOMAIN pending /\ pending[t].call = request[r].call
          /\ DOMAIN pending' = DOMAIN pending \ {t} /\ UNCHANGED <<issued, offered>>
          /\ pc'[r] = "execute" /\ consent'[r] = "token"
          /\ \A s \in Requests \ {r} : consent'[s] = consent[s]
      BY <1>3, <1>8 DEF Spends, Only, Execute, Goto
    <2>2. issued[t] = request[r].call /\ t # 0
      BY <1>3, <2>1 DEF TierTypes
    <2>3. Tokens(r)'
      BY <1>1, <1>3, <1>4, <2>1, <2>2 DEF Tokens, Cleared
    <2>4. \A s \in Requests \ {r} : Tokens(s)'
      BY <1>1, <1>3, <1>5, <2>1, TokensKept DEF Lasting
    <2>5. \A s \in Requests \ {r} : consent[s] = "token" => request[s].token # t
      BY <1>5, <2>1 DEF Tokens
    <2>6. QED
      BY <1>1, <2>1, <2>3, <2>4, <2>5 DEF TokenInv, IInv
  <1>9. CASE issueToken(r)
    <2>1. /\ DOMAIN pending' = DOMAIN pending \cup {Len(issued) + 1}
          /\ pc'[r] = "awaiting" /\ offered'[r] = Len(issued) + 1 /\ UNCHANGED consent
          /\ \A s \in Requests \ {r} : offered'[s] = offered[s]
      BY <1>3, <1>9 DEF issueToken, Goto
    <2>2. /\ \A t \in 1..Len(issued) : issued'[t] = issued[t]
          /\ issued'[Len(issued) + 1] = request[r].call
      BY <1>3, <1>9 DEF issueToken, TierTypes
    <2>3. Lasting
      BY <1>3, <1>4, <2>1, <2>2 DEF Lasting
    <2>4. Tokens(r)'
      <3>1. request[r].token # 0 => \E first \in Requests :
              offered'[first] = request[r].token /\ answer'[first] = "awaiting"
        BY <1>4, <2>3 DEF Lasting, Tokens
      <3>2. QED
        BY <1>1, <1>3, <1>4, <2>1, <2>2, <3>1 DEF Tokens
    <2>5. \A s \in Requests \ {r} : Tokens(s)'
      BY <1>1, <1>3, <1>5, <2>1, <2>3, TokensKept
    <2>6. QED
      BY <1>1, <2>1, <2>4, <2>5 DEF TokenInv, IInv
  <1>10. QED
    BY <1>6, <1>7, <1>8, <1>9

\* A step that changes no request, no answer and no token but to drop entries.
LEMMA QuietTokens ==
    ASSUME IInv, TierTypes, UNCHANGED <<issued, pc, request, offered, consent, answer>>,
           DOMAIN pending' \subseteq DOMAIN pending
    PROVE  TokenInv'
  BY TokensKept DEF IInv, TokenInv, Lasting
-------------------------------------------------------------------------------
(* The theorems *)

LEMMA InitIInv == Init => IInv
  <1> SUFFICES ASSUME Init PROVE IInv
    OBVIOUS
  <1> USE DEF Init, TierInit
  <1>1. Entries
    BY DEF Entries
  <1>2. TierTypes
    <2>1. DOMAIN pending = {} /\ issued \in Seq(Calls) /\ Len(issued) = 0
      OBVIOUS
    <2>2. request \in [Requests -> [call : Calls, token : 0..Len(issued)]]
      BY <2>1
    <2>3. pc \in [Requests -> PCs]
      BY DEF PCs
    <2>4. moves \in 0..MaxMoves
      BY TierAssumption DEF TierAssumption
    <2>5. QED
      BY <2>1, <2>2, <2>3, <2>4 DEF TierTypes, Windows
  <1>3. DispatcherTypes
    BY DispatcherAssumption DEF DispatcherTypes, Results, Answers, DispatcherAssumption
  <1>4. Countable /\ Cardinality(InProgress) <= PoolSize
    <2>1. InProgress = {}
      BY DEF InProgress
    <2>2. IsFiniteSet(InProgress) /\ Cardinality(InProgress) = 0
      BY <2>1, FS_EmptySet
    <2>3. QED
      BY <2>2, DispatcherAssumption DEF Countable, DispatcherAssumption
  <1>5. TokenInv
    BY DEF TokenInv, Tokens
  <1>6. ToldInv
    BY DEF ToldInv, Told, Posted, RecordDue
  <1>7. QueueInv
    BY DEF QueueInv
  <1>8. QED
    BY <1>1, <1>2, <1>3, <1>4, <1>5, <1>6, <1>7, TypeParts DEF IInv

LEMMA StepIInv == IInv /\ [Next]_vars => IInv'
  <1> SUFFICES ASSUME IInv, [Next]_vars PROVE IInv'
    OBVIOUS
  <1> DEFINE Goal == TierTypes' /\ Entries' /\ DispatcherTypes' /\ TokenInv' /\ ToldInv' /\ QueueInv'
  <1>0. /\ TierTypes /\ Entries /\ DispatcherTypes /\ Bounded
        /\ TokenInv /\ ToldInv /\ QueueInv
    BY TypeParts DEF IInv, Bounded
  <1>1. ASSUME NEW r \in Requests, Receive(r) PROVE Goal
    BY <1>0, <1>1, ReceiveTypes, ReceiveTokens, ReceiveTold
  <1>2. ASSUME NEW r \in Requests, evaluate(r), UNCHANGED dvars PROVE Goal
    <2>1. DispatcherTypes'
      BY <1>0, <1>2 DEF DispatcherTypes, dvars
    <2>2. QED
      BY <1>0, <1>2, <2>1, EvaluateTypes, EvaluateTokenInv, EvaluateTold
  <1>3. ASSUME NEW r \in Requests, ThreadStep(r) PROVE Goal
    <2>1. DispatcherTypes' /\ ThreadMoves(r)
      BY <1>0, <1>3, ThreadTypes
    <2>2. TierTypes' /\ Entries'
      BY <1>0, <2>1, ThreadTierTypes
    <2>3. QED
      BY <1>0, <1>3, <2>1, <2>2, ThreadTokens, ThreadTold
  <1>4. ASSUME UNCHANGED tvars, UNCHANGED answer PROVE TierTypes' /\ Entries' /\ TokenInv'
    <2>1. TierTypes' /\ Entries'
      BY <1>0, <1>4 DEF TierTypes, Entries, tvars
    <2>2. QED
      BY <1>0, <1>4, <2>1, QuietTokens DEF tvars
  <1>5. ASSUME UNCHANGED <<pc, request, queue, payload, answer, runs, pushes>>
        PROVE  ToldInv' /\ QueueInv'
    <2>1. \A r \in Requests : Told(r)' /\ (Posted(r)' <=> Posted(r))
      BY <1>0, <1>5, ToldKept DEF ToldInv
    <2>2. QED
      BY <1>0, <1>5, <2>1, QueueKept DEF ToldInv
  <1>6. ASSUME RunHandler PROVE Goal
    <2>1. UNCHANGED tvars /\ UNCHANGED answer
      BY <1>6 DEF RunHandler
    <2>2. QED
      BY <1>0, <1>4, <1>6, <2>1, HandlerTypes, HandlerTold
  <1>7. ASSUME UndoLast PROVE Goal
    <2>1. UNCHANGED tvars /\ UNCHANGED <<pc, request, queue, payload, answer, runs, pushes>>
      BY <1>7 DEF UndoLast, tvars
    <2>2. QED
      BY <1>0, <1>4, <1>5, <1>7, <2>1, UndoTypes
  <1>8. ASSUME timerCallback \/ Operator \/ Clock, UNCHANGED dvars PROVE Goal
    <2>1. /\ TierTypes' /\ Entries' /\ DOMAIN pending' \subseteq DOMAIN pending
          /\ UNCHANGED <<issued, pc, request, offered, consent>>
      BY <1>0, <1>8, TierThreadTypes
    <2>2. DispatcherTypes' /\ UNCHANGED <<queue, payload, answer, runs, pushes>>
      BY <1>0, <1>8 DEF DispatcherTypes, dvars
    <2>3. QED
      BY <1>0, <1>5, <2>1, <2>2, QuietTokens
  <1>9. ASSUME UNCHANGED vars PROVE Goal
    <2>1. /\ UNCHANGED tvars /\ UNCHANGED dvars
          /\ UNCHANGED <<pc, request, queue, payload, answer, runs, pushes>>
      BY <1>9 DEF vars, tvars, dvars
    <2>2. DispatcherTypes' /\ UNCHANGED answer
      BY <1>0, <2>1 DEF DispatcherTypes, dvars
    <2>3. QED
      BY <1>4, <1>5, <2>1, <2>2
  <1>10. Goal
    BY <1>1, <1>2, <1>3, <1>6, <1>7, <1>8, <1>9
       DEF Next, handleToolsCall, ThreadStep, MessageThread
  <1>11. Bounded'
    BY <1>0, BoundedStep
  <1>12. TypeOK'
    <2>1. (Entries => (TypeOK <=> /\ TierTypes /\ DispatcherTypes
                                 /\ Cardinality(InProgress) <= PoolSize))'
      BY TypeParts, PTL
    <2>2. QED
      BY <1>10, <1>11, <2>1 DEF Bounded
  <1>13. QED
    BY <1>10, <1>11, <1>12 DEF IInv, Bounded

\* Which request holds which token, what each was told and what is still in the
\* message queue, in every reachable state.
THEOREM Invariance == Spec => []IInv
  BY InitIInv, StepIInv, PTL DEF Spec

\* TypeOK: every variable keeps its type, no more requests are in progress than
\* the HTTP pool has threads, and the record buffer keeps to its capacity.
THEOREM TypeCorrect == Spec => []TypeOK
  <1>1. IInv => TypeOK
    BY DEF IInv
  <1>2. QED
    BY Invariance, <1>1, PTL

\* TokenSpentOnce: at most one request runs on a token, and it is a request for
\* the very call that was answered with it.
THEOREM TokensConfirmOnce == Spec => []TokenSpentOnce
  <1>1. IInv => TokenSpentOnce
    <2> SUFFICES ASSUME IInv, NEW r \in Requests, consent[r] = "token"
                 PROVE  /\ request[r].token \notin DOMAIN pending
                        /\ \E first \in Requests :
                             offered[first] = request[r].token /\ answer[first] = "awaiting"
                               /\ request[first].call = request[r].call
                        /\ \A s \in Requests \ {r} :
                             consent[s] = "token" => request[s].token # request[r].token
      BY DEF TokenSpentOnce
    <2>1. Tokens(r)
      BY DEF IInv, TokenInv
    <2>2. PICK first \in Requests : offered[first] = request[r].token /\ answer[first] = "awaiting"
      BY <2>1 DEF Tokens
    <2>3. request[first].call = request[r].call
      BY <2>1, <2>2 DEF IInv, TokenInv, Tokens
    <2>4. QED
      BY <2>1, <2>2, <2>3 DEF IInv, TokenInv, Tokens
  <1>2. QED
    BY Invariance, <1>1, PTL

\* AnswersTrue: an answer about a call is never contradicted by what the handler and
\* the change records did; of a call that timed out it says that it runs at most once.
THEOREM AnswersHold == Spec => []AnswersTrue
  <1>1. IInv => AnswersTrue
    <2> SUFFICES ASSUME IInv, NEW r \in Requests
                 PROVE  /\ runs[r] <= 1 /\ pushes[r] <= runs[r]
                        /\ answer[r] \in {"awaiting", "refused", "notFound"} =>
                             runs[r] = 0 /\ r \notin ToSet(queue)
                        /\ answer[r] \in {"result", "toolError"} => runs[r] = 1
                        /\ answer[r] = "result" /\ request[r].call \in Modifies => pushes[r] = 1
                        /\ answer[r] = "toolError" => pushes[r] = 0
      BY DEF AnswersTrue
    <2>1. Told(r)
      BY DEF IInv, ToldInv
    <2>2. r \in ToSet(queue) => Posted(r)
      <3>1. DOMAIN queue = 1..Len(queue)
        BY DEF IInv, TypeOK
      <3>2. QED
        BY <3>1 DEF ToSet, IInv, QueueInv
    <2>3. answer[r] # "none" => pc[r] = "answered"
      BY <2>1 DEF Told
    <2>4. QED
      BY <2>1, <2>2, <2>3 DEF Told, Posted, RecordDue
  <1>2. QED
    BY Invariance, <1>1, PTL
===============================================================================
