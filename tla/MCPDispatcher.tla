----------------------------- MODULE MCPDispatcher -----------------------------
(***************************************************************************)
(* handleToolsCall of control/mcp/MCPDispatcher with the tiers of          *)
(* MCPTierEnforcement and the change records of MCPChangeRecords: requests *)
(* on the threads of the HTTP pool, the tool handlers one at a time on the *)
(* message thread, and the record of a change pushed by the request's      *)
(* thread when it has been woken.                                          *)
(*                                                                         *)
(* A request that has waited toolTimeoutMs answers an error; its payload   *)
(* stays in the message queue and the handler still runs.                  *)
(***************************************************************************)
EXTENDS MCPTierEnforcement, FiniteSets, SequencesExt

CONSTANTS
    PoolSize,    \* threads of the HTTP pool
    Registered,  \* the calls of registered tools
    Modifies,    \* the calls of tools with modifiesState
    Capacity     \* of the change-record buffer

ASSUME DispatcherAssumption ==
    /\ Registered \subseteq Calls
    /\ Modifies \subseteq Registered
    /\ PoolSize \in Nat \ {0} /\ Capacity \in Nat \ {0}

VARIABLES
    queue,    \* the message queue: payloads posted, by request
    payload,  \* Requests -> the handler's result in the payload
    records,  \* the change-record buffer, oldest first: the requests recorded
    answer,   \* Requests -> what the client was told
    runs,     \* history: Requests -> how often the handler ran
    pushes    \* history: Requests -> how often a record was pushed

dvars == <<queue, payload, records, answer, runs, pushes>>
vars == <<tvars, dvars>>

Results == {"none", "success", "error"}
Answers == {"none", "result", "toolError", "awaiting", "refused", "timedOut", "notFound"}

\* Tokens a client has been handed.
Known == {offered[r] : r \in {s \in Requests : answer[s] = "awaiting"}}

Init ==
    /\ TierInit
    /\ queue = <<>>
    /\ payload = [r \in Requests |-> "none"]
    /\ records = <<>>
    /\ answer = [r \in Requests |-> "none"]
    /\ runs = [r \in Requests |-> 0]
    /\ pushes = [r \in Requests |-> 0]

InProgress == {r \in Requests : pc[r] \notin {"unsent", "answered"}}

\* A request arrives with the token of an earlier answer, or with none.
Receive(r) ==
    /\ pc[r] = "unsent"
    /\ Cardinality(InProgress) < PoolSize
    /\ \E t \in Known \cup {0} : request' = [request EXCEPT ![r].token = t]
    /\ Goto(r, "find")
    /\ UNCHANGED <<pending, issued, windows, moves, offered, consent, dvars>>

Answer(r, a) ==
    /\ Goto(r, "answered")
    /\ answer' = [answer EXCEPT ![r] = a]

\* registry.find.
FindTool(r) ==
    /\ pc[r] = "find"
    /\ IF request[r].call \in Registered
       THEN Goto(r, "evaluate") /\ UNCHANGED answer
       ELSE Answer(r, "notFound")
    /\ UNCHANGED <<pending, issued, windows, moves, request, offered, consent,
                   queue, payload, records, runs, pushes>>

\* The early returns on the outcome of evaluate.
AnswerOutcome(r) ==
    /\ pc[r] \in {"aiDisabled", "gateClosed", "awaiting"}
    /\ Answer(r, IF pc[r] = "awaiting" THEN "awaiting" ELSE "refused")
    /\ UNCHANGED <<pending, issued, windows, moves, request, offered, consent,
                   queue, payload, records, runs, pushes>>

\* MessageManager::callAsync.
Post(r) ==
    /\ pc[r] = "execute"
    /\ queue' = Append(queue, r)
    /\ Goto(r, "wait")
    /\ UNCHANGED <<pending, issued, windows, moves, request, offered, consent,
                   payload, records, answer, runs, pushes>>

\* The posted lambda: the handler succeeds, answers an error, or throws.
RunHandler ==
    /\ queue # <<>>
    /\ LET r == Head(queue) IN
       /\ runs' = [runs EXCEPT ![r] = @ + 1]
       /\ \E res \in {"success", "error"} : payload' = [payload EXCEPT ![r] = res]
    /\ queue' = Tail(queue)
    /\ UNCHANGED <<tvars, records, answer, pushes>>

\* Mutant: a failed change is recorded too.
WaitDoneEither(r) ==
    /\ pc[r] = "wait"
    /\ payload[r] # "none"
    /\ Goto(r, IF request[r].call \in Modifies THEN "record" ELSE "respond")
    /\ UNCHANGED <<pending, issued, windows, moves, request, offered, consent, dvars>>

WaitDone(r) ==
    /\ pc[r] = "wait"
    /\ payload[r] # "none"
    /\ Goto(r, IF payload[r] = "success" /\ request[r].call \in Modifies
               THEN "record" ELSE "respond")
    /\ UNCHANGED <<pending, issued, windows, moves, request, offered, consent, dvars>>

WaitTimeout(r) ==
    /\ pc[r] = "wait"
    /\ payload[r] = "none"
    /\ Answer(r, "timedOut")
    /\ UNCHANGED <<pending, issued, windows, moves, request, offered, consent,
                   queue, payload, records, runs, pushes>>

\* Mutant: room is made one record late.
PushedLate(b, r) == Append(IF Len(b) > Capacity THEN Tail(b) ELSE b, r)

\* MCPChangeRecordBuffer::push of b: the oldest record makes room.
Pushed(b, r) == Append(IF Len(b) >= Capacity THEN Tail(b) ELSE b, r)

PushRecord(r) ==
    /\ pc[r] = "record"
    /\ records' = Pushed(records, r)
    /\ pushes' = [pushes EXCEPT ![r] = @ + 1]
    /\ Goto(r, "respond")
    /\ UNCHANGED <<pending, issued, windows, moves, request, offered, consent,
                   queue, payload, answer, runs>>

Respond(r) ==
    /\ pc[r] = "respond"
    /\ Answer(r, IF payload[r] = "success" THEN "result" ELSE "toolError")
    /\ UNCHANGED <<pending, issued, windows, moves, request, offered, consent,
                   queue, payload, records, runs, pushes>>

\* The undo engine takes the last record.
UndoLast ==
    /\ records # <<>>
    /\ records' = Front(records)
    /\ UNCHANGED <<tvars, queue, payload, answer, runs, pushes>>

handleToolsCall(r) ==
    \/ FindTool(r)
    \/ evaluate(r) /\ UNCHANGED dvars
    \/ AnswerOutcome(r)
    \/ Post(r)
    \/ WaitDone(r)
    \/ WaitTimeout(r)
    \/ PushRecord(r)
    \/ Respond(r)

MessageThread ==
    \/ RunHandler
    \/ timerCallback /\ UNCHANGED dvars
    \/ Operator /\ UNCHANGED dvars
    \/ UndoLast

Next ==
    \/ \E r \in Requests : Receive(r) \/ handleToolsCall(r)
    \/ MessageThread
    \/ Clock /\ UNCHANGED dvars

Spec == Init /\ [][Next]_vars
-------------------------------------------------------------------------------
PCs == {"unsent", "find", "evaluate", "toggle", "gate", "window", "auto", "consume",
        "issue", "awaiting", "aiDisabled", "gateClosed", "execute", "wait", "record",
        "respond", "answered"}

\* Types, and the bounds of the pool, of the record buffer and of the tokens.
TypeOK ==
    /\ issued \in Seq(Calls)
    /\ DOMAIN pending \subseteq 1..Len(issued)
    /\ \A t \in DOMAIN pending : pending[t].call = issued[t] /\ pending[t].lapsed \in BOOLEAN
    /\ aiEnabled \in BOOLEAN /\ gate \in Windows /\ autoConfirm \in Windows
    /\ moves \in 0..MaxMoves
    /\ pc \in [Requests -> PCs]
    /\ request \in [Requests -> [call : Calls, token : 0..Len(issued)]]
    /\ offered \in [Requests -> 0..Len(issued)]
    /\ consent \in [Requests -> {"none", "tier1", "gate", "auto", "token"}]
    /\ Cardinality(InProgress) <= PoolSize
    /\ queue \in Seq(Requests)
    /\ payload \in [Requests -> Results]
    /\ records \in Seq(Requests) /\ Len(records) <= Capacity
    /\ answer \in [Requests -> Answers]
    /\ runs \in [Requests -> Nat] /\ pushes \in [Requests -> Nat]

\* "The tool ran on a confirmation": at most one request runs on a token,
\* although the client may send it again on two threads at once, and it is a
\* request for the very call whose first attempt was answered with the token
\* (MCPTierEnforcement.h:15-18).
TokenSpentOnce ==
    \A r \in Requests : consent[r] = "token" =>
      LET t == request[r].token IN
      /\ t \notin DOMAIN pending
      /\ \E first \in Requests :
           offered[first] = t /\ answer[first] = "awaiting"
                            /\ request[first].call = request[r].call
      /\ \A s \in Requests \ {r} : consent[s] = "token" => request[s].token # t

\* The client can trust an answer: a call reported as refused, unknown or
\* awaiting its confirmation never runs; one reported as done ran exactly once
\* and left exactly one record if it modifies state; one reported as failed left
\* none.  Of a call that timed out it promises only that it runs at most once:
\* it may still run, and then has no record, although MCPChangeRecords.h:57-58
\* wants one of every successful call.
AnswersTrue ==
    \A r \in Requests :
      /\ runs[r] <= 1 /\ pushes[r] <= runs[r]
      /\ answer[r] \in {"awaiting", "refused", "notFound"} =>
           runs[r] = 0 /\ r \notin ToSet(queue)
      /\ answer[r] \in {"result", "toolError"} => runs[r] = 1
      /\ answer[r] = "result" /\ request[r].call \in Modifies => pushes[r] = 1
      /\ answer[r] = "toolError" => pushes[r] = 0
===============================================================================
