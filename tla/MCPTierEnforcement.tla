-------------------------- MODULE MCPTierEnforcement --------------------------
(***************************************************************************)
(* The tiers of control/mcp/MCPTierEnforcement: evaluate decides, on the   *)
(* HTTP thread of each request, whether a tool call runs, waits for the    *)
(* client to confirm it with a token, or is refused; the operator opens    *)
(* and closes the windows, and the 4 Hz timer retires what has lapsed, on  *)
(* the message thread.                                                     *)
(*                                                                         *)
(* evaluate takes the lock once per question it asks, so each question is  *)
(* a step.  A tool and its canonical arguments are one member of Calls; an *)
(* expiry time in the past is "lapsed".  peekExpiredMatch only words the   *)
(* answer and is left out.                                                 *)
(***************************************************************************)
EXTENDS Integers, Sequences

CONSTANTS
    Requests,   \* the tools/call requests
    Calls,      \* tool and canonical arguments, the confirm field stripped
    Tier,       \* Calls -> the tier of the tool, as registered
    MaxMoves    \* bound on the operator's moves

ASSUME TierAssumption ==
    /\ Tier \in [Calls -> Int]
    /\ MaxMoves \in Nat

VARIABLES
    pending,      \* token -> the call it confirms and whether it has lapsed
    issued,       \* history: the call each token was issued for
    aiEnabled,
    gate,         \* "closed", "open" or "lapsed": gateOpen, gateOpenedUntil
    autoConfirm,  \* the same of tier2AutoConfirmOpen, tier2AutoConfirmUntil
    moves,        \* operator moves so far
    pc,           \* Requests -> where its thread is
    request,      \* Requests -> its call and the confirm token, 0 for none
    offered,      \* Requests -> the token of its Outcome, 0 for none
    consent       \* Requests -> what evaluate let it run on: the token, or a path

tvars == <<pending, issued, aiEnabled, gate, autoConfirm, moves, pc, request,
           offered, consent>>
windows == <<aiEnabled, gate, autoConfirm>>

Windows == {"closed", "open", "lapsed"}
Valid(p) == {t \in DOMAIN p : ~p[t].lapsed}
Only(p, S) == [t \in S |-> p[t]]

\* jlimit (1, 3, declaredTier).
effectiveTier(r) ==
    LET t == Tier[request[r].call] IN IF t < 1 THEN 1 ELSE IF t > 3 THEN 3 ELSE t

TierInit ==
    /\ pending = [t \in {} |-> [call |-> 0, lapsed |-> FALSE]]
    /\ issued = <<>>
    /\ aiEnabled = FALSE
    /\ gate = "closed" /\ autoConfirm = "closed"
    /\ moves = 0
    /\ pc = [r \in Requests |-> "unsent"]
    /\ request \in [Requests -> [call : Calls, token : {0}]]
    /\ offered = [r \in Requests |-> 0]
    /\ consent = [r \in Requests |-> "none"]

Goto(r, at) == pc' = [pc EXCEPT ![r] = at]

\* Decision::Execute, and why.
Execute(r, why) ==
    /\ Goto(r, "execute")
    /\ consent' = [consent EXCEPT ![r] = why]

PurgeExpired(r) ==
    /\ pc[r] = "evaluate"
    /\ pending' = Only(pending, Valid(pending))
    /\ Goto(r, "toggle")
    /\ UNCHANGED <<issued, windows, moves, request, offered, consent>>

\* The master toggle; then tier 1 runs, and tier 3 asks for the gate.
ReadToggle(r) ==
    /\ pc[r] = "toggle"
    /\ CASE ~aiEnabled              -> Goto(r, "aiDisabled") /\ UNCHANGED consent
         [] aiEnabled /\ effectiveTier(r) = 1 -> Execute(r, "tier1")
         [] aiEnabled /\ effectiveTier(r) = 2 -> Goto(r, "window") /\ UNCHANGED consent
         [] aiEnabled /\ effectiveTier(r) = 3 -> Goto(r, "gate") /\ UNCHANGED consent
    /\ UNCHANGED <<pending, issued, windows, moves, request, offered>>

\* The first isSafetyGateOpen, for tier 3 only.
RequireGate(r) ==
    /\ pc[r] = "gate"
    /\ Goto(r, IF gate = "open" THEN "window" ELSE "gateClosed")
    /\ UNCHANGED <<pending, issued, windows, moves, request, offered, consent>>

\* The second isSafetyGateOpen, another section of the lock.
ReadGate(r) ==
    /\ pc[r] = "window"
    /\ IF gate = "open"
       THEN Execute(r, "gate")
       ELSE /\ Goto(r, IF effectiveTier(r) = 2 THEN "auto" ELSE "consume")
            /\ UNCHANGED consent
    /\ UNCHANGED <<pending, issued, windows, moves, request, offered>>

ReadAutoConfirm(r) ==
    /\ pc[r] = "auto"
    /\ IF autoConfirm = "open"
       THEN Execute(r, "auto")
       ELSE Goto(r, "consume") /\ UNCHANGED consent
    /\ UNCHANGED <<pending, issued, windows, moves, request, offered>>

\* A token answers for the very call it was issued for.
Matches(r) ==
    /\ request[r].token \in DOMAIN pending
    /\ pending[request[r].token].call = request[r].call

\* Mutant: the entry is erased only when it has lapsed.
ConsumeKeeping(r) ==
    LET t == request[r].token IN
    /\ pc[r] = "consume"
    /\ pending' = IF Matches(r) /\ t \notin Valid(pending)
                  THEN Only(pending, DOMAIN pending \ {t}) ELSE pending
    /\ IF Matches(r) /\ t \in Valid(pending)
       THEN Execute(r, "token")
       ELSE Goto(r, "issue") /\ UNCHANGED consent
    /\ UNCHANGED <<issued, windows, moves, request, offered>>

consumeMatchingToken(r) ==
    LET t == request[r].token IN
    /\ pc[r] = "consume"
    /\ pending' = IF Matches(r) THEN Only(pending, DOMAIN pending \ {t}) ELSE pending
    /\ IF Matches(r) /\ t \in Valid(pending)
       THEN Execute(r, "token")
       ELSE Goto(r, "issue") /\ UNCHANGED consent
    /\ UNCHANGED <<issued, windows, moves, request, offered>>

issueToken(r) ==
    /\ pc[r] = "issue"
    /\ issued' = Append(issued, request[r].call)
    /\ pending' = [t \in DOMAIN pending \cup {Len(issued) + 1} |->
                     IF t \in DOMAIN pending THEN pending[t]
                     ELSE [call |-> request[r].call, lapsed |-> FALSE]]
    /\ offered' = [offered EXCEPT ![r] = Len(issued) + 1]
    /\ Goto(r, "awaiting")
    /\ UNCHANGED <<windows, moves, request, consent>>

evaluate(r) ==
    \/ PurgeExpired(r)
    \/ ReadToggle(r)
    \/ RequireGate(r)
    \/ ReadGate(r)
    \/ ReadAutoConfirm(r)
    \/ consumeMatchingToken(r)
    \/ issueToken(r)

timerCallback ==
    /\ pending' = Only(pending, Valid(pending))
    /\ gate' = IF gate = "lapsed" THEN "closed" ELSE gate
    /\ autoConfirm' = IF autoConfirm = "lapsed" THEN "closed" ELSE autoConfirm
    /\ UNCHANGED <<issued, aiEnabled, moves, pc, request, offered, consent>>

Move ==
    /\ moves < MaxMoves
    /\ moves' = moves + 1
    /\ UNCHANGED <<pending, issued, pc, request, offered, consent>>

\* openSafetyGate and closeSafetyGate.
SetSafetyGate == Move /\ gate' \in {"open", "closed"} /\ UNCHANGED <<aiEnabled, autoConfirm>>
\* openTier2AutoConfirm and closeTier2AutoConfirm.
SetTier2AutoConfirm ==
    Move /\ autoConfirm' \in {"open", "closed"} /\ UNCHANGED <<aiEnabled, gate>>
setAIEnabled == Move /\ aiEnabled' \in BOOLEAN /\ UNCHANGED <<gate, autoConfirm>>

\* The clock passes an expiry time.
TokenLapses ==
    /\ \E t \in Valid(pending) : pending' = [pending EXCEPT ![t].lapsed = TRUE]
    /\ UNCHANGED <<issued, windows, moves, pc, request, offered, consent>>
WindowLapses ==
    /\ \/ gate = "open" /\ gate' = "lapsed" /\ UNCHANGED autoConfirm
       \/ autoConfirm = "open" /\ autoConfirm' = "lapsed" /\ UNCHANGED gate
    /\ UNCHANGED <<pending, issued, aiEnabled, moves, pc, request, offered, consent>>

Operator == SetSafetyGate \/ SetTier2AutoConfirm \/ setAIEnabled
Clock == TokenLapses \/ WindowLapses
===============================================================================
