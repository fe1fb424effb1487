---------------------------- MODULE OSCIngestQueue ----------------------------
(***************************************************************************)
(* The ingest queue of control/osc/OSCIngestQueue: receiver threads push   *)
(* messages, a timer of the message thread drains them.  Messages that set *)
(* a parameter in the long form are coalesced per key, all others keep     *)
(* their arrival order in a bounded FIFO.                                  *)
(*                                                                         *)
(* A message is a parameter, the form of its address and a version: its    *)
(* place in the order in which the receivers pushed, one order for every   *)
(* parameter and form.  The two forms of a parameter are its two sources:  *)
(* the long one is coalesced, the short one goes through the FIFO.         *)
(***************************************************************************)
EXTENDS Naturals, Sequences, FiniteSets

CONSTANTS
    Params,          \* parameters the messages set
    BypassParams,    \* those whose address is a bypass address
    Forms,           \* "long": channel as argument; "short": in the address
    CoalesceCap,     \* kCoalesceCap
    FifoCap,         \* fifoCap
    MaxItemsPerTick, \* maxItemsPerTick
    DropLogEvery,    \* kDropLogEvery
    MaxPushes        \* bound on the messages the receivers push

ASSUME QueueAssumption ==
    /\ BypassParams \subseteq Params
    /\ Forms \subseteq {"long", "short"}
    /\ {CoalesceCap, FifoCap, MaxItemsPerTick, DropLogEvery} \subseteq Nat \ {0}
    /\ MaxPushes \in Nat

VARIABLES
    coalesced,    \* the coalesce map: the waiting version of a key
    fifo,         \* the FIFO
    dropped,      \* droppedTotal
    unreported,   \* droppedSinceLastReport
    reported,     \* a drop report has been made: lastDropReportMs > 0
    drain,        \* drainBatch: [pc, taken, item, report]
    pushes,       \* messages pushed so far
    newest,       \* history: the last accepted version of each source
    applied,      \* history: the last version of each source dispatched
    value         \* history: the version each parameter was set to last

qvars == <<coalesced, fifo, dropped, unreported, reported, drain, pushes,
           newest, applied, value>>

Sources == Params \X Forms
Message(p, f, v) == [par |-> p, form |-> f, version |-> v]
NoItem == [par |-> "none", form |-> "none", version |-> 0]
SourceOf(item) == <<item.par, item.form>>
IdleDrain == [pc |-> "idle", taken |-> 0, item |-> NoItem, report |-> 0]

\* The short form has a digit after the prefix and is not canonicalised.
tryClassify(p, f) == f = "long" /\ p \notin BypassParams

QueueInit ==
    /\ coalesced = [p \in {} |-> 0]
    /\ fifo = <<>>
    /\ dropped = 0
    /\ unreported = 0
    /\ reported = FALSE
    /\ drain = IdleDrain
    /\ pushes = 0
    /\ newest = [s \in Sources |-> 0]
    /\ applied = [s \in Sources |-> 0]
    /\ value = [p \in Params |-> 0]

-------------------------------------------------------------------------------
(* Receiver threads: push() holds the lock for the whole update *)

Drop ==
    /\ dropped' = dropped + 1
    /\ unreported' = unreported + 1
    /\ UNCHANGED <<coalesced, fifo, newest>>

Keep(map, p, v) == [q \in DOMAIN map \cup {p} |-> IF q = p THEN v ELSE map[q]]

\* Mutant: a key that is already waiting keeps its value.
KeepFirst(map, p, v) == [q \in DOMAIN map \cup {p} |-> IF q \in DOMAIN map THEN map[q] ELSE v]

\* coalesced[key] = item: newest wins.
Coalesce(map, p, v) == Keep(map, p, v)

\* Mutant: one message more than the cap.
FifoFullLate == Len(fifo) > FifoCap

FifoFull == Len(fifo) >= FifoCap

Push(p, f) ==
    LET v == pushes + 1 IN
    /\ pushes < MaxPushes
    /\ pushes' = v
    /\ IF tryClassify(p, f)
       THEN IF Cardinality(DOMAIN coalesced) >= CoalesceCap /\ p \notin DOMAIN coalesced
            THEN Drop
            ELSE /\ coalesced' = Coalesce(coalesced, p, v)
                 /\ newest' = [newest EXCEPT ![<<p, f>>] = v]
                 /\ UNCHANGED <<fifo, dropped, unreported>>
       ELSE IF FifoFull
            THEN Drop
            ELSE /\ fifo' = Append(fifo, Message(p, f, v))
                 /\ newest' = [newest EXCEPT ![<<p, f>>] = v]
                 /\ UNCHANGED <<coalesced, dropped, unreported>>
    /\ UNCHANGED <<reported, drain, applied, value>>

-------------------------------------------------------------------------------
(* Message thread: drainBatch() *)

DrainAt(at) == drain.pc = at

\* The first drop is reported at once, then one report per second or per
\* DropLogEvery drops: `second` when a second has passed since the last one.
BeginDrain(second) ==
    LET due == unreported > 0 /\ (~reported \/ second \/ unreported >= DropLogEvery) IN
    /\ DrainAt("idle")
    /\ drain' = [IdleDrain EXCEPT !.pc = "take", !.report = IF due THEN unreported ELSE 0]
    /\ unreported' = IF due THEN 0 ELSE unreported
    /\ reported' = (reported \/ due)
    /\ UNCHANGED <<coalesced, fifo, dropped, pushes, newest, applied, value>>

\* One item under the lock: the FIFO first.
TakeItem ==
    /\ DrainAt("take") /\ drain.taken < MaxItemsPerTick
    /\ \/ /\ fifo # <<>>
          /\ drain' = [drain EXCEPT !.pc = "dispatch", !.taken = @ + 1, !.item = Head(fifo)]
          /\ fifo' = Tail(fifo)
          /\ UNCHANGED coalesced
       \/ /\ fifo = <<>>
          /\ \E p \in DOMAIN coalesced :
                /\ drain' = [drain EXCEPT !.pc = "dispatch", !.taken = @ + 1,
                                          !.item = Message(p, "long", coalesced[p])]
                /\ coalesced' = [q \in DOMAIN coalesced \ {p} |-> coalesced[q]]
          /\ UNCHANGED fifo
    /\ UNCHANGED <<dropped, unreported, reported, pushes, newest, applied,
                   value>>

\* The dispatch callback, outside the lock; `over` when the time budget is.
DispatchItem(over) ==
    /\ DrainAt("dispatch")
    /\ applied' = [applied EXCEPT ![SourceOf(drain.item)] = drain.item.version]
    /\ value' = [value EXCEPT ![drain.item.par] = drain.item.version]
    /\ drain' = [drain EXCEPT !.pc = IF over THEN "report" ELSE "take", !.item = NoItem]
    /\ UNCHANGED <<coalesced, fifo, dropped, unreported, reported, pushes, newest>>

StopTaking ==
    /\ DrainAt("take")
    /\ drain.taken = MaxItemsPerTick \/ (fifo = <<>> /\ DOMAIN coalesced = {})
    /\ drain' = [drain EXCEPT !.pc = "report"]
    /\ UNCHANGED <<coalesced, fifo, dropped, unreported, reported, pushes, newest,
                   applied, value>>

\* dropReport, if a report was due.
EndDrain ==
    /\ DrainAt("report")
    /\ drain' = IdleDrain
    /\ UNCHANGED <<coalesced, fifo, dropped, unreported, reported, pushes, newest,
                   applied, value>>

QueueTypeOK ==
    /\ DOMAIN coalesced \subseteq Params \ BypassParams
    /\ \A p \in DOMAIN coalesced : coalesced[p] \in 1 .. MaxPushes
    /\ Cardinality(DOMAIN coalesced) <= CoalesceCap
    /\ fifo \in Seq([par : Params, form : Forms, version : 1 .. MaxPushes])
    /\ Len(fifo) <= FifoCap
    /\ {dropped, unreported, pushes} \subseteq 0 .. MaxPushes /\ reported \in BOOLEAN
    /\ drain.pc \in {"idle", "take", "dispatch", "report"}
    /\ drain.taken \in 0 .. MaxItemsPerTick
    /\ newest \in [Sources -> 0 .. MaxPushes] /\ applied \in [Sources -> 0 .. MaxPushes]
    /\ value \in [Params -> 0 .. MaxPushes]
===============================================================================
