----------------------------- MODULE MCOscControl -----------------------------
(* TLC instance of OscControl.  Each initial state grants a quota of TCP        *)
(* connections, pushes and feedback messages, so that each part of the path is *)
(* explored at a larger bound than their product would allow; a part without a *)
(* quota stands still.                                                         *)
EXTENDS OscControl

VARIABLE quota

LongForms == {s \in Sources : s[2] = "long"}

Quotas == {
    [conns |-> Conns, sources |-> {},        pushes |-> 0, queued |-> 0, samples |-> 0],
    [conns |-> {CHOOSE c \in Conns : TRUE},
                      sources |-> LongForms, pushes |-> 1, queued |-> 0, samples |-> 0],
    [conns |-> {},    sources |-> Sources,   pushes |-> 4, queued |-> 0, samples |-> 0],
    [conns |-> {},    sources |-> LongForms, pushes |-> 2, queued |-> 2, samples |-> 0],
    [conns |-> {},    sources |-> {},        pushes |-> 0, queued |-> 0, samples |-> 2] }

MCInit == Init /\ quota \in Quotas

MCNext ==
    /\ Next
    /\ pushes' <= quota.pushes
    /\ \A s \in Sources \ quota.sources : newest'[s] = 0
    /\ queued' <= quota.queued
    /\ quota.conns = {} => UNCHANGED rvars
    /\ quota.pushes = 0 => UNCHANGED qvars
    /\ quota.queued = 0 => UNCHANGED lvars
    /\ quota.samples = 0 => UNCHANGED tvars
    /\ samples' <= quota.samples
    /\ \A c \in Conns \ quota.conns : peer'[c] = "idle"
    /\ UNCHANGED quota

mcvars == <<vars, quota>>
MCSpec == MCInit /\ [][MCNext]_mcvars /\ Fairness
===============================================================================
