---------------------------- MODULE MCEffectsEngine ----------------------------
(* TLC instance of EffectsEngine.  An initial state grants a quota of device    *)
(* callbacks and of rebuilds, and says whether the rebuilds come before the     *)
(* first callback: a late driver is explored over more callbacks than a rebuild *)
(* in their midst.                                                              *)
EXTENDS EffectsEngine

CONSTANTS in, fx, Quotas

MCOrder == <<in, fx>>
Long == {[callbacks |-> 6, rebuilds |-> 1, early |-> TRUE]}
Mixed == Long \cup {[callbacks |-> 3, rebuilds |-> 2, early |-> FALSE]}

VARIABLE quota

MCInit == Init /\ quota \in Quotas

MCNext ==
    /\ Next
    /\ callbacks' <= quota.callbacks
    /\ rebuilds' <= quota.rebuilds
    /\ quota.early /\ callbacks' > 0 => rebuilds' = rebuilds
    /\ quota.early /\ callbacks' > 0 => owner.at = "idle" /\ ready
    /\ UNCHANGED quota

MCSpec == MCInit /\ [][MCNext]_<<vars, quota>> /\ Fairness
===============================================================================
