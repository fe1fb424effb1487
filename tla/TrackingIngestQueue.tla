-------------------------- MODULE TrackingIngestQueue --------------------------
(***************************************************************************)
(* The tracking queue of control/osc/TrackingIngestQueue: receiver threads *)
(* of the tracking protocols push decoded samples, a timer of the message  *)
(* thread takes a batch under the lock and applies it outside.  A sample   *)
(* has a position, an orientation or both; each half carries its version.  *)
(***************************************************************************)
EXTENDS Naturals, FiniteSets

CONSTANTS
    Trackers,        \* coalesce keys
    TrackerCap,      \* kCoalesceCap
    MaxPerTick,      \* maxItemsPerTick
    MaxSamples       \* bound on the samples pushed

ASSUME TrackingAssumption ==
    /\ {TrackerCap, MaxPerTick} \subseteq Nat \ {0}
    /\ MaxSamples \in Nat

VARIABLES
    waiting,       \* Trackers -> the two waiting halves, 0 where there is none
    batch,         \* the samples drainBatch has taken and not applied yet
    draining,      \* drainBatch is running
    samples,       \* samples pushed so far: their versions
    newestHalf,    \* history: Trackers -> the last accepted halves
    appliedHalf    \* history: Trackers -> the halves applied last

tvars == <<waiting, batch, draining, samples, newestHalf, appliedHalf>>

Halves == {"pos", "ori"}
None == [h \in Halves |-> 0]
Pending(map) == {k \in Trackers : map[k] # None}
Over(new, old) == [h \in Halves |-> IF new[h] # 0 THEN new[h] ELSE old[h]]

TrackingInit ==
    /\ waiting = [k \in Trackers |-> None]
    /\ batch = [k \in Trackers |-> None]
    /\ draining = FALSE
    /\ samples = 0
    /\ newestHalf = [k \in Trackers |-> None]
    /\ appliedHalf = [k \in Trackers |-> None]

\* Mutant: a waiting sample is replaced, not merged half by half.
Replace(new, old) == new

\* Newest wins per half.
Merge(new, old) == Over(new, old)

\* push() of a sample with the halves `has`, of which those in `bad` are not
\* finite and are left out.
PushSample(k, has, bad) ==
    LET update == [h \in Halves |-> IF h \in has \ bad THEN samples + 1 ELSE 0] IN
    /\ samples < MaxSamples
    /\ samples' = samples + 1
    /\ IF \/ update = None
          \/ waiting[k] = None /\ Cardinality(Pending(waiting)) >= TrackerCap
       THEN UNCHANGED <<waiting, newestHalf>>
       ELSE /\ waiting' = [waiting EXCEPT ![k] = Merge(update, @)]
            /\ newestHalf' = [newestHalf EXCEPT ![k] = Over(update, @)]
    /\ UNCHANGED <<batch, draining, appliedHalf>>

\* Under the lock: at most maxItemsPerTick samples, in the order of the map,
\* which is arbitrary.
TakeBatch ==
    /\ ~draining /\ Pending(waiting) # {}
    /\ \E taken \in SUBSET Pending(waiting) :
          /\ \/ Cardinality(taken) = MaxPerTick
             \/ taken = Pending(waiting) /\ Cardinality(taken) < MaxPerTick
          /\ batch' = [k \in Trackers |-> IF k \in taken THEN waiting[k] ELSE None]
          /\ waiting' = [k \in Trackers |-> IF k \in taken THEN None ELSE waiting[k]]
    /\ draining' = TRUE
    /\ UNCHANGED <<samples, newestHalf, appliedHalf>>

ApplySample(k) ==
    /\ draining /\ batch[k] # None
    /\ appliedHalf' = [appliedHalf EXCEPT ![k] = Over(batch[k], @)]
    /\ batch' = [batch EXCEPT ![k] = None]
    /\ draining' = (Pending(batch) # {k})
    /\ UNCHANGED <<waiting, samples, newestHalf>>

HalfVersions == [Trackers -> [Halves -> 0 .. MaxSamples]]

TrackingTypeOK ==
    /\ {waiting, batch, newestHalf, appliedHalf} \subseteq HalfVersions
    /\ Cardinality(Pending(waiting)) <= TrackerCap
    /\ Cardinality(Pending(batch)) <= MaxPerTick
    /\ draining = (Pending(batch) # {})
    /\ samples \in 0 .. MaxSamples

\* What an owner relies on: a half that is neither waiting nor in the batch has
\* been applied in its newest accepted version.
NewestHalfApplied ==
    \A k \in Trackers, h \in Halves :
        \/ appliedHalf[k][h] = newestHalf[k][h]
        \/ batch[k][h] # 0 \/ waiting[k][h] # 0
===============================================================================
