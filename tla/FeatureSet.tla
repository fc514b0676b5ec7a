----------------------------- MODULE FeatureSet -----------------------------
(***************************************************************************)
(* FeatureSet of sdk/src/feature_set.rs: the runtime features, each either *)
(* active since a slot (the active map) or inactive (the inactive set).    *)
(* A session starts from one of the two constructors, Default (every       *)
(* feature of FEATURE_NAMES inactive) or all_enabled (every one active at  *)
(* slot 0), applies up to MaxOps calls of activate and deactivate, and     *)
(* ends when the set is dropped; the ids include ids that are not in       *)
(* FEATURE_NAMES.                                                         *)
(***************************************************************************)
EXTENDS Integers, FiniteSets

CONSTANTS
    FeatureNames,  \* the keys of FEATURE_NAMES
    OtherIds,      \* pubkeys that are not
    Slots,         \* activation slots
    MaxOps         \* bound on the calls of a session

Ids == FeatureNames \cup OtherIds

VARIABLES active, inactive, ops
vars == <<active, inactive, ops>>

\* FeatureSet::default(): all features disabled.
Default == [active |-> [f \in {} |-> 0], inactive |-> FeatureNames]
\* Variant: all_enabled with the features active from slot 1.
AllEnabledAtSlotOne == [active |-> [f \in FeatureNames |-> 1], inactive |-> {}]
\* FeatureSet::all_enabled(): every feature active at slot 0.
AllEnabled == [active |-> [f \in FeatureNames |-> 0], inactive |-> {}]

\* Between sessions the set is a fresh default one.
Idle == ops = 0 /\ active = Default.active /\ inactive = Default.inactive

Init == active = Default.active /\ inactive = Default.inactive /\ ops = 0

\* A session that starts from all_enabled instead.
StartAllEnabled ==
    /\ Idle
    /\ active' = AllEnabled.active /\ inactive' = AllEnabled.inactive
    /\ UNCHANGED ops

\* is_active: the feature has an entry in active.
IsActive(f) == f \in DOMAIN active

\* Variant: the feature inserted into active but left in inactive.
ActivateKeepInactive(f, slot) ==
    /\ inactive' = inactive
    /\ active' = [x \in DOMAIN active \cup {f} |-> IF x = f THEN slot ELSE active[x]]
\* activate: remove from inactive, insert (or overwrite) the slot.
ActivateFeature(f, slot) ==
    /\ inactive' = inactive \ {f}
    /\ active' = [x \in DOMAIN active \cup {f} |-> IF x = f THEN slot ELSE active[x]]

\* deactivate: remove from active, insert into inactive.
DeactivateFeature(f) ==
    /\ active' = [x \in DOMAIN active \ {f} |-> active[x]]
    /\ inactive' = inactive \cup {f}

Activate ==
    /\ ops < MaxOps
    /\ \E f \in Ids, slot \in Slots : ActivateFeature(f, slot)
    /\ ops' = ops + 1

Deactivate ==
    /\ ops < MaxOps
    /\ \E f \in Ids : DeactivateFeature(f)
    /\ ops' = ops + 1

\* The owner drops the set; the next session starts from a constructor.
Reset ==
    /\ ~Idle
    /\ active' = Default.active /\ inactive' = Default.inactive /\ ops' = 0

Next == StartAllEnabled \/ Activate \/ Deactivate \/ Reset
Spec == Init /\ [][Next]_vars

-----------------------------------------------------------------------------
TypeOK ==
    /\ DOMAIN active \subseteq Ids /\ \A f \in DOMAIN active : active[f] \in Slots
    /\ inactive \subseteq Ids /\ ops \in 0..MaxOps

(* Whatever sequence of activate and deactivate calls, no feature is both *)
(* active and inactive, and every feature of FEATURE_NAMES is one of the  *)
(* two: is_active answers for each of them from the state it was last     *)
(* put in.                                                                *)
FeaturePartition ==
    /\ \A f \in Ids : ~(IsActive(f) /\ f \in inactive)
    /\ \A f \in FeatureNames : IsActive(f) \/ f \in inactive
====
