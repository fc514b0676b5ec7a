---------------------------- MODULE CompareBlocks ----------------------------
(***************************************************************************)
(* compare_blocks of ledger-tool/src/hbase.rs: the confirmed slots of the  *)
(* owned and of the reference storage from the same starting slot, and the *)
(* summary printed from them, with missing_blocks.  get_confirmed_blocks   *)
(* returns ascending slots; LedgerStorage is not in the repository.       *)
(***************************************************************************)
EXTENDS Integers, Sequences, SequencesExt

CONSTANTS
    SlotRange,   \* the slots a storage may hold
    None         \* Option::None (a model value)

\* The ascending sequences of distinct slots get_confirmed_blocks can return.
SlotLists == {SetToSortSeq(S, LAMBDA a, b : a < b) : S \in SUBSET SlotRange}

\* Variant: the empty-owned early returns in the wrong order.
MissingBlocksEmptyFirst(reference, owned) ==
    IF owned = <<>> THEN <<>>
    ELSE SelectSeq(reference, LAMBDA s : s \notin ToSet(owned))
(***************************************************************************)
(* missing_blocks: all of reference when owned is empty, otherwise the     *)
(* reference slots not in the owned hash set, in reference order.          *)
(***************************************************************************)
MissingBlocks(reference, owned) ==
    IF owned = <<>> /\ reference # <<>> THEN reference
    ELSE IF owned = <<>> THEN <<>>
    ELSE SelectSeq(reference, LAMBDA s : s \notin ToSet(owned))

\* The json! summary: the counts, reference_last_block through
\* len().checked_sub(1), and missing_blocks.
Summary(reference, owned) ==
    [numReference |-> Len(reference), numOwned |-> Len(owned),
     referenceLast |-> IF Len(reference) = 0 THEN None ELSE reference[Len(reference)],
     missing |-> MissingBlocks(reference, owned)]

VARIABLES call, out
vars == <<call, out>>

NoCall == [reference |-> None, owned |-> None]
Init == call = NoCall /\ out = None
Idle == call = NoCall

\* The two get_confirmed_blocks calls answer, and the summary is printed.
Compare ==
    /\ Idle
    /\ \E reference, owned \in SlotLists :
         /\ call' = [reference |-> reference, owned |-> owned]
         /\ out' = Summary(reference, owned)

Return == ~Idle /\ call' = NoCall /\ out' = None

Next == Compare \/ Return
Spec == Init /\ [][Next]_vars

-----------------------------------------------------------------------------
(* The summary describes the two listings: missing_blocks is exactly the  *)
(* reference slots the owned storage lacks, ascending, whether or not the *)
(* owned listing is empty, and the last reference block is the largest    *)
(* reference slot, or null for an empty reference.                        *)
SummaryCorrect ==
    out # None =>
      /\ ToSet(out.missing) = ToSet(call.reference) \ ToSet(call.owned)
      /\ \A i \in 1..(Len(out.missing) - 1) : out.missing[i] < out.missing[i + 1]
      /\ out.referenceLast = IF call.reference = <<>> THEN None
                             ELSE Max(ToSet(call.reference))
====
