------------------------- MODULE NonCirculatingSupply -------------------------
(***************************************************************************)
(* calculate_non_circulating_supply of runtime/src/non_circulating_supply.rs: *)
(* the fixed key and the keys of non_circulating_accounts(), then every    *)
(* stake account that deserializes as Initialized or Stake, collected in a *)
(* HashSet; the supply is the sum of bank.get_balance over the set.  The   *)
(* lockup and withdraw-authority checks are commented out in the code and  *)
(* are not part of the model.                                              *)
(*                                                                         *)
(* An account is abstracted to its owner, what stake_state::from makes of *)
(* its data and its lamports.  The Bank (not part of the repository) is    *)
(* modelled by the contract of its two scans.                              *)
(***************************************************************************)
EXTENDS Integers, FiniteSets, FiniteSetsExt, SequencesExt

CONSTANTS
    StakeProgram,   \* stake::program::id()
    OtherProgram,   \* any other owner
    Pubkeys,        \* the keys of the bank
    FixedKey,       \* A6pE1ZnErnh21YSoQTqF7chVmsyJTtdYiY5Wfz4vygwW
    ListedKeys,     \* non_circulating_accounts(): empty in this repository
    Balances,       \* lamport values
    Missing,        \* no account at a key
    None            \* no call in progress

\* What stake_state::from(account) gives: a StakeState, or None for data
\* that does not deserialize.
StakeStates == {"uninitialized", "initialized", "stake", "undecodable"}
Account == [owner: {StakeProgram, OtherProgram}, state: StakeStates, lamports: Balances]
Banks == [Pubkeys -> Account \cup {Missing}]

Owner(bank, k) == IF bank[k] = Missing THEN None ELSE bank[k].owner

\* The keys whose account passes |account| account.owner() == &stake::program::id().
OwnedByStake(bank) == {k \in Pubkeys : Owner(bank, k) = StakeProgram}

\* Bank::get_balance: 0 for a missing account.
GetBalance(bank, k) == IF bank[k] = Missing THEN 0 ELSE bank[k].lamports

(***************************************************************************)
(* The ProgramId secondary index lists every stake-owned key and may still *)
(* list keys that were wiped and reinitialized under another owner (the    *)
(* comment at the call).  A disabled index is the empty set.               *)
(***************************************************************************)
Indexes(bank) ==
    {OwnedByStake(bank) \cup stale :
        stale \in SUBSET {k \in Pubkeys : bank[k] # Missing}}

\* Bank::get_filtered_indexed_accounts: the current account of each indexed
\* key that passes the filter (the keys in accept).
GetFilteredIndexedAccounts(bank, index, accept) ==
    {k \in index : bank[k] # Missing /\ k \in accept}
\* Bank::get_program_accounts: every account owned by the program.
GetProgramAccounts(bank) == OwnedByStake(bank)

\* Variant: the indexed scan without the redundant owner filter.
StakeAccountsNoOwnerFilter(bank, indexed, index) ==
    IF indexed THEN GetFilteredIndexedAccounts(bank, index, Pubkeys)
    ELSE GetProgramAccounts(bank)
\* The stake_accounts of either branch.
StakeAccounts(bank, indexed, index) ==
    IF indexed
    THEN GetFilteredIndexedAccounts(bank, index, OwnedByStake(bank))
    ELSE GetProgramAccounts(bank)

\* unwrap_or_default, then the Initialized and Stake arms.
Counted(bank, k) == bank[k].state \in {"initialized", "stake"}

\* The HashSet, the summed balances, and the set collected into a Vec (in
\* the set's iteration order, which no caller relies on: one order stands
\* for all).
NonCirculatingSet(bank, indexed, index) ==
    {FixedKey} \cup ListedKeys \cup {k \in StakeAccounts(bank, indexed, index) : Counted(bank, k)}
Supply(bank, set, order) ==
    [kind |-> "ok", lamports |-> MapThenSumSet(LAMBDA k : GetBalance(bank, k), set), accounts |-> order]

VARIABLES call, out
vars == <<call, out>>

Init == call = None /\ out = None
Idle == call = None

\* One call: a bank, whether the ProgramId index is enabled, its entries;
\* the scan may fail (ScanResult's Err, returned by ?).
Calculate ==
    /\ Idle
    /\ \E bank \in Banks, indexed \in BOOLEAN :
       \E index \in IF indexed THEN Indexes(bank) ELSE {{}} :
         /\ call' = [bank |-> bank, indexed |-> indexed, index |-> index]
         /\ \/ out' = [kind |-> "err"]
            \/ LET set == NonCirculatingSet(bank, indexed, index)
               IN out' = Supply(bank, set, SetToSeq(set))

Return == ~Idle /\ call' = None /\ out' = None

Next == Calculate \/ Return
Spec == Init /\ [][Next]_vars
-----------------------------------------------------------------------------
TypeOK ==
    \/ call = None /\ out = None
    \/ /\ call.bank \in Banks /\ call.index \subseteq Pubkeys
       /\ out \in {[kind |-> "err"]} \cup [kind: {"ok"}, lamports: Nat, accounts: Seq(Pubkeys)]

\* The accounts the supply is meant to hold back from circulation: the
\* fixed and listed keys and every account the stake program owns whose
\* data is an Initialized or Stake state, whatever the index holds.
ExpectedAccounts(bank) ==
    {FixedKey} \cup ListedKeys
    \cup {k \in Pubkeys : Owner(bank, k) = StakeProgram /\ bank[k].state \in {"initialized", "stake"}}

(* The result does not depend on the ProgramId index: the reported       *)
(* accounts are exactly the expected ones, even when stale index entries  *)
(* point at accounts now owned by another program, and the lamports are   *)
(* their balances counted once each, the fixed key included when it is    *)
(* also a stake account.                                                  *)
SupplyMatches ==
    out # None /\ out.kind = "ok" =>
      LET exp == ExpectedAccounts(call.bank) IN
      /\ ToSet(out.accounts) = exp
      /\ out.lamports = MapThenSumSet(LAMBDA k : GetBalance(call.bank, k), exp)
====
