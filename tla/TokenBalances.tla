---------------------------- MODULE TokenBalances ----------------------------
(***************************************************************************)
(* collect_token_balances of transaction-status/src/token_balances.rs: for *)
(* each transaction of a batch that names the token program, the token     *)
(* balance of every other non-invoked account, with the mint's decimals    *)
(* looked up once and kept in a mint_decimals map that the caller passes   *)
(* to the pre-execution and the post-execution collection alike.          *)
(*                                                                         *)
(* An account is abstracted to its owner, whether its data unpacks as a    *)
(* token Account, as a Mint or as neither, and the mint or decimals it     *)
(* holds.  A call is one batch: the pre balances, execution, the post      *)
(* balances.                                                              *)
(***************************************************************************)
EXTENDS Integers, Sequences, SequencesExt

CONSTANTS
    TokenProgram,    \* ppl_token_id(), the only known token program id
    SystemProgram,   \* any other owner
    NativeMint,      \* ppl_token_native_mint()
    NativeDecimals,  \* ppl_token::native_mint::DECIMALS
    Holders,         \* keys of accounts that may hold tokens
    Mints,           \* keys of accounts that may be mints
    Decimals,        \* u8 decimals values
    Batch,           \* sequence of transactions: sequences of [key, invoked]
    Missing,         \* Bank::get_account returns None
    None             \* Option::None (a model value)

Acct(owner, kind, mint, decimals) ==
    [owner |-> owner, kind |-> kind, mint |-> mint, decimals |-> decimals]
HolderAccounts ==
    {Missing, Acct(TokenProgram, "junk", None, None)}
    \cup {Acct(o, "account", m, None) : o \in {TokenProgram, SystemProgram},
                                         m \in Mints \cup {NativeMint}}
MintAccounts ==
    {Missing, Acct(TokenProgram, "junk", None, None)}
    \cup {Acct(o, "mint", None, d) : o \in {TokenProgram, SystemProgram}, d \in Decimals}
Banks == {b \in [Holders \cup Mints -> HolderAccounts \cup MintAccounts] :
            /\ \A h \in Holders : b[h] \in HolderAccounts
            /\ \A m \in Mints : b[m] \in MintAccounts}

IsToken(a) == a # Missing /\ a.owner = TokenProgram

\* Variant: the owner check left out.
GetMintDecimalsAnyOwner(bank, mint) ==
    IF mint = NativeMint THEN NativeDecimals
    ELSE IF bank[mint] = Missing \/ bank[mint].kind # "mint" THEN None
    ELSE bank[mint].decimals
\* get_mint_decimals: the native mint's constant, or the decimals of a Mint
\* owned by the token program.
GetMintDecimals(bank, mint) ==
    IF mint = NativeMint THEN NativeDecimals
    ELSE IF ~IsToken(bank[mint]) \/ bank[mint].kind # "mint" THEN None
    ELSE bank[mint].decimals

(***************************************************************************)
(* collect_token_balance_from_account: a token Account owned by the token  *)
(* program, its mint's decimals from mint_decimals or else looked up and   *)
(* inserted; None on any failure.                                         *)
(***************************************************************************)
CollectTokenBalanceFromAccount(bank, id, cache) ==
    LET a == bank[id]
        d == IF a.mint \in DOMAIN cache THEN cache[a.mint]
             ELSE GetMintDecimals(bank, a.mint)
    IN IF ~IsToken(a) \/ a.kind # "account" \/ d = None
       THEN [val |-> None, cache |-> cache]
       ELSE [val |-> [mint |-> a.mint, decimals |-> d],
             cache |-> IF a.mint \in DOMAIN cache THEN cache
                       ELSE (a.mint :> d) @@ cache]

\* Variant: every transaction is scanned, token program or not.
HasTokenProgramAlways(tx) == TRUE
\* account_keys.iter().any(is_known_ppl_token_id)
HasTokenProgram(tx) == \E i \in DOMAIN tx : tx[i].key = TokenProgram

\* Variant: the 1-based position taken as account_index.
AccountIndexOneBased(i) == i
\* index as u8 of account_keys.iter().enumerate()
AccountIndex(i) == i - 1

\* One account of the enumerate loop: invoked programs and the token
\* program are skipped; account_index is the 0-based position.
CollectAt(bank, tx, acc, i) ==
    IF tx[i].invoked \/ tx[i].key = TokenProgram THEN acc
    ELSE LET r == CollectTokenBalanceFromAccount(bank, tx[i].key, acc.cache)
         IN [bal |-> IF r.val = None THEN acc.bal
                     ELSE Append(acc.bal, [index |-> AccountIndex(i)] @@ r.val),
             cache |-> r.cache]

CollectTx(bank, tx, cache) ==
    IF ~HasTokenProgram(tx) THEN [bal |-> <<>>, cache |-> cache]
    ELSE FoldLeftDomain(LAMBDA acc, i : CollectAt(bank, tx, acc, i),
                        [bal |-> <<>>, cache |-> cache], tx)

\* collect_token_balances: one balance list per transaction of the batch.
CollectTokenBalances(bank, cache) ==
    FoldLeft(LAMBDA acc, tx :
                LET r == CollectTx(bank, tx, acc.cache)
                IN [bals |-> Append(acc.bals, r.bal), cache |-> r.cache],
             [bals |-> <<>>, cache |-> cache], Batch)

(***************************************************************************)
(* Execution between the two collections.  The token program rejects      *)
(* InitializeMint on an initialized mint and has no instruction that       *)
(* closes one, so a mint owned by the token program keeps its decimals;    *)
(* every other account may change in any way.                             *)
(***************************************************************************)
Executed(bank) ==
    {b \in Banks : \A m \in Mints : IsToken(bank[m]) /\ bank[m].kind = "mint" => b[m] = bank[m]}

VARIABLES call, out
vars == <<call, out>>

NoCall == [pre |-> None, post |-> None]
Init == call = NoCall /\ out = None
Idle == call = NoCall

\* One batch: pre balances with a fresh map, execution, post balances with
\* the map the pre collection filled.
Collect ==
    /\ Idle
    /\ \E b0 \in Banks : \E b1 \in Executed(b0) :
         LET pre == CollectTokenBalances(b0, <<>>)
             post == CollectTokenBalances(b1, pre.cache)
         IN /\ call' = [pre |-> b0, post |-> b1]
            /\ out' = [pre |-> pre.bals, post |-> post.bals, cache |-> post.cache]

Return == ~Idle /\ call' = NoCall /\ out' = None

Next == Collect \/ Return
Spec == Init /\ [][Next]_vars
-----------------------------------------------------------------------------
MaxKeys == Max({Len(Batch[t]) : t \in DOMAIN Batch})
Balance == [index: 0..(MaxKeys - 1), mint: Mints \cup {NativeMint}, decimals: Decimals \cup {NativeDecimals}]
TypeOK ==
    \/ call = NoCall /\ out = None
    \/ /\ call.pre \in Banks /\ call.post \in Banks
       /\ out.pre \in Seq(Seq(Balance)) /\ out.post \in Seq(Seq(Balance))
       /\ Len(out.pre) = Len(Batch) /\ Len(out.post) = Len(Batch)

\* The decimals a bank states for a mint: the native mint's constant, or
\* the decimals field of a Mint owned by the token program.
MintDecimalsInBank(bank, m) ==
    IF m = NativeMint THEN NativeDecimals
    ELSE IF bank[m] # Missing /\ bank[m].owner = TokenProgram /\ bank[m].kind = "mint"
         THEN bank[m].decimals ELSE None

\* The positions of tx with a balance: tx names the token program, the
\* account is a token Account owned by it, and its mint's decimals exist.
HasBalance(bank, tx, i) ==
    LET a == bank[tx[i].key] IN
    /\ \E j \in DOMAIN tx : tx[j].key = TokenProgram
    /\ ~tx[i].invoked /\ tx[i].key # TokenProgram
    /\ a # Missing /\ a.owner = TokenProgram /\ a.kind = "account"
    /\ MintDecimalsInBank(bank, a.mint) # None
ExpectedBalances(bank, tx) ==
    LET idx == SelectSeq([i \in DOMAIN tx |-> i], LAMBDA i : HasBalance(bank, tx, i))
    IN [k \in DOMAIN idx |->
          [index |-> idx[k] - 1, mint |-> bank[tx[idx[k]].key].mint,
           decimals |-> MintDecimalsInBank(bank, bank[tx[idx[k]].key].mint)]]

(* The mint_decimals map shared by the transactions of a batch and by     *)
(* the pre and post collections is transparent: the pre balances are what *)
(* the bank before execution states and the post balances what the bank   *)
(* after it states, for every transaction, though the post collection     *)
(* reads decimals cached before execution.                                *)
BalancesMatchBanks ==
    out # None =>
      \A t \in DOMAIN Batch :
        /\ out.pre[t] = ExpectedBalances(call.pre, Batch[t])
        /\ out.post[t] = ExpectedBalances(call.post, Batch[t])
====
