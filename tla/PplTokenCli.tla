----------------------------- MODULE PplTokenCli -----------------------------
(***************************************************************************)
(* The token side of put-tokens, tokens/src/ppl_token.rs: the calls that   *)
(* read and write the Option<PplTokenArgs> of a distribution                *)
(* (update_token_args, update_decimals), build the transfer of one         *)
(* allocation (build_ppl_token_instructions) and check the funds of a      *)
(* batch (check_ppl_token_balances).  The commands that call them are not  *)
(* part of the repository, so a session applies up to MaxCalls of them in *)
(* any order to one args value, against one chain state read through the  *)
(* RpcClient; any single get_account may fail, which unwrap_or_default     *)
(* turns into an empty account.                                            *)
(***************************************************************************)
EXTENDS Integers, Sequences, SequencesExt

CONSTANTS
    TokenAccount,   \* ppl_token_args.token_account_address
    Wallet,         \* the recipient of the allocation
    CliMints,       \* mint addresses
    DefaultKey,     \* Pubkey::default(), the mint of fresh args
    CliDecimals,    \* decimals of the mints
    TokenAmounts,   \* token account balances and allocation amounts
    FeeValues,      \* fee estimates of a batch
    Rent,           \* the rent-exempt minimum of a token account
    BalanceValues,  \* fee payer balances
    MaxCalls,       \* bound on the calls of a session
    None            \* no args, no chain, no call

(***************************************************************************)
(* Account data as Pack::unpack sees it: a 165-byte initialised token      *)
(* account, an 82-byte mint, or the empty data of Account::default().     *)
(***************************************************************************)
TokenAcc(m, a) == [kind |-> "account", mint |-> m, amount |-> a]
MintAcc(d)     == [kind |-> "mint", decimals |-> d]
EmptyAccount   == [kind |-> "empty"]

(* The chains of a session: the sender's address holds a token account   *)
(* of one of the mints or nothing (any other data unpacks to the same     *)
(* error), each mint address a mint or nothing.                            *)
SenderData == {EmptyAccount} \cup {TokenAcc(m, a) : m \in CliMints, a \in TokenAmounts}
MintData == {EmptyAccount} \cup {MintAcc(d) : d \in CliDecimals}
Chains ==
    {[k \in {TokenAccount} \cup CliMints |-> IF k = TokenAccount THEN s ELSE mf[k]] :
        s \in SenderData, mf \in [CliMints -> MintData]}

\* The args of a token distribution or none: the token account address
\* with the #[derive(Default)] mint and decimals of PplTokenArgs.
ArgsValues == {None, [token |-> TokenAccount, mint |-> DefaultKey, decimals |-> 0]}

VARIABLES
    chain,    \* the accounts the RpcClient reads, None between sessions
    args,     \* the Option<PplTokenArgs>
    updated,  \* the last update call: "none", "tokenArgs", "decimals", "err"
    calls,    \* calls made in the session
    req,      \* the inputs of the last call
    out       \* the result of the last call
vars == <<chain, args, updated, calls, req, out>>

\* client.get_account(key).unwrap_or_default(): the account, or the empty
\* default when the key holds nothing the chain knows or the call fails.
GetAccount(key, fails) ==
    IF fails \/ key \notin DOMAIN chain THEN EmptyAccount ELSE chain[key]

Ok == [kind |-> "ok"]
UnpackErr == [kind |-> "unpackErr"]
RpcErr == [kind |-> "rpcErr"]
Insufficient(src, amt) == [kind |-> "insufficient", source |-> src, amount |-> amt]

Init == chain = None /\ args = None /\ updated = "none" /\ calls = 0 /\ req = None /\ out = None
Idle == chain = None

\* A distribution starts with its parsed args, against a chain state.
Start ==
    /\ Idle
    /\ \E c \in Chains, a \in ArgsValues : chain' = c /\ args' = a
    /\ UNCHANGED <<updated, calls, req, out>>

\* update_decimals: the mint account unpacked as a Mint, its decimals
\* stored; a failed unpack returns the error and leaves the args alone.
UpdateDecimalsStep(a, fails) ==
    LET mint == GetAccount(a.mint, fails) IN
    IF mint.kind = "mint"
    THEN [args |-> [a EXCEPT !.decimals = mint.decimals], res |-> Ok]
    ELSE [args |-> a, res |-> UnpackErr]

\* Variant: update_token_args storing the mint without update_decimals.
TokenArgsMintOnly(a, f1, f2) ==
    LET sender == GetAccount(a.token, f1) IN
    IF sender.kind = "account"
    THEN [args |-> [a EXCEPT !.mint = sender.mint], res |-> Ok]
    ELSE [args |-> a, res |-> UnpackErr]
\* update_token_args: the sender account unpacked as a token account, its
\* mint written into the args, then update_decimals on the updated args.
\* When update_decimals fails the new mint stays with the old decimals.
TokenArgsStep(a, f1, f2) ==
    LET sender == GetAccount(a.token, f1) IN
    IF sender.kind = "account"
    THEN UpdateDecimalsStep([a EXCEPT !.mint = sender.mint], f2)
    ELSE [args |-> a, res |-> UnpackErr]

\* The result of an update call on Some args: its args and result, and
\* which update last succeeded.
Record(r, tag) ==
    /\ args' = r.args /\ out' = r.res
    /\ updated' = IF r.res = Ok THEN tag ELSE "err"

\* An update call on None returns Ok and changes nothing.
OnNone == args = None /\ args' = None /\ out' = Ok /\ updated' = updated

UpdateTokenArgs ==
    /\ ~Idle /\ calls < MaxCalls
    /\ \E f1, f2 \in BOOLEAN :
         OnNone \/ (args # None /\ Record(TokenArgsStep(args, f1, f2), "tokenArgs"))
    /\ req' = [op |-> "updateTokenArgs"]
    /\ calls' = calls + 1 /\ UNCHANGED chain

UpdateDecimals ==
    /\ ~Idle /\ calls < MaxCalls
    /\ \E f \in BOOLEAN :
         OnNone \/ (args # None /\ Record(UpdateDecimalsStep(args, f), "decimals"))
    /\ req' = [op |-> "updateDecimals"]
    /\ calls' = calls + 1 /\ UNCHANGED chain

(***************************************************************************)
(* build_ppl_token_instructions: the expect on None args panics; else an   *)
(* optional create_associated_token_account for the wallet and the args'   *)
(* mint, then transfer_checked from the token account to the wallet's      *)
(* associated address of that mint, with the args' decimals.              *)
(***************************************************************************)
Ata(w, m) == <<w, m>>
CreateAtaIx(m) == [ix |-> "createAta", wallet |-> Wallet, mint |-> m]
TransferIx(a, amount) ==
    [ix |-> "transferChecked", source |-> a.token, mint |-> a.mint,
     dest |-> Ata(Wallet, a.mint), amount |-> amount, decimals |-> a.decimals]
BuildInstructions(a, amount, create) ==
    IF a = None THEN [kind |-> "panic"]
    ELSE [kind |-> "ixs",
          ixs |-> (IF create THEN <<CreateAtaIx(a.mint)>> ELSE <<>>) \o <<TransferIx(a, amount)>>]

Build ==
    /\ ~Idle /\ calls < MaxCalls
    /\ \E amount \in TokenAmounts, create \in BOOLEAN :
         /\ out' = BuildInstructions(args, amount, create)
         /\ req' = [op |-> "build", amount |-> amount, create |-> create]
    /\ calls' = calls + 1 /\ UNCHANGED <<chain, args, updated>>

(***************************************************************************)
(* check_ppl_token_balances, in the code's order: the allocation total;    *)
(* the fee estimate, the rent of a token account and the fee payer         *)
(* balance, RPC calls of which any may fail with the client error (readErr:*)
(* the three fail alike and change nothing); the fee payer against        *)
(* fees plus the rent of the created accounts; the source token account   *)
(* unpacked and its amount against the total.  The error messages carry   *)
(* the amounts lamports_to_put and real_number_string_trimmed render.     *)
(***************************************************************************)
SumAmounts(allocs) == FoldLeft(LAMBDA acc, x : acc + x, 0, allocs)

\* Variant: an allocation total equal to the balance is reported short.
CheckStrict(a, allocs, fees, created, balance, readErr, fails) ==
    LET total == SumAmounts(allocs)
        src   == GetAccount(a.token, fails)
    IN CASE a = None                        -> [kind |-> "panic"]
         [] readErr                         -> RpcErr
         [] balance < fees + created * Rent -> Insufficient("feePayer", fees + created * Rent)
         [] src.kind # "account"            -> UnpackErr
         [] src.amount <= total             -> Insufficient("token", total)
         [] OTHER                           -> Ok
CheckBalances(a, allocs, fees, created, balance, readErr, fails) ==
    LET total == SumAmounts(allocs)
        src   == GetAccount(a.token, fails)
    IN CASE a = None                        -> [kind |-> "panic"]
         [] readErr                         -> RpcErr
         [] balance < fees + created * Rent -> Insufficient("feePayer", fees + created * Rent)
         [] src.kind # "account"            -> UnpackErr
         [] src.amount < total              -> Insufficient("token", total)
         [] OTHER                           -> Ok

\* Allocation lists of up to two amounts, largest first: the code uses only
\* their sum, which does not depend on the order.
AllocLists == {s \in BoundedSeq(TokenAmounts, 2) : Len(s) = 2 => s[1] >= s[2]}

\* The source account is read only when the three reads before it succeed,
\* so its failure is enumerated only then.
Check ==
    /\ ~Idle /\ calls < MaxCalls
    /\ \E allocs \in AllocLists, fees \in FeeValues, balance \in BalanceValues,
          created \in {0, 1}, readErr, fails \in BOOLEAN :
         /\ readErr => ~fails
         /\ out' = CheckBalances(args, allocs, fees, created, balance, readErr, fails)
         /\ req' = [op |-> "check", total |-> SumAmounts(allocs), balance |-> balance,
                    need |-> fees + created * Rent, readErr |-> readErr, fails |-> fails]
    /\ calls' = calls + 1 /\ UNCHANGED <<chain, args, updated>>

\* The distribution ends; the next one parses fresh args.
Reset ==
    /\ ~Idle
    /\ chain' = None /\ args' = None /\ updated' = "none" /\ calls' = 0
    /\ out' = None /\ req' = None

Next == Start \/ UpdateTokenArgs \/ UpdateDecimals \/ Build \/ Check \/ Reset
Spec == Init /\ [][Next]_vars
-----------------------------------------------------------------------------
TypeOK ==
    /\ args = None \/ args \in [token : {TokenAccount}, mint : {DefaultKey} \cup CliMints,
                                decimals : {0} \cup CliDecimals]
    /\ updated \in {"none", "tokenArgs", "decimals", "err"}
    /\ calls \in 0..MaxCalls
    /\ chain = None \/ chain \in Chains

(* A transfer built after the last update call succeeded is consistent    *)
(* with the chain: the decimals are those of the mint it names, the        *)
(* destination (and any created account) is the wallet's associated       *)
(* account of that mint, and after update_token_args the mint is the      *)
(* mint of the sender's token account.  Fresh args (default mint, parsed  *)
(* decimals) and a failed update give no such guarantee.                  *)
TransferMatchesChain ==
    out # None /\ out.kind = "ixs" /\ updated \in {"tokenArgs", "decimals"} =>
      LET t == out.ixs[Len(out.ixs)] IN
      /\ chain[t.mint] = MintAcc(t.decimals)
      /\ t.dest = Ata(Wallet, t.mint)
      /\ \A i \in 1..Len(out.ixs) - 1 : out.ixs[i].mint = t.mint
      /\ updated = "tokenArgs" => t.mint = chain[TokenAccount].mint

(* check_ppl_token_balances accepts a batch exactly when every read        *)
(* succeeds, the fee payer covers the fees and the rent of the created     *)
(* accounts, and the sender's token account holds the whole allocation     *)
(* total; a short token account is reported with that total.              *)
CheckBalancesExact ==
    req # None /\ req.op = "check" /\ args # None =>
      LET src == GetAccount(TokenAccount, req.fails)
          funded == ~req.readErr /\ req.balance >= req.need
      IN /\ out = Ok <=> funded /\ src.kind = "account" /\ src.amount >= req.total
         /\ out.kind = "insufficient" /\ out.source = "token" =>
              funded /\ out.amount = req.total /\ src.amount < req.total
====
