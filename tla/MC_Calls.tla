------------------------------- MODULE MC_Calls -------------------------------
(***************************************************************************)
(* The pure functions of the account decoders, the token-amount rendering, *)
(* the fee arithmetic, the instruction parsers, the token balance          *)
(* collection, compare_blocks, the HBase range scans and the               *)
(* non-circulating supply, the parsed token-account listing,             *)
(* put_to_lamports, ppl_token_amount and FeeStructure::new, and sessions of FeatureSet calls  *)
(* and of the put-tokens                                                    *)
(* token calls, run                                                        *)
(* one at a time: a machine leaves its idle state only while all the      *)
(* others are idle.                                                        *)
(***************************************************************************)
EXTENDS Integers, InstructionVariants

CONSTANTS
    \* TokenAmount
    MaxAmount, MaxDecimals, LamportSamples, AmountBits, UsizeBits, MaxBalance,
    UiFloatBits, UiSamples,
    \* PrioritizationFee
    Bits, Micro, MaxCount, Rates, BinFees,
    \* AccountDecode
    TokenProgram, NameProgram, NftProgram, Unregistered, AccountLen, MintLen,
    MultisigLen, NftMetaLen, Lens, Keys, Decimals, Text, Times, MaxSigners, None,
    \* InstructionParse
    TokenOps, NameOps, NftOps, MaxAccounts,
    \* TokenBalances
    SystemProgram, NativeMint, NativeDecimals, Holders, Mints, Missing,
    h1, h2, m1,
    \* FeatureSet
    FeatureNames, OtherIds, Slots, MaxOps,
    \* CompareBlocks
    SlotRange,
    \* RpcTokenAccounts
    info1, nativeInfo,
    \* HBaseScan
    RowKeys, Limits,
    \* NonCirculatingSupply
    StakeProgram, OtherProgram, Pubkeys, FixedKey, ListedKeys, Balances,
    \* PutToLamports
    LamportsPerPut, FloatBits, FracDigits,
    \* PplTokenCli
    TokenAccount, Wallet, CliMints, DefaultKey, CliDecimals, TokenAmounts,
    FeeValues, Rent, BalanceValues, MaxCalls,
    \* PplTokenAmount
    MaxFracDigits, MaxTokenDecimals

VARIABLES taCall, taOut, pfCall, pfOut, daCall, daOut, ipInstr, ipResult, tbCall, tbOut,
          fsActive, fsInactive, fsOps, cbCall, cbOut, raBank, raQueue, raCache, raListed,
          scCall, scOut, nsCall, nsOut, plCall, plOut,
          ptChain, ptArgs, ptUpdated, ptCalls, ptReq, ptOut, paCall, paOut, feCall, feOut
vars == <<taCall, taOut, pfCall, pfOut, daCall, daOut, ipInstr, ipResult, tbCall, tbOut,
         fsActive, fsInactive, fsOps, cbCall, cbOut, raBank, raQueue, raCache, raListed,
         scCall, scOut, nsCall, nsOut, plCall, plOut,
         ptChain, ptArgs, ptUpdated, ptCalls, ptReq, ptOut, paCall, paOut, feCall, feOut>>

TA == INSTANCE TokenAmount WITH call <- taCall, out <- taOut
PF == INSTANCE PrioritizationFee WITH call <- pfCall, out <- pfOut
DA == INSTANCE DecodeAccount WITH call <- daCall, out <- daOut
IP == INSTANCE InstructionParse WITH instr <- ipInstr, result <- ipResult
FS == INSTANCE FeatureSet WITH active <- fsActive, inactive <- fsInactive, ops <- fsOps
CB == INSTANCE CompareBlocks WITH call <- cbCall, out <- cbOut
SC == INSTANCE HBaseScan WITH call <- scCall, out <- scOut
NS == INSTANCE NonCirculatingSupply WITH call <- nsCall, out <- nsOut
\* Integer parts: none (a string starting with the dot) and one digit.
PLIntParts == {<<>>, <<"2">>}
PL == INSTANCE PutToLamports WITH call <- plCall, out <- plOut, IntParts <- PLIntParts
PT == INSTANCE PplTokenCli
        WITH chain <- ptChain, args <- ptArgs, updated <- ptUpdated, calls <- ptCalls,
             req <- ptReq, out <- ptOut
\* UI amounts of up to four digits, so that scaled amounts pass 2^13: all
\* of 0..100 and the stretch 1000..1100 around the first rounding away.
PANumerators == (0..100) \cup (1000..1100)
PA == INSTANCE PplTokenAmount WITH call <- paCall, out <- paOut, Numerators <- PANumerators
\* FeeStructure::new over the fractions ppl_token_amount enumerates.
FE == INSTANCE FeeStructure WITH call <- feCall, out <- feOut, FracDigits <- MaxFracDigits

\* Lamport amounts on both sides of one PUT and with long zero tails.
MCLamportSamples == {999999999, 1000000000, 1000000001, 1500000000, 2000000000, 2100000007}
\* Token amounts past 2^10, where amount as f64 rounds, up to the u128 bound.
MCUiSamples == {1025, 1029, 3001, 9999, 65535}
\* ppl_token packed lengths: Mint 82, Account 165, Multisig 355; a NFT
\* MetaAccount length; 0 and 1 stand for empty and unrecognised data.
MCLens == {0, 1, 82, 165, 355, 330}
MCDecimals == {0, 2}
MCTimes == {0, 1, 2}
\* A batch of three transactions: the token program with two holders; no
\* token program; the token program between a holder, a mint key and the
\* first holder again, so the later lookups hit mint_decimals.
Key(k, invoked) == [key |-> k, invoked |-> invoked]
MCBatch ==
    << << Key(TokenProgram, TRUE), Key(h1, FALSE), Key(h2, FALSE) >>,
       << Key(h1, FALSE), Key(m1, FALSE) >>,
       << Key(h2, FALSE), Key(TokenProgram, TRUE), Key(m1, FALSE), Key(h1, FALSE) >> >>
TB == INSTANCE TokenBalances WITH call <- tbCall, out <- tbOut, Batch <- MCBatch
\* The listing: one mint and the native mint, each with its MintMeta
\* account; holder, metadata and mint lengths; decimals of both kinds.
RAMints == {m1, NativeMint}
RAMintInfo == [m \in RAMints |-> IF m = m1 THEN info1 ELSE nativeInfo]
RA == INSTANCE RpcTokenAccounts
        WITH bank <- raBank, queue <- raQueue, cache <- raCache, listed <- raListed,
             Keys <- RAMints, Mints <- RAMints, MintInfo <- RAMintInfo,
             Lens <- {1, 82, 165}, Decimals <- {2, 9}, Times <- {0}, MaxSigners <- 0

Init == TA!Init /\ PF!Init /\ DA!Init /\ IP!Init /\ TB!Init /\ FS!Init /\ CB!Init /\ RA!Init /\ SC!Init /\ NS!Init /\ PL!Init /\ PT!Init /\ PA!Init /\ FE!Init

TAvars == <<taCall, taOut>>
PFvars == <<pfCall, pfOut>>
DAvars == <<daCall, daOut>>
IPvars == <<ipInstr, ipResult>>
TBvars == <<tbCall, tbOut>>
FSvars == <<fsActive, fsInactive, fsOps>>
CBvars == <<cbCall, cbOut>>
RAvars == <<raBank, raQueue, raCache, raListed>>
SCvars == <<scCall, scOut>>
NSvars == <<nsCall, nsOut>>
PLvars == <<plCall, plOut>>
PTvars == <<ptChain, ptArgs, ptUpdated, ptCalls, ptReq, ptOut>>
PAvars == <<paCall, paOut>>
FEvars == <<feCall, feOut>>

\* Every machine is idle between calls; one machine at a time leaves it.
AllIdle ==
    TA!Idle /\ PF!Idle /\ DA!Idle /\ IP!Idle /\ TB!Idle
    /\ FS!Idle /\ CB!Idle /\ RA!Idle /\ SC!Idle /\ NS!Idle /\ PL!Idle /\ PT!Idle /\ PA!Idle /\ FE!Idle

\* A step of one machine, the others keeping their variables.
Step(idle, next, others) == (AllIdle \/ ~idle) /\ next /\ UNCHANGED others

Next ==
    \/ Step(TA!Idle, TA!Next, <<PFvars, DAvars, IPvars, TBvars, FSvars, CBvars, RAvars, SCvars, NSvars, PLvars, PTvars, PAvars, FEvars>>)
    \/ Step(PF!Idle, PF!Next, <<TAvars, DAvars, IPvars, TBvars, FSvars, CBvars, RAvars, SCvars, NSvars, PLvars, PTvars, PAvars, FEvars>>)
    \/ Step(DA!Idle, DA!Next, <<TAvars, PFvars, IPvars, TBvars, FSvars, CBvars, RAvars, SCvars, NSvars, PLvars, PTvars, PAvars, FEvars>>)
    \/ Step(IP!Idle, IP!Next, <<TAvars, PFvars, DAvars, TBvars, FSvars, CBvars, RAvars, SCvars, NSvars, PLvars, PTvars, PAvars, FEvars>>)
    \/ Step(TB!Idle, TB!Next, <<TAvars, PFvars, DAvars, IPvars, FSvars, CBvars, RAvars, SCvars, NSvars, PLvars, PTvars, PAvars, FEvars>>)
    \/ Step(FS!Idle, FS!Next, <<TAvars, PFvars, DAvars, IPvars, TBvars, CBvars, RAvars, SCvars, NSvars, PLvars, PTvars, PAvars, FEvars>>)
    \/ Step(CB!Idle, CB!Next, <<TAvars, PFvars, DAvars, IPvars, TBvars, FSvars, RAvars, SCvars, NSvars, PLvars, PTvars, PAvars, FEvars>>)
    \/ Step(RA!Idle, RA!Next, <<TAvars, PFvars, DAvars, IPvars, TBvars, FSvars, CBvars, SCvars, NSvars, PLvars, PTvars, PAvars, FEvars>>)
    \/ Step(SC!Idle, SC!Next, <<TAvars, PFvars, DAvars, IPvars, TBvars, FSvars, CBvars, RAvars, NSvars, PLvars, PTvars, PAvars, FEvars>>)
    \/ Step(NS!Idle, NS!Next, <<TAvars, PFvars, DAvars, IPvars, TBvars, FSvars, CBvars, RAvars, SCvars, PLvars, PTvars, PAvars, FEvars>>)
    \/ Step(PL!Idle, PL!Next, <<TAvars, PFvars, DAvars, IPvars, TBvars, FSvars, CBvars, RAvars, SCvars, NSvars, PTvars, PAvars, FEvars>>)
    \/ Step(PT!Idle, PT!Next, <<TAvars, PFvars, DAvars, IPvars, TBvars, FSvars, CBvars, RAvars, SCvars, NSvars, PLvars, PAvars, FEvars>>)
    \/ Step(PA!Idle, PA!Next, <<TAvars, PFvars, DAvars, IPvars, TBvars, FSvars, CBvars, RAvars, SCvars, NSvars, PLvars, PTvars, FEvars>>)
    \/ Step(FE!Idle, FE!Next, <<TAvars, PFvars, DAvars, IPvars, TBvars, FSvars, CBvars, RAvars, SCvars, NSvars, PLvars, PTvars, PAvars>>)

Spec == Init /\ [][Next]_vars

-----------------------------------------------------------------------------
\* The type invariant of the amount renderings (TokenAmount).
AmountTypeOK == TA!TypeOK
\* real_number_string is the exact decimal expansion of amount / 10^decimals.
ExactRendering == TA!ExactRendering
\* real_number_string_trimmed and the ui amount string are the shortest
\* rendering of the same value.
TrimmedRendering == TA!TrimmedRendering
\* token_amount_to_ui_amount: the f64 ui_amount is the nearest float below
\* 2^UiFloatBits base units and within 2^-(UiFloatBits-1) relative above.
UiAmountProjection == TA!UiAmountProjection

\* The type invariant of the fee arithmetic (PrioritizationFee).
FeeTypeOK == PF!TypeOK
\* PrioritizationFeeDetails::new rounds the compute-unit fee up, saturating.
FeeIsCeiling == PF!FeeIsCeiling
\* The deprecated fee's priority rounds down, and is 0 for zero units.
PriorityIsFloor == PF!PriorityIsFloor
\* FeeStructure::get_max_fee saturates instead of wrapping.
MaxFeeSaturates == PF!MaxFeeSaturates

\* The type invariant of parse_account_data (AccountDecode).
DecodeTypeOK == DA!TypeOK
\* The decode contract of parse_account_data: tags, space, fail-closed
\* decimals and the domain expiry filter.
DecodeContract == DA!DecodeContract

\* The type invariant of the instruction parsers (InstructionParse).
ParseTypeOK == IP!TypeOK
(* No parser indexes instruction.accounts past its end once its count   *)
(* check has passed: short lists are InstructionKeyMismatch (spec 4.3).  *)
NoOutOfBoundsRead == IP!NoOutOfBoundsRead
(* parse_signers reports the owner shape at exactly the accepted count,  *)
(* and the multisig with its trailing signers above it (spec 8).         *)
SignerShape == IP!SignerShape

\* The type invariant of the token balance collection (TokenBalances).
BalancesTypeOK == TB!TypeOK
(* collect_token_balances with its shared mint_decimals map gives, before *)
(* and after execution, the balances each bank states.                   *)
BalancesMatchBanks == TB!BalancesMatchBanks

\* The type invariant of the feature set (FeatureSet).
FeatureTypeOK == FS!TypeOK
(* activate and deactivate keep every feature either active or inactive. *)
FeaturePartition == FS!FeaturePartition

(* compare_blocks prints the reference slots the owned storage lacks and *)
(* the last reference block (CompareBlocks).                             *)
SummaryCorrect == CB!SummaryCorrect

\* The type invariant of the parsed token-account listing (RpcTokenAccounts).
ListingTypeOK == RA!TypeOK
(* The cached listing gives, account by account, what the uncached       *)
(* get_parsed_token_account gives on the same bank.                      *)
CacheTransparent == RA!CacheTransparent
(* A listed token account shows exactly its mint's decimals.             *)
DecimalsFromMint == RA!DecimalsFromMint

(* The non-circulating accounts and lamports are those of the stake      *)
(* accounts the bank holds, whatever the ProgramId index still lists.    *)
SupplyMatches == NS!SupplyMatches

(* put_to_lamports is within one lamport of the string's exact value and *)
(* never above it for a fraction a lamport resolves (PutToLamports).     *)
PutToLamportsApprox == PL!PutToLamportsApprox

(* A transfer built after a successful update_token_args or              *)
(* update_decimals names a mint with its on-chain decimals, pays the     *)
(* wallet's associated account of that mint, and after update_token_args *)
(* uses the mint of the sender's token account (PplTokenCli).            *)
TransferMatchesChain == PT!TransferMatchesChain
(* check_ppl_token_balances accepts a batch exactly when the reads        *)
(* succeed, the fee payer covers fees and rent, and the sender's token   *)
(* account holds the allocation total (PplTokenCli).                      *)
CheckBalancesExact == PT!CheckBalancesExact

(* ppl_token_amount is exact or one unit short below 2^(bits-1) base      *)
(* units, and off by at most one unit per 2^(bits-1) above (PplTokenAmount).*)
PplTokenAmountBounded == PA!PplTokenAmountBounded

(* FeeStructure::new, through f64::to_string and put_to_lamports, gives   *)
(* the exact lamports of each amount or one less, and keeps the bins'    *)
(* number, order and limits (FeeStructure).                               *)
FeeStructureNewExact == FE!FeeStructureNewExact
=============================================================================
