# TLA+ models of put-labs/put

This directory holds TLA+ specifications of the parts of the repository that
have state, concurrency or non-trivial algorithms, the TLC configurations that
check them, and `PROJECT.json`. That file lists the components, the runs, the
mutants, the map from definitions to source lines, the findings and the
hazards. Every definition that models code is mapped to the lines it
translates. `LedgerStorage` (the ledger-tool's storage client) is not under
`src/`; the two definitions standing for its calls are marked
`spec_modelled`, and so are the execution step of `TokenBalances`, the
slot listings of `CompareBlocks` and the Bank scans of
`NonCirculatingSupply`.

## 1. Inventory

| Component | Source | State | Operations | What is hard |
|---|---|---|---|---|
| HBase row store client | `storage-hbase/src/hbase.rs` | an HBase table (row key -> qualifier `bin`/`proto` -> compressed bytes) | `put_bincode_cells`, `put_protobuf_cells`, `delete_rows`, `get_bincode_cell`, `get_protobuf_or_bincode_cell`, `get_bincode_cells`, `get_protobuf_or_bincode_cells`, `get_row_keys`, `get_row_data` | several processes share the table; the server applies a batch row by row; a transport error can follow any prefix; rows may hold both qualifiers; damaged cells |
| ledger-tool hbase commands | `ledger-tool/src/hbase.rs` | in `transaction_history`: `limit`, `before`, `loaded_block` | the paging loop, the block lookup per signature, `compare_blocks` with `missing_blocks`, thin wrappers over LedgerStorage | paging boundaries, chunk size 0, cache staleness, storage errors, termination |
| instruction parsers | `transaction-status/src/parse_*.rs` | none (pure) | dispatch on program id; per-opcode account-count check; `parse_signers` owner/multisig shape | an index read past the checked count; the shape at the boundary count |
| account decoders | `account-decoder/src/*.rs` | none, except the wall clock in `parse_name` | dispatch on owner and data length; token account/mint/multisig; name records; NFT meta | missing additional data; clock-dependent decoding; empty data |
| token amounts | `account-decoder/src/parse_token.rs`, `sdk/program/src/native_token.rs`, `tokens/src/*.rs` | none | `real_number_string(_trimmed)`, `token_amount_to_ui_amount`, `lamports_to_put`, `put_to_lamports`, PUT and Token `Display`, `print_token_balances` | `10^decimals` overflow, trimming, u128 wrap-around, f64 rounding |
| fees | `program-runtime/src/prioritization_fee.rs`, `sdk/src/fee.rs` | none | `PrioritizationFeeDetails::new`, `FeeStructure::new`, `FeeStructure::default`, `FeeStructure::get_max_fee` | saturation, ceiling rounding, zero units; f64 amounts printed and reparsed |
| token balances and parsed token accounts | `transaction-status/src/token_balances.rs`, `rpc/src/parsed_token_accounts.rs` | a mint-decimals cache | `collect_token_balances`, `get_parsed_token_accounts`, `get_parsed_token_account` | a cache filled before execution and read after it; a cache shared across accounts |
| non-circulating supply | `runtime/src/non_circulating_supply.rs` | none (reads a Bank) | `calculate_non_circulating_supply` over the indexed or the full program scan | a secondary index that still lists keys now owned by another program; a key counted twice |
| feature set | `sdk/src/feature_set.rs` | the `active` map and the `inactive` set | `default`, `all_enabled`, `activate`, `deactivate`, `is_active` | the partition of features into active and inactive |
| not modelled | id tables, builtins, genesis data, the saved tower, admin RPC, sbf test programs, benches, tests | - | - | constants, static data, signing or I/O only; see `PROJECT.json` |

The components interact in three places:
- the ledger-tool drives the row store through LedgerStorage, which is not
  under `src/`;
- the RPC and transaction-status code feed token accounts to the account
  decoders, which render amounts with the token-amount functions;
- the transaction-status parser dispatch calls the per-program instruction
  parsers.

## 2. Plan and status

| # | Module(s) | Status |
|---|---|---|
| 1 | `HBaseStore`: concurrent clients over a row-by-row server; `HBaseScan`: the range scans | done |
| 2 | `InstructionParse`, `InstructionVariants`: dispatch, count checks, positions read | done for token, name, NFT, associated-token and memo |
| 3 | `TokenAmount`: renderings as RECURSIVE digit operators against reference definitions | done |
| 4 | `AccountDecode`, `DecodeAccount`: `parse_account_data` and its decoders | done for the three programs of this repository |
| 5 | `PrioritizationFee`: saturating arithmetic at a reduced width | done |
| 6 | `TxHistoryPager`: paging, block cache, termination | done |
| 7 | `RpcTokenAccounts`, `TokenBalances`: the two mint-decimals caches | done |
| 8 | `FeatureSet`, `CompareBlocks` | done |
| 9 | `NonCirculatingSupply` | done |
| 11 | `PutToLamports`: the f64 fraction of `put_to_lamports` at a reduced precision | done |
| 12 | `PplTokenCli`: the token calls of put-tokens against a chain read over RPC | done |
| 13 | `PplTokenAmount`: `ppl_token_amount` through the same reduced f64 | done |
| 14 | `FeeStructure`: `FeeStructure::new` and `default`, through `f64::to_string` and `put_to_lamports` | done |
| next | an abstract typed key-value store that `HBaseStore` refines; chunk size 0 as its own run | open |

## 3. How the modules are checked

Every pure function is wrapped in a small call machine: `Idle`, one action per
call that picks its inputs from small sets with `\E`, and `Return`. Its
properties compare the result with a reference definition or a contract.
`MC_Calls.tla` composes fourteen such machines by `INSTANCE ... WITH` (TA, PF,
DA, IP, TB, FS, CB, RA, SC, NS, PL, PT, PA, FE). A step is either one machine leaving the all-idle state
or a step of the one machine that is not idle. That way one run,
`pure_calls`, covers all of them without the product of their state spaces.

The stateful components have their own MC module and cfg: `MC_HBaseStore`,
`MC_TxHistoryPager`. `RpcTokenAccounts` is a call machine too
(one listing of one bank between `List` and `Return`); its violation run
uses `MC_RpcTokenAccounts`. The violation runs use the same
modules with one property each.

## 4. Modules

### HBaseStore (`storage-hbase/src/hbase.rs`)

There are four variables:
- `tbl`: row key -> qualifier -> cell;
- `cl`: the call each client has in progress;
- `last`: the call each client last completed;
- `issued`: the number of calls made so far, bounded by `MaxRequests`.

A cell holds one of:
- a value of `Vals`;
- `Corrupt`: it decompresses but does not decode;
- `Garbled`: it does not decompress;
- `Absent`.

| Action | Code |
|---|---|
| `StartPut`, `CompressFails` | `put_bincode_cells`/`put_protobuf_cells`: `compress_best` can fail before any RPC |
| `ApplyPutRow` | the server applying one `TPut` of `put_row_data`'s `putMultiple` |
| `StartDelete`, `ApplyDeleteRow` | `delete_rows`; the server deletes the rows in turn, and a row it cannot delete throws `TIOError`, which `?` returns as an Err (`RpcFails`) |
| `StartGet`, `ReadRow` | `get_bincode_cell`/`get_protobuf_or_bincode_cell` via `get_single_row_data` |
| `StartMultiGet`, `ReadNextRow` | `get_multi_row_data`'s `getMultiple`, one row at a time |
| `ConnectFails` | `client()` failing to open the channel inside a `*_with_retry` wrapper (puts, `delete_rows`, `get_bincode_cells`), which make one attempt |
| `RpcFails` | a Thrift error after any prefix of the rows |
| `RpcReturns` | the reply: `put_row_data` maps it to Ok; `delete_rows` discards the returned list, which Thrift2 always sends empty; `get_protobuf_or_bincode_cells` unwraps each decode |
| `Finish`, `Quiescent` | the caller taking the result; the end of the bounded run |

The bounds are two keys, two values, two clients and two calls. Batches have
at most two rows. Prior cells are `Absent`, `Corrupt` or `Garbled`. This
allows two concurrent batches over the same keys in either order, a failure
between their rows, and a read interleaved with them. Keys, values and
clients are symmetric: no action orders them, and the HBase runs check no
liveness.

### InstructionParse and InstructionVariants (`transaction-status/src/parse_*.rs`)

An instruction is abstracted to:
- its program and opcode;
- whether its data unpacks;
- the length of its account list;
- whether every index is in bounds.

`Layout` gives, for each variant:
- the count `check_num_*_accounts` requires;
- the positions it reads;
- the `last_nonsigner_index` of `parse_signers`.

The layouts are grouped as in the source match arms. `Decode` is one call of
`parse`. `InstructionVariants` lists the variants that the upstream token
program defines, the checked name variants and the NFT variants.

### TokenAmount

Strings are sequences of characters. The renderings are RECURSIVE digit
operators:
- `RealNumberString`;
- `RealNumberStringTrimmed`;
- `TokenAmountToUiAmount`;
- `LamportsToPut` and `WriteInPut`;
- `WriteWithSymbol`;
- `BalanceDifference` (`print_token_balances`).

u128 and usize are reduced to 16 bits, which keeps `checked_pow`'s failure and
wrap-around in reach.

`ui_amount` is an f64, `amount as f64 / dividend as f64`. A float is `[m, e]`,
the value m / 2^e. `AsF64` and `DivF64` round to nearest, ties to even, as
IEEE 754 does. The significand is reduced from 53 to `UiFloatBits` = 10 bits.
That is the smallest width that still holds 10^4 exactly, just as 53 bits
hold every power of ten a 64-bit usize allows. Amounts past 2^10
(`UiSamples`) put the double rounding in reach: the amount rounds before the
quotient does.

### PutToLamports (`sdk/program/src/native_token.rs`)

`Convert` is one call of `put_to_lamports`. The input string is split on
the dot (`Split`), as in `parse_amount`. The integer part is a u128
parse, which panics when it is empty (`Panic`). The fraction is parsed as
the f64 `"0.<digits>"` (`ParseFrac`). Its product with `LAMPORTS_PER_PUT`
is rounded to a float and then truncated (`FracLamports`).

An f64 is modelled as a binary float `[m, e]` (the value m / 2^e), rounded
to nearest with ties to even. TLC's integers cannot hold a 53-bit
significand times 10^9, so both numbers are reduced: the significand to 14
bits and `LAMPORTS_PER_PUT` to 1000. The reduction keeps 2^(bits-1) above
`LAMPORTS_PER_PUT`, as 2^52 is above 10^9, which is what bounds the error
below one lamport. The reduced model shows the same effect as f64: "0.253"
gives 252 lamports, as "0.000065" gives 64999 with f64. The inputs are
every string made of an integer part (empty or "2"), optionally a dot
and up to four fraction digits, plus a string with two dots.

### PplTokenAmount (`tokens/src/ppl_token.rs` line 43)

`ppl_token_amount(amount, decimals)` is `(amount * 10_usize.pow(decimals)
as f64) as u128`. `Convert` takes a UI amount n / 10^k, with n in 0..100 or
1000..1100 and k up to 3. `Amount` is that value parsed as an f64. `Scale` is the
rounded product, truncated. Both reuse the float operators of
`PutToLamports` through a parameterised `INSTANCE`, with the multiplier
10^decimals in place of `LAMPORTS_PER_PUT`.

usize is reduced to 16 bits, like the `UsizeBits` of `TokenAmount`, so
10^5 overflows it. That keeps the order of the real widths: 10^20 overflows
a 64-bit usize before 10^23 stops being an exact f64. On overflow the call
panics in a debug build, and in a release build it scales by the wrapped
power. Both outcomes are enumerated.

`PplTokenAmountBounded` checks amounts with no more fraction digits than the
mint's decimals. Below 2^(bits-1) base units the result is exact or one
unit short. Above that it is within one unit per 2^(bits-1) of the amount,
in either direction. Scaled to f64, this means that above 2^52 base units
(4.5 million tokens at 9 decimals) a distribution amount can also come out
one unit high.

### FeeStructure (`sdk/src/fee.rs`)

`FeeStructure::new` takes its PUT amounts as f64 and converts each with
`put_to_lamports((x).to_string().as_str())`. `CallNew` enumerates the
amounts over every decimal with integer part 0 or 2 and up to three
fraction digits, one field at a time: the per-signature amount, the
write-lock amount, or the fee of one bin (limit 1,400,000), the other
amounts 0 and no bin when the bin is not the one varied. Each amount is
converted on its own, so the product of the fields adds nothing. The
arguments of `default()` are also called,
with its 0.000005 PUT scaled to the reduced `LAMPORTS_PER_PUT` (0.005).
`F64` is the float nearest the decimal, as the compiler gives the literal.

`Display` is `f64::to_string`: the fewest fraction digits whose decimal
parses back to the same float, no exponent, and no dot for an integral
value (2.0 prints "2"). `Digits` and `DecimalText` build the text, and
`ToLamports` runs `PutToLamports` on it, through an `INSTANCE` of that
module with the same reduced float.

`FeeStructureNewExact` says every fee comes out as its exact lamports or one
lamport less, and the bins keep their number, order and limits. The shortest
Display gives back the decimal the caller wrote, so the error is only that of
`put_to_lamports`: 0.253 PUT gives 252 lamports. A fixed two-digit format
would turn 0.005 into "0.01" and double the default signature fee.

### PplTokenCli (`tokens/src/ppl_token.rs`, `tokens/src/args.rs`)

The four token calls of put-tokens share one `Option<PplTokenArgs>`. The
commands that call them (`commands.rs`) are not in this repository, so a
session (`Start` ... `Reset`) applies up to `MaxCalls` = 3 of them in any
order. The args start as `None` or as the token account address with the
`#[derive(Default)]` mint (`Pubkey::default()`) and decimals 0. The chain
(`chain`) is fixed within a session: the sender's address holds nothing or
a token account of one of two mints with a balance of 1 or 2; each mint
address holds nothing or a mint with 2 or 6 decimals. Every `get_account`
may fail, and `unwrap_or_default` turns the failure into an empty account
(`GetAccount`).

- `UpdateTokenArgs` (`update_token_args`): unpack the sender's token
  account, write its mint into the args, then run `update_decimals`. When
  that second read fails, the Err leaves the new mint with the old decimals.
- `UpdateDecimals` (`update_decimals`): unpack the mint and store its
  decimals.
- `Build` (`build_ppl_token_instructions`): an optional
  `create_associated_token_account`, then `transfer_checked` to the
  wallet's associated address of the args' mint, with the args' decimals.
  On `None` args the `expect` panics.
- `Check` (`check_ppl_token_balances`): the allocation total (up to two
  allocations, largest first, as only their sum is used), then the three RPC reads (any of them may fail), then
  `fee_payer_balance < fees + created * rent`, then the source unpack, then
  `amount < total`. The source is read only when the reads before it succeed, so its failure
  is enumerated only then. The reads change nothing and fail alike, so one flag
  (`readErr`) stands for all three. The rendered amounts of
  `InsufficientFunds` are kept as numbers; `TokenAmount` models their
  rendering.

`updated` records which update call last succeeded. It is the history the
property `TransferMatchesChain` depends on.

### PrioritizationFee

`New` models both fee types, and `GetMaxFee` models `get_max_fee`. u128 is
reduced to `Bits` = 6 bits and U256 to 12 bits. `MICRO_LAMPORTS_PER_LAMPORT`
becomes `Micro` = 10, so the rounding at prices 9, 10 and 11 and saturation
are all reachable.

### AccountDecode and DecodeAccount (`account-decoder/src`)

`ParseAccountData` dispatches to `ParseToken`, `ParseName` or `ParseNft`.
Account bytes are abstracted to:
- the length;
- whether the layout unpacks;
- the tag byte;
- the fields a result carries.

`DecodeAccount` is the call machine. It enumerates every small input for each
program and the wall clock that `parse_name` reads.

### RpcTokenAccounts (`rpc/src/parsed_token_accounts.rs`)

`get_parsed_token_accounts` walks the accounts in any order (`Orders`). For
each account it:
- finds the mint;
- takes the decimals and metadata from its `mint_decimals` cache, or calls
  `get_mint_owner_and_decimals` and caches the result;
- encodes the account.

`GetParsedTokenAccount` is the uncached path. The bank is fixed for one
listing. The bounds are two holders, two mints (one of them native), lengths
{1, 82, 165} and decimals {2, 9}.

### HBaseScan (`storage-hbase/src/hbase.rs`, `get_row_keys`, `get_row_data`)

`Scan` is one call of either scan on a table over `RowKeys` = {1, 2, 3}
(the naturals stand for keys in the order of the key strings). It builds
the `TScan` from the optional start and end keys (`TScan`), calls
`getScannerResults` with `rows_limit`, and decodes the rows
(`DecodeReadRowsResponse`). The Thrift server is not in this repository.
`GetScannerResults` states its contract: rows from the start key
(inclusive) to the stop key (exclusive), at most `numRows` of them, none
for 0. Every table of up to three rows and every start/end pair are
enumerated. `pure_calls` runs the scans with limits {1, 2} alongside the
other calls, and `scan_zero` checks `ScanContract` with limits 0 and 2.

### NonCirculatingSupply (`runtime/src/non_circulating_supply.rs`)

`Calculate` is one call of `calculate_non_circulating_supply`. A bank maps
three keys (the fixed key among them) to a missing account or an account
with an owner, a stake state and a balance. The ProgramId index, when
enabled, holds every stake-owned key plus any set of stale keys
(`Indexes`). The Bank's `get_filtered_indexed_accounts`,
`get_program_accounts` and `get_balance` are not in this repository and
are modelled from their contract (`spec_modelled`). The lockup checks are
commented out in the code and are left out.

### TokenBalances (`transaction-status/src/token_balances.rs`)

`CollectTokenBalances` folds over the batch: `FoldLeft` over the transactions
and `FoldLeftDomain` over the accounts. It threads the `mint_decimals` map.
`Collect` is one call of the caller:
- the pre balances, with a fresh map;
- any execution (`Executed`);
- the post balances, reusing the map.

Execution may change any account except an initialized mint owned by the
token program. The token program cannot re-initialize or close such a mint.
This is modelled from the token program's contract, because that program is
not in this repository. The bounds are two holders, one mint plus the native
mint, and a batch of three transactions that cover:
- a missing token program;
- an invoked account;
- two accounts of the same mint.

### FeatureSet (`sdk/src/feature_set.rs`)

The variables are `active`, `inactive` and `ops`. A session starts from
`Default`, or from `AllEnabled` through `StartAllEnabled`. It applies up to
`MaxOps` = 3 calls of `activate`/`deactivate` on named or unnamed ids
(`Activate`, `Deactivate`). `Reset` drops the set.

### CompareBlocks (`ledger-tool/src/hbase.rs`)

`Compare` takes two ascending slot lists over `SlotRange` = {1, 2, 3}, empty
lists included. It computes `missing_blocks` and the printed summary.

### TxHistoryPager (`ledger-tool/src/hbase.rs`, `transaction_history`)

The variables are the command line `args`, `limit`, `before`, the unprinted
`page`, `loaded` (the slot of `loaded_block`), `pc` and the printed `out`.
The actions are:
- `Query`: one iteration of `while limit > 0`;
- `PrintSignature`;
- `NextPage`;
- `ShowTransaction`: one iteration of the inner loop that may load a block;
- `QueryFails` and `BlockFetchFails`: storage errors;
- `Terminated`: the command has returned.

The history has five signatures in three slots:
- one slot has a stored block of three transactions, one of them with an index
  out of range;
- one slot has a one-transaction block;
- one slot's block is not stored.

The inputs are every `--before` and `--until` combination, limits {0, 2, 3, 6}
and chunk sizes {1, 2, 4}. This covers:
- a limit that is larger than the window, equal to it or smaller than it;
- a chunk that is smaller or larger than the limit;
- one cached block that is reused across pages.

## 5. Runs

| Run | Module / cfg | Expect | What it shows |
|---|---|---|---|
| `store_reads` | MC_HBaseStore / HBaseStore_reads.cfg | pass | Two clients interleave puts, deletes and reads row by row, with transport failures or `TIOError` after any prefix of a call's rows. Every read result agrees with the row the server read (`ReadContract`). The bincode fallback never masks a protobuf cell. An acknowledged put has applied all its rows (`AckedPutsApplied`). |
| `store_panic` | HBaseStore_panic.cfg | violation | `get_protobuf_or_bincode_cells` panics on a row that does not decode. |
| `store_roundtrip` | HBaseStore_roundtrip.cfg | violation | After `putProto(k, v1)` and `putBin(k, v2)`, `get_protobuf_or_bincode_cell(k)` returns `v1`. |
| `parse_name_oob` | InstructionParse_name_oob.cfg | violation | Two name instructions with 6 or 7 accounts index past the account list. |
| `parse_meta_shape` | InstructionParse_meta_shape.cfg | violation | The token metadata variants report the multisig shape for the minimum account list. |
| `amount_balance_diff` | TokenAmount_balance.cfg | violation | `print_token_balances` wraps or panics for a recipient holding less than its allocation. |
| `pure_calls` | MC_Calls / Calls.cfg | pass | The rendering, put_to_lamports, fee, decoding, parsing, balance, feature, compare_blocks, token-listing, supply, put-tokens and FeeStructure::new properties listed below, over about 526k distinct states in 1.4 minutes. |
| `decode_panic` | DecodeAccount_panic.cfg | violation | `parse_account_data` panics on a zero-length name-program account. |
| `rpc_listed` | RpcTokenAccounts_listed.cfg | violation | An initialized token account whose mint has decimals is dropped from the listing when the mint's metadata is absent or does not unpack. |
| `tx_history` | MC_TxHistoryPager / TxHistoryPager.cfg | pass | Checks `HistoryListed`, `DetailsMatch` and `Terminates` (see below). |
| `scan_zero` | HBaseScan / HBaseScan_zero.cfg | violation | With `rows_limit` 0 both scans return no row, where the doc comments promise every row of the range. |

These are the properties of `pure_calls`:
- `ExactRendering` and `TrimmedRendering`: the digit strings denote the amount
  divided by 10^decimals, exactly and with the shortest form.
- `UiAmountProjection`: below 2^bits base units, `ui_amount` is the float
  nearest to the value that `ui_amount_string` shows. Above that it can miss
  the nearest float, but it stays within a relative 2^-(bits-1). TLC checks
  both bounds at 10 bits. With the real 53 bits, the nearest-float bound
  holds up to 2^53 base units.
- `FeeIsCeiling` and `PriorityIsFloor`: the fee rounds up and the priority
  rounds down, against U256 arithmetic.
- `MaxFeeSaturates`.
- `DecodeContract`: a decode is Ok with the right program tag and length, or
  the error the contract names.
- `NoOutOfBoundsRead` and `SignerShape`, over the variants where they hold.
- `BalancesMatchBanks`: the cache shared across transactions and across the
  execution is transparent.
- `FeaturePartition`.
- `SummaryCorrect`.
- `CacheTransparent`: for every bank and listing order, the cached token
  listing equals the uncached per-account path; `DecimalsFromMint`: no
  account is shown with decimals other than its mint's.
- `PutToLamportsApprox`: `put_to_lamports` is within one lamport of the
  exact value, and never above it when the fraction has no more digits
  than a lamport resolves.
- `SupplyMatches`: the supply's accounts and lamports do not depend on the
  index, even with stale entries, and a key is counted once.
- `TransferMatchesChain`: a transfer built after a successful update call
  names a mint with its on-chain decimals and pays the wallet's associated
  account of that mint. After `update_token_args`, the mint is the mint of
  the sender's token account. It takes a session of calls to break: a
  `update_token_args` that skipped `update_decimals` would pass a unit test
  whose default decimals happened to match.
- `PplTokenAmountBounded`: `ppl_token_amount` is exact or one unit short
  below 2^(bits-1) base units, and within one unit per 2^(bits-1) above.
- `FeeStructureNewExact`: `FeeStructure::new` and `default` give each fee
  as its exact lamports or one less, and keep the bins' limits and order.
- `CheckBalancesExact`: `check_ppl_token_balances` returns Ok exactly when
  every read succeeds, the fee payer covers fees plus rent, and the source
  token account holds the whole total. A short token account is reported
  with the total.

These are the properties of `tx_history`:
- `HistoryListed`: the printed signatures are a prefix of the window, never
  more than `--limit`, and all of them once the loop ends without an error.
- `DetailsMatch`: a shown transaction is the one of its own signature's slot
  and index, although `loaded_block` is kept across signatures and pages.
- `Terminates`: the command returns.

Every property of a passing run has a mutant in `PROJECT.json`: a plausible
bug in the mapped code (a dropped guard, an off-by-one, a cache that is not
keyed right, a cursor at the wrong end of the page) that TLC finds violating
it.

## 6. Findings

- **`get_protobuf_or_bincode_cells` panics**
  (code bug, `hbase.rs:487`). It unwraps every decode, so one corrupt or
  undecompressable row, or a row with neither qualifier, panics the reader.
  The single-row variant returns an error instead.
- **Put then get does not round-trip**
  (spec gap, `hbase.rs:571`). `put_bincode_cells` leaves an older `proto`
  cell in place, and the reader prefers `proto`.
- **Name parser reads out of bounds**
  (code bug, `transaction-status/src/parse_name.rs:106`).
  `CloseDomainResolveAccount` and `UnbindAddressAccount` check for 6 accounts
  but read positions 6 and 7.
- **Metadata variants report the wrong signer shape**
  (divergence, `parse_token.rs:396`). The token metadata variants call
  `parse_signers` with a `last_nonsigner_index` one or more below the
  required count, so the minimum account list reads as a multisig.
- **Balance difference wraps**
  (code bug, `tokens/src/ppl_token.rs:141`). It is computed in u128, which
  underflows.
- **Name decoder panics on empty data**
  (code bug, `account-decoder/src/parse_name.rs:27`). `data[0]` is read
  before any length check.
- **Accounts dropped from the parsed listing**
  (divergence, `rpc/src/parsed_token_accounts.rs:130`, also line 103). A
  mint-metadata failure drops the decimals, and the account disappears from
  the jsonParsed listing.
- **A zero row limit returns no rows**
  (divergence, `storage-hbase/src/hbase.rs:225`). The doc comments of
  `get_row_keys` and `get_row_data` say a `rows_limit` of 0 means no limit;
  the code passes it on as `numRows`, and the server's scanner returns
  nothing for 0.

## 7. Fairness

Only `TxHistoryPager` checks liveness. The command is one sequential task, so
its own steps (`Step` = `Query`, `PrintSignature`, `NextPage`,
`ShowTransaction`) are weakly fair. Storage errors (`QueryFails`,
`BlockFetchFails`) get no fairness, so `Terminates` cannot rely on a failure
ending a loop. Every other run checks safety only, and assumes no fairness.

## 8. Not modelled, and why

- **Negative `rows_limit`.** The scans take an i32; negative values are not
  enumerated.
- **Thin ledger-tool wrappers** (`upload`, `delete_slots`, `block`,
  `blocks`, `confirm`, `first_available_block`). They pass one call on to
  LedgerStorage and print its result.
- **`HBaseConnection::new`** only stores the URL and timeout. The timeout is
  not applied to the channel; a hung server is not modelled.
- **`--query-chunk-size 0`.** A chunk size of 0 lists nothing while the
  limit stays positive. It is recorded as a hazard. A violation run for it is
  left for a later sitting.
- **`full_inflation_features_enabled`.** `FULL_INFLATION_FEATURE_PAIRS` is
  empty in this repository.
- **Allocation totals near 2^128** in `check_ppl_token_balances`. The
  model sums exactly; a wrapping u128 sum is recorded as a hazard.
- **The put-tokens commands** (`commands.rs`: sending, confirming, the
  transaction database). They are not in this repository. `PplTokenCli`
  leaves the order of its calls, and what follows an Err, open.
- **The full 53-bit `f64::to_string`**. `FeeStructure` uses the shortest
  round-trip Display over the reduced float; amounts whose shortest text
  needs more digits than 14 bits hold are not enumerated.
- **`Token + Token`** (`token_display.rs`). It has no caller in src.
- **Other account-decoder parsers** (vote, stake, sysvar, config). They are
  not in this repository.
- **Program ids, builtins, genesis and install defaults.** These are
  constants.
- **Saved tower and admin RPC.** Signed serialisation is out of TLC's reach.
- **Test programs, benches and tests.**
