---------------------------- MODULE AccountDecode ----------------------------
(***************************************************************************)
(* The account decoders of account-decoder/src: the dispatcher             *)
(* parse_account_data, the length-dispatched parse_token, the tag-byte     *)
(* parse_name with its wall-clock expiry filter, and parse_nft.            *)
(*                                                                         *)
(* Account bytes are abstracted to what the decoders tell apart: the       *)
(* length, whether the layout unpacks (Pack::unpack checks the length and  *)
(* the initialized flag, borsh checks the structure), the first byte, and  *)
(* the fields a result carries.  Pubkeys and strings are model values.     *)
(***************************************************************************)
EXTENDS Integers, Sequences, FiniteSets

CONSTANTS
    TokenProgram, NameProgram, NftProgram,  \* ids of PARSABLE_PROGRAM_IDS
    Unregistered,                           \* a program id not in it
    AccountLen, MintLen, MultisigLen,       \* ppl_token Pack::get_packed_len
    NftMetaLen,                             \* ppl_nft MetaAccount::get_packed_len
    Lens,            \* data lengths the model enumerates
    Keys,            \* pubkeys stored inside account data
    Decimals,        \* u8 decimals values
    Text,            \* one stored symbol/name/icon string
    Times,           \* wall-clock and expire_time values, in seconds
    MaxSigners,      \* bound on the non-default signers of a Multisig
    None             \* Option::None (a model value)

NotSet == "Not Set"

(***************************************************************************)
(* PARSABLE_PROGRAM_IDS and the kebab-case tag of each ParsableAccount.    *)
(* The registry's other entries (vote, stake, sysvar, ...) decode through  *)
(* parsers that are not part of this repository and are left out.         *)
(***************************************************************************)
Registered == {TokenProgram, NameProgram, NftProgram}
\* Variant: the Debug name of the variant without the kebab-case step.
ProgramTagDebug(p) ==
    CASE p = TokenProgram -> "PplToken"
      [] p = NameProgram  -> "PplName"
      [] p = NftProgram   -> "PplNft"
ProgramTag(p) ==
    CASE p = TokenProgram -> "ppl-token"
      [] p = NameProgram  -> "ppl-name"
      [] p = NftProgram   -> "ppl-nft"

\* The generic account bytes: every decoder reads only some of the fields.
Data == [len: Lens, ok: BOOLEAN, tag: 0..4, mint: Keys, decimals: Decimals,
         delegate: BOOLEAN, native: BOOLEAN, close: BOOLEAN,
         signers: 0..MaxSigners, expire: Times]

\* Stored strings: one text, the empty string, or absent.
Strings == {Text, "", None}

AdditionalData == [decimals: Decimals \cup {None}, symbol: Strings,
                   name: Strings, icon: Strings]
DefaultAdditionalData ==
    [decimals |-> None, symbol |-> None, name |-> None, icon |-> None]

Ok(v)  == [kind |-> "ok", val |-> v]
Err(e) == [kind |-> "err", err |-> e]
Panic  == [kind |-> "panic"]
NotParsable == Err("AccountNotParsable")

OrNotSet(s) == IF s = None THEN NotSet ELSE s

\* UiTokenAccount: the amounts are rendered with the given decimals.
UiTokenAccount(d, decimals) ==
    Ok([type |-> "account", mint |-> d.mint, decimals |-> decimals,
        delegate |-> d.delegate, delegatedAmount |-> d.delegate,
        reserve |-> d.native, close |-> d.close])

\* Variant: a missing decimals silently taken as 0.
ParseTokenAccountDefaultDecimals(d, add) ==
    IF ~d.ok THEN NotParsable
    ELSE UiTokenAccount(d, IF add.decimals = None THEN 0 ELSE add.decimals)

\* The Account branch of parse_token: unpack, then require the decimals.
ParseTokenAccount(d, add) ==
    IF ~d.ok THEN NotParsable
    ELSE IF add.decimals = None THEN Err("AdditionalDataMissing")
    ELSE UiTokenAccount(d, add.decimals)

(***************************************************************************)
(* parse_token: dispatch on the exact data length.  An Account needs the   *)
(* mint's decimals from the additional data and fails closed without it;   *)
(* a Mint fills symbol, name and icon from it or with "Not Set"; a         *)
(* Multisig lists its non-default signers.                                *)
(***************************************************************************)
ParseToken(d, add) ==
    CASE d.len = AccountLen -> ParseTokenAccount(d, add)
      [] d.len = MintLen ->
            IF ~d.ok THEN NotParsable
            ELSE Ok([type |-> "mint", decimals |-> d.decimals,
                     symbol |-> OrNotSet(add.symbol),
                     name |-> OrNotSet(add.name), icon |-> OrNotSet(add.icon)])
      [] d.len = MultisigLen ->
            IF ~d.ok THEN NotParsable
            ELSE Ok([type |-> "multisig", signers |-> d.signers])
      [] OTHER -> NotParsable

(***************************************************************************)
(* parse_name: index data[0] (a panic on empty data), then deserialize the *)
(* record of that tag; a Domain whose expire_time is before the wall clock *)
(* is reported as not parsable.                                           *)
(***************************************************************************)
ParseName(d, now) ==
    CASE d.len = 0 -> Panic
      [] d.tag = 1 /\ d.ok ->
            IF now > d.expire THEN NotParsable
            ELSE Ok([type |-> "domain", expire |-> d.expire])
      [] d.tag \in {2, 3} /\ d.ok ->
            Ok([type |-> IF d.tag = 2 THEN "domainResolve" ELSE "addressResolve"])
      [] OTHER -> NotParsable

\* parse_nft: only the MetaAccount length is decoded.
ParseNft(d) ==
    IF d.len = NftMetaLen /\ d.ok
    THEN Ok([type |-> "nft", mint |-> d.mint, close |-> d.close])
    ELSE NotParsable

(***************************************************************************)
(* parse_account_data: look the program up, default the additional data,  *)
(* decode, and wrap a success with the program tag and data.len().        *)
(***************************************************************************)
ParseAccountData(program, d, add, now) ==
    IF program \notin Registered THEN Err("ProgramNotParsable")
    ELSE LET a == IF add = None THEN DefaultAdditionalData ELSE add
             r == CASE program = TokenProgram -> ParseToken(d, a)
                    [] program = NameProgram  -> ParseName(d, now)
                    [] program = NftProgram   -> ParseNft(d)
         IN IF r.kind = "ok"
            THEN Ok([program |-> ProgramTag(program), parsed |-> r.val,
                     space |-> d.len])
            ELSE r

====
