---------------------------- MODULE DecodeAccount ----------------------------
(***************************************************************************)
(* Calls of parse_account_data (account-decoder/src/parse_account_data.rs) *)
(* on every input of small per-program sets: each step is one call, with  *)
(* the wall clock parse_name reads chosen freely.                          *)
(***************************************************************************)
EXTENDS AccountDecode

VARIABLES call, out
vars == <<call, out>>

\* A data record with the fields a decoder does not read at a fixed value.
Bytes(len, ok, tag, decimals, delegate, native, close, signers, expire) ==
    [len |-> len, ok |-> ok, tag |-> tag, mint |-> CHOOSE k \in Keys : TRUE,
     decimals |-> decimals, delegate |-> delegate, native |-> native,
     close |-> close, signers |-> signers, expire |-> expire]

AnyDecimals == CHOOSE x \in Decimals : TRUE
AnyTime     == CHOOSE t \in Times : TRUE

TokenInputs ==
    {Bytes(l, o, 0, x, g, n, c, s, AnyTime) :
        l \in Lens, o \in BOOLEAN, x \in Decimals, g \in BOOLEAN,
        n \in BOOLEAN, c \in BOOLEAN, s \in 0..MaxSigners}
NameInputs ==
    {Bytes(l, o, t, AnyDecimals, FALSE, FALSE, FALSE, 0, e) :
        l \in Lens, o \in BOOLEAN, t \in 0..4, e \in Times}
NftInputs ==
    {Bytes(l, o, 0, AnyDecimals, FALSE, FALSE, c, 0, AnyTime) :
        l \in Lens, o \in BOOLEAN, c \in BOOLEAN}

InputsOf(p) ==
    CASE p = TokenProgram -> TokenInputs
      [] p = NameProgram  -> NameInputs
      [] OTHER            -> NftInputs

NoCall == [program |-> None]
Init == call = NoCall /\ out = [kind |-> "none"]

Idle == call = NoCall

\* One call of parse_account_data.
Decode ==
    /\ Idle
    /\ \E p \in Registered \cup {Unregistered} :
       \E d \in InputsOf(p) :
       \E add \in (IF p = TokenProgram THEN AdditionalData \cup {None} ELSE {None}) :
       \E now \in (IF p = NameProgram THEN Times ELSE {AnyTime}) :
          /\ call' = [program |-> p, d |-> d, add |-> add, now |-> now]
          /\ out' = ParseAccountData(p, d, add, now)

\* The caller takes the result.
Return == ~Idle /\ call' = NoCall /\ out' = [kind |-> "none"]

Next == Decode \/ Return
Spec == Init /\ [][Next]_vars

-----------------------------------------------------------------------------
\* Every result is an error of a known kind, a panic, or a parsed account
\* whose program tag is the kebab-case ParsableAccount name.
TypeOK ==
    \/ out = [kind |-> "none"]
    \/ out = Panic
    \/ out \in [kind: {"err"}, err: {"ProgramNotParsable", "AccountNotParsable",
                                     "AdditionalDataMissing"}]
    \/ /\ out.kind = "ok"
       /\ out.val.program \in {"ppl-token", "ppl-name", "ppl-nft"}
       /\ out.val.space \in Lens

(***************************************************************************)
(* The decode contract of parse_account_data: an unknown program is        *)
(* ProgramNotParsable whatever the data; a success carries the program's   *)
(* tag and data.len(); a token Account decodes only with the mint's        *)
(* decimals supplied and renders its amounts with exactly those; a Domain  *)
(* decodes only while the wall clock has not passed its expiry.            *)
(***************************************************************************)
DecodeContract ==
    call # NoCall =>
      /\ (out = Err("ProgramNotParsable")) <=> call.program \notin Registered
      /\ out.kind = "ok" =>
           /\ out.val.space = call.d.len
           /\ out.val.program = ProgramTag(call.program)
           /\ out.val.parsed.type = "account" =>
                /\ call.add # None
                /\ out.val.parsed.decimals = call.add.decimals
           /\ out.val.parsed.type = "domain" => call.now <= call.d.expire

\* parse_account_data never panics, whatever bytes an account holds.
NoPanic == out # Panic

====
