--------------------------- MODULE InstructionParse ---------------------------
(***************************************************************************)
(* The instruction parsing dispatcher of transaction-status: parse of      *)
(* parse_instruction.rs and the per-program parsers parse_token,           *)
(* parse_name, parse_nft and parse_associated_token.  A parser only looks  *)
(* up account keys through positions of instruction.accounts after the    *)
(* max-index check, so an instruction is abstracted to its program, its    *)
(* opcode, whether its data unpacks, the length of its account list and    *)
(* whether every index is below the number of account keys.  An output    *)
(* records which list position each field reports.                        *)
(***************************************************************************)
EXTENDS Integers, Sequences, FiniteSets, TLC

CONSTANTS
    TokenOps,     \* TokenInstruction variants given to parse_token
    NameOps,      \* NameInstruction variants given to parse_name
    NftOps,       \* nft TokenInstruction variants given to parse_nft
    MaxAccounts   \* bound on the length of instruction.accounts

NoSigner == -1
\* need: the count check_num_*_accounts asks for; reads: the positions the
\* json! of the variant reads; signer: last_nonsigner_index of parse_signers;
\* trailing: first position of an InitializeMultisig signer list.
Op(n, r, s)  == [need |-> n, reads |-> r, signer |-> s, trailing |-> NoSigner]
Plain(n, r)  == Op(n, r, NoSigner)

\* parse_token, initialisation variants.
TokenInitLayout ==
    [x \in {"InitializeMint", "InitializeAccount", "InitializeAccount2",
            "InitializeMultisig", "SyncNative"} |->
        CASE x = "InitializeMint"     -> Plain(2, {0, 1})
          [] x = "InitializeAccount"  -> Plain(4, {0, 1, 2, 3})
          [] x = "InitializeAccount2" -> Plain(3, {0, 1, 2})
          [] x = "InitializeMultisig" -> [Plain(3, {0, 1}) EXCEPT !.trailing = 2]
          [] x = "SyncNative"         -> Plain(1, {0})]

\* parse_token, the transfer and delegation variants; their authority
\* goes through parse_signers.
TokenTransferLayout ==
    [x \in {"Transfer", "Approve"} |-> Op(3, {0, 1}, 2)]
    @@ [x \in {"Revoke", "SetAuthority"} |-> Op(2, {0}, 1)]

\* parse_token, the supply and account-state variants.
TokenSupplyLayout ==
    [x \in {"MintTo", "Burn", "CloseAccount", "FreezeAccount", "ThawAccount"} |->
        Op(3, {0, 1}, 2)]

\* parse_token, the checked variants.
TokenCheckedLayout ==
    [x \in {"TransferChecked", "ApproveChecked"} |-> Op(4, {0, 1, 2}, 3)]
    @@ [x \in {"MintToChecked", "BurnChecked"} |-> Op(3, {0, 1}, 2)]

\* parse_token, the token metadata variants.
TokenMetaLayout ==
    [x \in {"UpdateSymbol", "UpdateName", "UpdateIcon"} |-> Op(2, {0, 1}, 0)]
    @@ ("CreateMintMetaAccount" :> Op(3, {0, 1, 2}, 1))
    @@ ("InitMintMetaAccount" :> Plain(2, {0, 1}))

TokenLayout ==
    TokenInitLayout @@ TokenTransferLayout @@ TokenSupplyLayout
    @@ TokenCheckedLayout @@ TokenMetaLayout

\* parse_name.
NameLayout ==
    [x \in {"CreateTopDomain", "CreateDomain", "CreateRareDomain",
            "CreateDomainResolveAccount"} |-> Plain(7, 0..4)]
    @@ ("UpdateDomainResolveAccount" :> Plain(10, 0..7))
    @@ [x \in {"CloseDomainResolveAccount", "UnbindAddressAccount"} |->
            Plain(6, {0, 1, 2, 3, 6, 7})]
    @@ ("Renewal" :> Plain(5, 0..3))
    @@ ("SetTopReceipt" :> Plain(1, {0}))
    @@ ("Transfer" :> Plain(3, {0, 1, 2}))

\* parse_nft.
NftLayout ==
    [x \in {"Transfer", "Freeze", "Thaw"} |-> Plain(3, {0, 1, 2})]
    @@ ("InitializeMint" :> Plain(4, {0, 3}))
    @@ ("MintTo" :> Plain(5, {0, 1, 2, 4}))
    @@ [x \in {"Update", "SetAuthority", "Burn"} |-> Plain(2, {0, 1})]

\* parse_associated_token: no instruction data, one layout.
AssociatedLayout == "Create" :> Plain(7, 0..6)

Registered == {"PplToken", "PplName", "PplNft", "PplAssociatedTokenAccount", "PplMemo"}
Programs   == Registered \cup {"Unregistered"}
Layout(p) ==
    CASE p = "PplToken" -> TokenLayout
      [] p = "PplName"  -> NameLayout
      [] p = "PplNft"   -> NftLayout
      [] p = "PplAssociatedTokenAccount" -> AssociatedLayout
      [] OTHER -> "None" :> Plain(0, {})
Given(p) ==
    CASE p = "PplToken" -> TokenOps
      [] p = "PplName"  -> NameOps
      [] p = "PplNft"   -> NftOps
      [] OTHER -> DOMAIN Layout(p)

-----------------------------------------------------------------------------
Result(k, f, s) == [kind |-> k, fields |-> f, signers |-> s]
Fail(k)         == Result(k, {}, <<>>)

\* Variant: a slice one position longer than accounts[a..=b].
PositionsPastEnd(a, b) == [j \in 1..(b - a + 2) |-> a + j - 1]

\* The run of positions a .. b of the account list.
Positions(a, b) == [j \in 1..(b - a + 1) |-> a + j - 1]

\* Variant: parse_signers switching shape at idx + 1 accounts already.
ParseSignersAtIdx(idx, len) ==
    IF len >= idx + 1
    THEN Result("Ok", {<<"multisig", idx>>}, Positions(idx + 1, len - 1))
    ELSE Result("Ok", {<<"owner", idx>>}, <<>>)

\* parse_signers: more accounts than last_nonsigner_index + 1 make the
\* account at that index the multisig and the rest its signers.
ParseSigners(idx, len) ==
    IF len > idx + 1
    THEN Result("Ok", {<<"multisig", idx>>}, Positions(idx + 1, len - 1))
    ELSE Result("Ok", {<<"owner", idx>>}, <<>>)

\* Variant: check_num_accounts accepting one account fewer.
CheckNumAccountsOneShort(len, num) == len >= num - 1

\* check_num_accounts: a list shorter than num is InstructionKeyMismatch.
CheckNumAccounts(len, num) == len >= num

\* The accounts.iter().max() check: an empty list, or an index at or past
\* the number of account keys, is InstructionKeyMismatch.
KeysInBounds(len, keysOk) == len > 0 /\ keysOk

\* Every position of instruction.accounts the variant indexes.
ReadPositions(o, len) ==
    o.reads \cup (IF o.signer = NoSigner THEN {} ELSE {o.signer})

\* The json! of a variant and its parse_signers call or signer loop.
Output(o, len) ==
    LET core == {<<"core", p>> : p \in o.reads}
        sig  == ParseSigners(o.signer, len)
    IN CASE o.signer # NoSigner   -> Result("Ok", core \cup sig.fields, sig.signers)
         [] o.trailing # NoSigner -> Result("Ok", core, Positions(o.trailing, len - 1))
         [] OTHER                 -> Result("Ok", core, <<>>)

\* One parser: unpack the data (when it has any), check the key indices,
\* check the account count of the variant, then index the list; an index
\* past its end panics.
ParseWith(layout, hasData, op, dataOk, len, keysOk) ==
    LET o == layout[op] IN
    CASE hasData /\ ~dataOk            -> Fail("InstructionNotParsable")
      [] ~KeysInBounds(len, keysOk)    -> Fail("InstructionKeyMismatch")
      [] ~CheckNumAccounts(len, o.need) -> Fail("InstructionKeyMismatch")
      [] \E r \in ReadPositions(o, len) : r >= len -> Fail("Panic")
      [] OTHER                         -> Output(o, len)

ParseToken(op, dataOk, len, keysOk)      == ParseWith(TokenLayout, TRUE, op, dataOk, len, keysOk)
ParseName(op, dataOk, len, keysOk)       == ParseWith(NameLayout, TRUE, op, dataOk, len, keysOk)
ParseNft(op, dataOk, len, keysOk)        == ParseWith(NftLayout, TRUE, op, dataOk, len, keysOk)
ParseAssociated(op, dataOk, len, keysOk) == ParseWith(AssociatedLayout, FALSE, op, dataOk, len, keysOk)
\* parse_memo: the data must be UTF-8; accounts are not looked at.
ParseMemo(dataOk) ==
    IF dataOk THEN Result("Ok", {}, <<>>) ELSE Fail("InstructionNotParsable")

\* parse: look the program id up in PARSABLE_PROGRAM_IDS and dispatch.
Parse(p, op, dataOk, len, keysOk) ==
    CASE p = "PplToken" -> ParseToken(op, dataOk, len, keysOk)
      [] p = "PplName"  -> ParseName(op, dataOk, len, keysOk)
      [] p = "PplNft"   -> ParseNft(op, dataOk, len, keysOk)
      [] p = "PplAssociatedTokenAccount" -> ParseAssociated(op, dataOk, len, keysOk)
      [] p = "PplMemo"  -> ParseMemo(dataOk)
      [] OTHER          -> Fail("ProgramNotParsable")

-----------------------------------------------------------------------------
VARIABLES instr, result
vars == <<instr, result>>

NoInstr == [prog |-> "Unregistered", op |-> "None", dataOk |-> FALSE, len |-> 0, keysOk |-> FALSE]

\* Nothing decoded yet.
Init == instr = NoInstr /\ result = Fail("None")

Idle == instr = NoInstr

\* A transaction's compiled instruction is decoded (the status and RPC
\* paths call parse for every instruction of a transaction).
Decode ==
    /\ Idle
    /\ \E p \in Programs, dataOk, keysOk \in BOOLEAN, len \in 0..MaxAccounts :
         \E op \in Given(p) :
           /\ instr' = [prog |-> p, op |-> op, dataOk |-> dataOk, len |-> len, keysOk |-> keysOk]
           /\ result' = Parse(p, op, dataOk, len, keysOk)

\* The caller takes the result; the decoder is ready for the next one.
Return == ~Idle /\ instr' = NoInstr /\ result' = Fail("None")

Next == Decode \/ Return

Spec == Init /\ [][Next]_vars

-----------------------------------------------------------------------------
Kinds == {"None", "Ok", "ProgramNotParsable", "InstructionNotParsable",
          "InstructionKeyMismatch", "Panic"}
Pos   == 0..(MaxAccounts - 1)

TypeOK ==
    /\ instr.prog \in Programs /\ instr.len \in 0..MaxAccounts
    /\ instr.dataOk \in BOOLEAN /\ instr.keysOk \in BOOLEAN
    /\ result.kind \in Kinds
    /\ result.fields \subseteq {"core", "owner", "multisig"} \X Pos
    /\ result.signers \in Seq(Pos)

(* Short account lists are InstructionKeyMismatch, never an out-of-bounds *)
(* read (spec 4.3): no variant of any parser indexes instruction.accounts *)
(* past its end after check_num_*_accounts has passed.                    *)
NoOutOfBoundsRead == result.kind # "Panic"

(* The multisig disambiguation of parse_signers (spec 8): for a variant   *)
(* that accepts no fewer than N accounts, exactly N accounts report the   *)
(* last one as the owner, and N + K accounts (K > 0) report account N - 1 *)
(* as the multisig and the K trailing accounts as its signers.  N is what *)
(* the parser itself accepts, so the property ties the count check to the *)
(* last_nonsigner_index passed to parse_signers.                          *)
MinAccepted(p, op) ==
    LET ok == {n \in 0..MaxAccounts : Parse(p, op, TRUE, n, TRUE).kind # "InstructionKeyMismatch"}
    IN CHOOSE n \in ok : \A m \in ok : n <= m
HasAuthority(r) == \E x \in r.fields : x[1] \in {"owner", "multisig"}
SignerShape ==
    result.kind = "Ok" /\ HasAuthority(result) =>
        LET n == MinAccepted(instr.prog, instr.op) IN
        /\ instr.len = n => result.signers = <<>> /\ <<"owner", n - 1>> \in result.fields
        /\ instr.len > n => /\ <<"multisig", n - 1>> \in result.fields
                           /\ result.signers = Positions(n, instr.len - 1)

=============================================================================
