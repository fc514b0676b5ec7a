--------------------------- MODULE RpcTokenAccounts ---------------------------
(***************************************************************************)
(* The jsonParsed listing of token-program accounts in                     *)
(* rpc/src/parsed_token_accounts.rs.  get_parsed_token_accounts walks the  *)
(* keyed accounts one at a time; for each it finds the mint                *)
(* (get_token_account_mint), takes the mint's decimals and metadata from   *)
(* its local mint_decimals cache or from the bank                          *)
(* (get_mint_owner_and_decimals, filling the cache on success), encodes    *)
(* the account, and keeps it only if it encoded as JSON.                   *)
(* get_parsed_token_account is the same for one account, without a cache. *)
(*                                                                         *)
(* The bank is fixed for the whole listing: the accounts were read from    *)
(* one Arc<Bank>.                                                          *)
(***************************************************************************)
EXTENDS AccountDecode

CONSTANTS
    Mints,           \* mint pubkeys (a subset of Keys)
    NativeMint,      \* ppl_token_native_mint()
    MintInfo,        \* mint -> its MintMeta account: the PDA of "MintMeta"
                     \* and the mint, ppl_token_native_min_info() for native
    NativeDecimals,  \* ppl_token::native_mint::DECIMALS
    Holders,         \* pubkeys of the token accounts listed
    Missing          \* no account at a pubkey

ASSUME NativeMint \in Mints /\ Mints \subseteq Keys

BankKeys == Holders \cup Mints \cup {MintInfo[m] : m \in Mints}

VARIABLES
    bank,       \* pubkey -> account data, or Missing
    queue,      \* the keyed accounts not yet taken by the iterator
    cache,      \* mint_decimals: mint -> (decimals, symbol, name, icon)
    listed      \* the RpcKeyedAccounts produced so far
vars == <<bank, queue, cache, listed>>

\* The clock only matters for name accounts, which are not listed here.
Clock == CHOOSE t \in Times : TRUE

\* Pack::unpack of a ppl_token Mint, and MintMeta::unpack of the metadata.
MintUnpacks(d) == d # Missing /\ d.len = MintLen /\ d.ok
MetaUnpacks(d) == d # Missing /\ d.ok

(***************************************************************************)
(* get_token_account_mint: an Account's mint is read from its first 32     *)
(* bytes, a Mint is its own mint, any other length has none.               *)
(***************************************************************************)
GetTokenAccountMint(d, pubkey) ==
    CASE d.len = AccountLen -> d.mint
      [] d.len = MintLen    -> pubkey
      [] OTHER              -> None

Found(decimals, s) == [kind |-> "ok", decimals |-> decimals, text |-> s]
NotFound == [kind |-> "err"]

(***************************************************************************)
(* get_mint_owner_and_decimals: the native mint has fixed decimals and     *)
(* needs its metadata account; any other mint must unpack, and its        *)
(* metadata, when the account exists, must unpack too ("" otherwise).      *)
(***************************************************************************)
GetMintOwnerAndDecimals(b, mint) ==
    IF mint = NativeMint
    THEN IF MetaUnpacks(b[MintInfo[mint]]) THEN Found(NativeDecimals, Text)
         ELSE NotFound
    ELSE IF ~MintUnpacks(b[mint]) THEN NotFound
    ELSE IF b[MintInfo[mint]] = Missing THEN Found(b[mint].decimals, "")
    ELSE IF MetaUnpacks(b[MintInfo[mint]]) THEN Found(b[mint].decimals, Text)
    ELSE NotFound

\* Variant: a failed lookup supplies decimals 0 instead of None.
AdditionalFromDefaultDecimals(r) ==
    IF r.kind = "ok"
    THEN [decimals |-> r.decimals, symbol |-> r.text, name |-> r.text,
          icon |-> r.text]
    ELSE [DefaultAdditionalData EXCEPT !.decimals = 0]

\* The AccountAdditionalData built from a lookup result.
AdditionalFrom(r) ==
    IF r.kind = "ok"
    THEN [decimals |-> r.decimals, symbol |-> r.text, name |-> r.text,
          icon |-> r.text]
    ELSE DefaultAdditionalData

\* UiAccount::encode with JsonParsed: the parsed value, or a binary
\* fallback when parsing fails.
Encode(d, add) ==
    LET r == ParseAccountData(TokenProgram, d, add, Clock)
    IN IF r.kind = "ok" THEN [enc |-> "json", val |-> r.val]
       ELSE [enc |-> "binary"]

\* get_parsed_token_account: one account, looked up directly in the bank.
GetParsedTokenAccount(b, key) ==
    LET m   == GetTokenAccountMint(b[key], key)
        add == IF m = None THEN None
               ELSE LET r == GetMintOwnerAndDecimals(b, m)
                    IN IF r.kind = "ok" THEN AdditionalFrom(r) ELSE None
    IN Encode(b[key], add)

-----------------------------------------------------------------------------
(***************************************************************************)
(* The bank: token accounts of either mint, initialized or not; a mint     *)
(* that is a valid Mint, an uninitialized one, or absent (the native mint  *)
(* is always the valid Mint of NativeDecimals); metadata that unpacks,     *)
(* does not, or is absent.                                                 *)
(***************************************************************************)
HolderData ==
    {[len |-> AccountLen, ok |-> o, tag |-> 0, mint |-> m,
      decimals |-> CHOOSE x \in Decimals : TRUE, delegate |-> FALSE,
      native |-> FALSE, close |-> FALSE, signers |-> 0,
      expire |-> Clock] : o \in BOOLEAN, m \in Mints}
MintData ==
    {[len |-> MintLen, ok |-> o, tag |-> 0, mint |-> CHOOSE k \in Keys : TRUE,
      decimals |-> x, delegate |-> FALSE, native |-> FALSE, close |-> FALSE,
      signers |-> 0, expire |-> Clock] : o \in BOOLEAN, x \in Decimals}
MetaData ==
    {[len |-> 1, ok |-> o, tag |-> 0, mint |-> CHOOSE k \in Keys : TRUE,
      decimals |-> CHOOSE x \in Decimals : TRUE, delegate |-> FALSE,
      native |-> FALSE, close |-> FALSE, signers |-> 0,
      expire |-> Clock] : o \in BOOLEAN}

Banks ==
    {b \in [BankKeys -> HolderData \cup MintData \cup MetaData \cup {Missing}] :
        /\ \A h \in Holders : b[h] \in HolderData
        /\ \A m \in Mints \ {NativeMint} : b[m] \in MintData \cup {Missing}
        /\ b[NativeMint] \in {d \in MintData : d.ok /\ d.decimals = NativeDecimals}
        /\ \A m \in Mints : b[MintInfo[m]] \in MetaData \cup {Missing}}

\* The keyed accounts in any order: the holders and the mints that exist.
Orders(b) ==
    LET ks == {k \in Holders \cup Mints : b[k] # Missing}
    IN {s \in [1..Cardinality(ks) -> ks] :
           \A i, j \in DOMAIN s : i # j => s[i] # s[j]}

\* Between listings: no bank is being read.
Init ==
    /\ bank = None /\ queue = <<>>
    /\ cache = [m \in Mints |-> None] /\ listed = <<>>
Idle == bank = None

\* A call of get_parsed_token_accounts: the keyed accounts of one bank in
\* the order the scan yields them, with a fresh mint_decimals map.
List ==
    /\ Idle
    /\ bank' \in Banks
    /\ queue' \in Orders(bank')
    /\ UNCHANGED <<cache, listed>>

\* Variant: the mint's decimals cached as soon as the Mint unpacks, before
\* its metadata is read.
NextAccountCachePartial ==
    /\ queue # <<>>
    /\ LET k   == Head(queue)
           m   == GetTokenAccountMint(bank[k], k)
           hit == m # None /\ cache[m] # None
           r   == IF m = None THEN NotFound
                  ELSE IF hit THEN cache[m]
                  ELSE IF m # NativeMint /\ MintUnpacks(bank[m])
                       THEN Found(bank[m].decimals, "")
                  ELSE GetMintOwnerAndDecimals(bank, m)
           e   == Encode(bank[k], IF m = None THEN None ELSE AdditionalFrom(r))
       IN /\ cache' = IF m # None /\ ~hit /\ r.kind = "ok"
                      THEN [cache EXCEPT ![m] = r] ELSE cache
          /\ listed' = IF e.enc = "json"
                       THEN Append(listed, [pubkey |-> k, account |-> e.val])
                       ELSE listed
    /\ queue' = Tail(queue)
    /\ UNCHANGED bank

\* Variant: a failed lookup is cached as well.
NextAccountCachesFailure ==
    /\ queue # <<>>
    /\ LET k   == Head(queue)
           m   == GetTokenAccountMint(bank[k], k)
           hit == m # None /\ cache[m] # None
           r   == IF m = None THEN NotFound
                  ELSE IF hit THEN cache[m] ELSE GetMintOwnerAndDecimals(bank, m)
           e   == Encode(bank[k], IF m = None THEN None ELSE AdditionalFrom(r))
       IN /\ cache' = IF m # None /\ ~hit THEN [cache EXCEPT ![m] = r] ELSE cache
          /\ listed' = IF e.enc = "json"
                       THEN Append(listed, [pubkey |-> k, account |-> e.val])
                       ELSE listed
    /\ queue' = Tail(queue)
    /\ UNCHANGED bank

(***************************************************************************)
(* One step of get_parsed_token_accounts' filter_map: the mint of the next *)
(* account, its decimals and metadata from the cache or the bank (cached   *)
(* on success only), the AccountAdditionalData (all None after a failed    *)
(* lookup), UiAccount::encode, and the account kept only as JSON.          *)
(***************************************************************************)
NextAccount ==
    /\ queue # <<>>
    /\ LET k   == Head(queue)
           m   == GetTokenAccountMint(bank[k], k)
           hit == m # None /\ cache[m] # None
           r   == IF m = None THEN NotFound
                  ELSE IF hit THEN cache[m] ELSE GetMintOwnerAndDecimals(bank, m)
           e   == Encode(bank[k], IF m = None THEN None ELSE AdditionalFrom(r))
       IN /\ cache' = IF m # None /\ ~hit /\ r.kind = "ok"
                      THEN [cache EXCEPT ![m] = r] ELSE cache
          /\ listed' = IF e.enc = "json"
                       THEN Append(listed, [pubkey |-> k, account |-> e.val])
                       ELSE listed
    /\ queue' = Tail(queue)
    /\ UNCHANGED bank

\* The iterator is exhausted: the listing is returned and the map dropped.
Return ==
    /\ ~Idle /\ queue = <<>>
    /\ bank' = None /\ cache' = [m \in Mints |-> None] /\ listed' = <<>>
    /\ UNCHANGED queue

Next == List \/ NextAccount \/ Return
Spec == Init /\ [][Next]_vars

-----------------------------------------------------------------------------
\* The cache holds only successful lookups, each with u8 decimals and a
\* stored or empty string; a listed entry is a parsed account of a key.
TypeOK ==
    /\ cache \in [Mints -> [kind: {"ok"}, decimals: Decimals, text: {Text, ""}]
                            \cup {None}]
    /\ \A i \in DOMAIN listed : listed[i].pubkey \in Holders \cup Mints

(***************************************************************************)
(* The cache is transparent: every step of the batch listing produces      *)
(* exactly what get_parsed_token_account produces for that account on the  *)
(* same bank, whatever was looked up and cached for earlier accounts.      *)
(***************************************************************************)
CacheTransparent ==
    [][queue # <<>> /\ queue' = Tail(queue) =>
        LET k == Head(queue)
            e == GetParsedTokenAccount(bank, k)
        IN listed' = IF e.enc = "json"
                     THEN Append(listed, [pubkey |-> k, account |-> e.val])
                     ELSE listed]_vars

\* A mint's decimals as the chain holds them.
MintDecimals(m) ==
    IF m = NativeMint THEN NativeDecimals ELSE bank[m].decimals

(***************************************************************************)
(* The listing fails closed on decimals: a token account is listed with    *)
(* parsed amounts only when its mint resolves, and then with exactly that  *)
(* mint's decimals, never a default.                                       *)
(***************************************************************************)
DecimalsFromMint ==
    \A i \in DOMAIN listed :
        LET a == listed[i].account.parsed
            m == bank[listed[i].pubkey].mint
        IN a.type = "account" =>
             /\ m = NativeMint \/ MintUnpacks(bank[m])
             /\ a.decimals = MintDecimals(m)

(***************************************************************************)
(* Once the listing is complete, every initialized token account whose     *)
(* mint has decimals is in it: a mint's display metadata is optional       *)
(* context for the decoder, not a condition for listing its accounts.      *)
(***************************************************************************)
ListedWhenDecodable ==
    ~Idle /\ queue = <<>> =>
        \A h \in Holders :
            bank[h].ok /\ (bank[h].mint = NativeMint \/ MintUnpacks(bank[bank[h].mint]))
                => \E i \in DOMAIN listed : listed[i].pubkey = h

====
