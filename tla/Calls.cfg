\* Amounts 0..120 with 0..6 decimals (and a few past 2^10 for the f64
\* ui_amount, whose significand is reduced to 10 bits) and usize reduced to 16 bits (10^d
\* fails from d = 5 on); u128 reduced to 6 bits and 10^6 micro-lamports to
\* 10 so fees saturate; parse_account_data over small per-program inputs; every parser
\* over account lists of 0..11 accounts (one more than the largest count check);
\* collect_token_balances over every bank of two holders and one mint;
\* sessions of three feature calls over two named ids and one other;
\* compare_blocks over every pair of slot listings from three slots;
\* the token-account listing over every bank of two holders and two mints
\* in every order; both range scans over every table of three rows with
\* limits 1 and 2 (0 is HBaseScan_zero.cfg); the non-circulating supply
\* over every bank of three accounts and every stale ProgramId index;
\* put_to_lamports over every fraction of up to four digits after an
\* empty or a one-digit integer part, with the f64
\* significand reduced to 14 bits and LAMPORTS_PER_PUT to 1000; sessions
\* of three put-tokens token calls over every chain of a sender account
\* and two mints, every parsed args value, allocation lists of up to two
\* amounts, and fee payer balances on both sides of fees plus rent;
\* ppl_token_amount of every UI amount n / 10^k, n in 0..100 or 1000..1100
\* and k <= 3, at
\* 0..5 decimals (10^5 overflows the 16-bit usize); FeeStructure::new and
\* default with each amount in turn over 0 or 2 plus a fraction of up to
\* three digits.
CONSTANTS
    MaxAmount = 120
    MaxDecimals = 6
    LamportSamples <- MCLamportSamples
    AmountBits = 16
    UsizeBits = 16
    MaxBalance = 12
    UiFloatBits = 10
    UiSamples <- MCUiSamples
    Bits = 6
    Micro = 10
    MaxCount = 6
    Rates = {0, 5, 40}
    BinFees = {0, 30, 63}
    TokenProgram = tokenId
    NameProgram = nameId
    NftProgram = nftId
    Unregistered = otherId
    Keys = {mintKey}
    Text = text
    None = None
    AccountLen = 165
    MintLen = 82
    MultisigLen = 355
    NftMetaLen = 330
    Lens <- MCLens
    Decimals <- MCDecimals
    Times <- MCTimes
    MaxSigners = 2
    TokenOps <- StandardTokenOps
    NameOps <- CheckedNameOps
    NftOps <- AllNftOps
    MaxAccounts = 11
    SystemProgram = systemId
    NativeMint = nativeMint
    NativeDecimals = 9
    Holders = {h1, h2}
    Mints = {m1}
    Missing = Missing
    h1 = h1
    h2 = h2
    m1 = m1
    FeatureNames = {f1, f2}
    OtherIds = {f3}
    Slots = {0, 5}
    MaxOps = 3
    SlotRange = {1, 2, 3}
    info1 = info1
    nativeInfo = nativeInfo
    RowKeys = {1, 2, 3}
    Limits = {1, 2}
    StakeProgram = stakeId
    OtherProgram = otherOwner
    Pubkeys = {fixedKey, a1, a2}
    FixedKey = fixedKey
    ListedKeys = {}
    Balances = {1, 2}
    LamportsPerPut = 1000
    FloatBits = 14
    FracDigits = 4
    TokenAccount = tokenAcct
    Wallet = wallet
    CliMints = {mintA, mintB}
    DefaultKey = defaultKey
    CliDecimals = {2, 6}
    TokenAmounts = {1, 2}
    FeeValues = {1}
    Rent = 1
    BalanceValues = {1, 2}
    MaxCalls = 3
    MaxFracDigits = 3
    MaxTokenDecimals = 5
SPECIFICATION Spec
INVARIANTS AmountTypeOK ExactRendering TrimmedRendering UiAmountProjection
INVARIANTS FeeTypeOK FeeIsCeiling PriorityIsFloor MaxFeeSaturates
INVARIANTS DecodeTypeOK DecodeContract
INVARIANTS ParseTypeOK NoOutOfBoundsRead SignerShape
INVARIANTS BalancesTypeOK BalancesMatchBanks
INVARIANTS FeatureTypeOK FeaturePartition SummaryCorrect
INVARIANTS ListingTypeOK DecimalsFromMint SupplyMatches
INVARIANTS PutToLamportsApprox TransferMatchesChain CheckBalancesExact
INVARIANTS PplTokenAmountBounded FeeStructureNewExact
PROPERTY CacheTransparent
