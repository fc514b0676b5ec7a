\* Accounts left out of the listing when mint metadata is missing or bad.
CONSTANTS
    TokenProgram = tokenId
    NameProgram = nameId
    NftProgram = nftId
    Unregistered = otherId
    None = None
    Missing = Missing
    Text = text
    AccountLen = 165
    MintLen = 82
    MultisigLen = 355
    NftMetaLen = 330
    MaxSigners = 0
    Times = {0}
    m1 = m1
    native = native
    info1 = info1
    nativeInfo = nativeInfo
    h1 = h1
    h2 = h2
    Keys <- MCMints
    Mints <- MCMints
    NativeMint = native
    MintInfo <- MCMintInfo
    Holders <- MCHolders
    Lens <- MCLens
    Decimals <- MCDecimals
    NativeDecimals = 9
INIT Init
NEXT Next
INVARIANT ListedWhenDecodable
