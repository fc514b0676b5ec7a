\* parse_account_data on empty name-program data.
CONSTANTS
    TokenProgram = tokenId
    NameProgram = nameId
    NftProgram = nftId
    Unregistered = otherId
    Keys = {mintKey}
    Text = text
    None = None
    AccountLen = 165
    MintLen = 82
    MultisigLen = 355
    NftMetaLen = 330
    Lens <- MCLens
    Decimals <- MCDecimals
    Times <- MCTimes
    MaxSigners = 2
INIT Init
NEXT Next
INVARIANT NoPanic
