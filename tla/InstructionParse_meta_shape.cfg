\* The token metadata variants of parse_token.
CONSTANTS
    TokenOps <- MetaTokenOps
    NameOps <- CheckedNameOps
    NftOps <- AllNftOps
    MaxAccounts = 11
SPECIFICATION Spec
INVARIANT SignerShape
