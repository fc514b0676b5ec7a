\* The two parse_name variants that read accounts[6] and accounts[7].
CONSTANTS
    TokenOps <- StandardTokenOps
    NameOps <- UncheckedNameOps
    NftOps <- AllNftOps
    MaxAccounts = 11
SPECIFICATION Spec
INVARIANT NoOutOfBoundsRead
