------------------------- MODULE InstructionVariants -------------------------
(* The instruction variants each parser of transaction-status is given.   *)
\* The variants of the upstream token program.
StandardTokenOps ==
    {"InitializeMint", "InitializeAccount", "InitializeAccount2", "InitializeMultisig",
     "Transfer", "Approve", "Revoke", "SetAuthority", "MintTo", "Burn", "CloseAccount",
     "FreezeAccount", "ThawAccount", "TransferChecked", "ApproveChecked",
     "MintToChecked", "BurnChecked", "SyncNative", "InitMintMetaAccount"}
\* The token metadata variants that pass an authority to parse_signers.
MetaTokenOps == {"UpdateSymbol", "UpdateName", "UpdateIcon", "CreateMintMetaAccount"}
AllTokenOps  == StandardTokenOps \cup MetaTokenOps

\* parse_name variants whose reads stay below their count check.
CheckedNameOps ==
    {"CreateTopDomain", "CreateDomain", "CreateRareDomain", "CreateDomainResolveAccount",
     "UpdateDomainResolveAccount", "Renewal", "SetTopReceipt", "Transfer"}
UncheckedNameOps == {"CloseDomainResolveAccount", "UnbindAddressAccount"}
\* The variants of parse_nft.
AllNftOps ==
    {"Transfer", "Freeze", "Thaw", "InitializeMint", "MintTo", "Update", "SetAuthority", "Burn"}
====
