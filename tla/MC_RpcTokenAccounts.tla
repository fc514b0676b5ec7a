-------------------------- MODULE MC_RpcTokenAccounts --------------------------
EXTENDS RpcTokenAccounts

CONSTANTS m1, native, info1, nativeInfo, h1, h2

MCMints == {m1, native}
MCMintInfo == [m \in MCMints |-> IF m = m1 THEN info1 ELSE nativeInfo]
MCHolders == {h1, h2}
MCLens == {1, 82, 165}
MCDecimals == {2, 9}
=============================================================================
