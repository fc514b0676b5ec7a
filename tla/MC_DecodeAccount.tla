--------------------------- MODULE MC_DecodeAccount ---------------------------
EXTENDS DecodeAccount


\* ppl_token packed lengths: Mint 82, Account 165, Multisig 355; a NFT
\* MetaAccount length; 0 and 1 stand for empty and unrecognised data.
MCLens == {0, 1, 82, 165, 355, 330}
MCDecimals == {0, 2}
MCTimes == {0, 1, 2}
=============================================================================
