--------------------------- MODULE MC_TokenAmount ---------------------------
(* Inputs of the amount renderings for TLC. *)
EXTENDS TokenAmount

\* Lamport amounts on both sides of one PUT and with long zero tails.
MCLamportSamples == {999999999, 1000000000, 1000000001, 1500000000, 2000000000, 2100000007}
=============================================================================
