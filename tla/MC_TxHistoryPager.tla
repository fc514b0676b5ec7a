--------------------------- MODULE MC_TxHistoryPager ---------------------------
(* A history of five signatures over three slots: two in slot 30 (so a   *)
(* page boundary can fall inside a slot), one whose index is past its    *)
(* block's end, and one whose block is not stored.                       *)
EXTENDS TxHistoryPager

MCHistory ==
    << [slot |-> 30, index |-> 1], [slot |-> 30, index |-> 0],
       [slot |-> 20, index |-> 4], [slot |-> 10, index |-> 0],
       [slot |-> 30, index |-> 2] >>
MCBlockTxs == (30 :> 3) @@ (20 :> 1) @@ (10 :> NoBlock)
MCLimits == {0, 2, 3, 6}
MCChunkSizes == {1, 2, 4}
====
