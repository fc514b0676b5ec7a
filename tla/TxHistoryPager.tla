---------------------------- MODULE TxHistoryPager ----------------------------
(***************************************************************************)
(* transaction_history of ledger-tool/src/hbase.rs: the loop that pages    *)
(* through the signatures of an address with                               *)
(* get_confirmed_signatures_for_address, prints each one and, with         *)
(* --show-transactions, looks its transaction up in a whole block that it  *)
(* keeps in loaded_block across signatures and pages.                      *)
(*                                                                         *)
(* The address's history is the sequence History, newest first; a         *)
(* signature is its position in it.  LedgerStorage is not part of the      *)
(* repository: its two calls are modelled by their contract, with a        *)
(* transport error possible on every call.                                 *)
(***************************************************************************)
EXTENDS Integers, Sequences, SequencesExt

CONSTANTS
    History,     \* sequence of [slot, index] records, newest first
    BlockTxs,    \* slot -> number of transactions of the stored block
    NoBlock,     \* BlockTxs value of a slot whose block is not stored
    Limits,      \* --limit values
    ChunkSizes,  \* --query-chunk-size values
    None         \* Option::None (a model value)

N == Len(History)
Sigs == 1..N
SlotOf(s) == History[s].slot

(***************************************************************************)
(* LedgerStorage::get_confirmed_signatures_for_address: the signatures     *)
(* older than before (0: none given) and newer than until (N + 1: none     *)
(* given), newest first, at most n of them.                               *)
(***************************************************************************)
\* Variant: a storage that does not stop at until or at the end.
GetConfirmedSignaturesForAddressPastEnd(before, until, n) ==
    [i \in 1..n |-> before + i]
GetConfirmedSignaturesForAddress(before, until, n) ==
    [i \in 1..Max({0, Min({n, until - before - 1})}) |-> before + i]

\* LedgerStorage::get_confirmed_block can return the block of slot.
BlockStored(slot) == BlockTxs[slot] # NoBlock

\* What is printed below a signature: nothing, the transaction at index of
\* the block of slot that println_transaction shows, or a message.
Slots == DOMAIN BlockTxs
Tx(slot, index) == [kind |-> "tx", slot |-> slot, index |-> index]
Msg(kind) == [kind |-> kind, slot |-> None, index |-> None]
Details == {Msg(k) : k \in {"-", "corrupt", "unable"}} \cup
           {Tx(sl, i) : sl \in Slots, i \in {h.index : h \in Range(History)}}

VARIABLES
    args,     \* [limit, before, until, chunk, show]: the command line
    limit,    \* the remaining limit
    before,   \* the before cursor
    page,     \* the results of the current page not yet printed
    loaded,   \* the slot of loaded_block, or None
    pc,       \* "query", "print", "detail", "done" or "failed"
    out       \* the printed signatures with their details
vars == <<args, limit, before, page, loaded, pc, out>>

\* The transaction-history arguments: --limit and --query-chunk-size pass
\* is_slot (0 included), --before and --until are optional signatures in
\* either order, --show-transactions is a flag.
Args == [limit: Limits, before: {0} \cup Sigs, until: Sigs \cup {N + 1},
         chunk: ChunkSizes, show: BOOLEAN]

Init ==
    /\ args \in Args
    /\ limit = args.limit /\ before = args.before
    /\ page = <<>> /\ loaded = None /\ pc = "query" /\ out = <<>>

(***************************************************************************)
(* One iteration of while limit > 0: query a chunk, stop on an empty page, *)
(* otherwise move before to the page's last signature and take the page   *)
(* off the limit.                                                         *)
(***************************************************************************)
ChunkOf(l, c) == Min({l, c})
\* Variant: the cursor moved to the newest signature of the page.
NextCursorFirst(res) == Head(res)
\* before = Some(results.last().unwrap().0.signature)
NextCursor(res) == Last(res)
Query ==
    /\ pc = "query"
    /\ IF limit = 0 THEN pc' = "done" /\ UNCHANGED <<limit, before, page>>
       ELSE LET res == GetConfirmedSignaturesForAddress(
                           before, args.until, ChunkOf(limit, args.chunk))
            IN IF res = <<>> THEN pc' = "done" /\ UNCHANGED <<limit, before, page>>
               ELSE /\ before' = NextCursor(res)
                    /\ limit' = Max({0, limit - Len(res)})
                    /\ page' = res
                    /\ pc' = "print"
    /\ UNCHANGED <<args, loaded, out>>

\* The query fails and ? returns the error from the command.
QueryFails ==
    /\ pc = "query" /\ limit > 0 /\ pc' = "failed"
    /\ UNCHANGED <<args, limit, before, page, loaded, out>>

\* The signature line; without --show-transactions the next one follows.
PrintSignature ==
    /\ pc = "print" /\ page # <<>>
    /\ out' = Append(out, [sig |-> Head(page), detail |-> Msg("-")])
    /\ IF args.show THEN pc' = "detail" /\ UNCHANGED page
       ELSE page' = Tail(page) /\ UNCHANGED pc
    /\ UNCHANGED <<args, limit, before, loaded>>

\* The end of the for loop over a page.
NextPage ==
    /\ pc = "print" /\ page = <<>> /\ pc' = "query"
    /\ UNCHANGED <<args, limit, before, page, loaded, out>>

SetDetail(d) == out' = [out EXCEPT ![Len(out)].detail = d]
DoneWithSignature == page' = Tail(page) /\ pc' = "print"

(***************************************************************************)
(* The inner loop, one iteration per step.  A loaded_block of the          *)
(* signature's slot answers it: transactions.get(index), corrupt when out  *)
(* of range.  Otherwise get_confirmed_block: an error is printed and ends  *)
(* the loop, a block replaces loaded_block and the loop goes round again.  *)
(***************************************************************************)
\* Variant: any loaded_block answers, whatever its slot.
CachedBlockHitAnySlot(s) == loaded # None
CachedBlockHit(s) == loaded # None /\ loaded = SlotOf(s)
\* Variant: the fetched block is not kept in loaded_block.
LoadBlockDropped(slot) == loaded' = loaded
LoadBlock(slot) == loaded' = slot
TxAt(s) ==
    IF History[s].index < BlockTxs[loaded] THEN Tx(loaded, History[s].index)
    ELSE Msg("corrupt")
ShowTransaction ==
    /\ pc = "detail"
    /\ LET s == Head(page) IN
       CASE CachedBlockHit(s) ->
              SetDetail(TxAt(s)) /\ DoneWithSignature /\ UNCHANGED loaded
         [] BlockStored(SlotOf(s)) ->
              LoadBlock(SlotOf(s)) /\ UNCHANGED <<out, page, pc>>
         [] OTHER ->
              SetDetail(Msg("unable")) /\ DoneWithSignature /\ UNCHANGED loaded
    /\ UNCHANGED <<args, limit, before>>

\* get_confirmed_block fails on a stored block: the error is printed.
BlockFetchFails ==
    /\ pc = "detail"
    /\ ~CachedBlockHit(Head(page)) /\ BlockStored(SlotOf(Head(page)))
    /\ SetDetail(Msg("unable")) /\ DoneWithSignature
    /\ UNCHANGED <<args, limit, before, loaded>>

\* The command has returned.
Terminated == pc \in {"done", "failed"} /\ UNCHANGED vars

Step == Query \/ PrintSignature \/ NextPage \/ ShowTransaction
Next == Step \/ QueryFails \/ BlockFetchFails \/ Terminated

(* The command is one sequential task, so its own steps are weakly fair. *)
(* Storage errors are the environment's choice and get no fairness: the  *)
(* loop must end even when the storage never fails.                      *)
Spec == Init /\ [][Next]_vars /\ WF_vars(Step)
-----------------------------------------------------------------------------
TypeOK ==
    /\ args \in Args /\ limit \in 0..args.limit /\ before \in {0} \cup Sigs
    /\ page \in Seq(Sigs) /\ loaded \in Slots \cup {None}
    /\ pc \in {"query", "print", "detail", "done", "failed"}
    /\ out \in Seq([sig: Sigs, detail: Details])

\* The signatures the command should list: older than --before, newer
\* than --until, newest first.
Window == [i \in 1..(args.until - args.before - 1) |-> args.before + i]
Printed == [k \in 1..Len(out) |-> out[k].sig]

(* The pages fit together: the printed signatures are always the newest  *)
(* ones of the window, in order and each once, never more than --limit,  *)
(* and when the loop ends without an error all min(limit, |window|) of   *)
(* them have been printed.  It fails if the before cursor, the limit     *)
(* accounting or the chunk size of the paging loop is off.               *)
HistoryListed ==
    /\ IsPrefix(Printed, Window)
    /\ Len(out) <= args.limit
    /\ pc = "done" => Len(out) = Min({args.limit, Len(Window)})

(* The transaction shown under a signature comes from the block of that  *)
(* signature's slot at its index, though loaded_block is kept across     *)
(* signatures and pages; "corrupt" only when that block has no such      *)
(* index; and with --show-transactions every finished signature has a    *)
(* detail line.                                                          *)
DetailsMatch ==
    \A k \in 1..Len(out) :
      LET e == out[k]
          slot == SlotOf(e.sig)
      IN /\ e.detail.kind = "tx" =>
                e.detail = Tx(slot, History[e.sig].index)
         /\ e.detail.kind = "corrupt" =>
                BlockStored(slot) /\ History[e.sig].index >= BlockTxs[slot]
         /\ (e.detail.kind = "-") <=> (~args.show \/ (k = Len(out) /\ pc = "detail"))

(* The command returns: every page shrinks the limit or ends the loop,   *)
(* and the inner loop fetches a block at most once per signature.        *)
Terminates == <>(pc \in {"done", "failed"})

====
