------------------------------ MODULE HBaseScan ------------------------------
(***************************************************************************)
(* The range scans of storage-hbase/src/hbase.rs: get_row_keys and         *)
(* get_row_data build a TScan from the optional start and end keys (the    *)
(* limit field is commented out), pass rows_limit to getScannerResults as *)
(* numRows, and decode the rows with decode_read_rows_response.            *)
(*                                                                         *)
(* Row keys are the naturals of RowKeys in the lexical order of the key    *)
(* strings.  A row is its key and the qualifiers of family x it holds.     *)
(***************************************************************************)
EXTENDS Integers, Sequences, SequencesExt, FiniteSets

CONSTANTS
    RowKeys,   \* row keys, ordered as the key strings
    Limits,    \* rows_limit values (i32)
    None       \* Option::None (a model value)

\* A row with no cell does not exist.
Absent == {}
Cells == {{"bin"}, {"proto"}, {"bin", "proto"}}
Tables == [RowKeys -> Cells \cup {Absent}]

\* Variant: the end key left out of the TScan.
TScanNoStop(startAt, endAt) == [start_row |-> startAt, stop_row |-> None]
\* TScan { start_row, stop_row, ..Default::default() }
TScan(startAt, endAt) == [start_row |-> startAt, stop_row |-> endAt]

(***************************************************************************)
(* The HBase Thrift server's getScannerResults(table, scan, numRows): the *)
(* rows from start_row (inclusive) to stop_row (exclusive) in key order,   *)
(* read with scanner.next(numRows), which takes at most numRows rows: none *)
(* for 0.  The server is not part of the repository.                      *)
(***************************************************************************)
InScan(scan, k) ==
    /\ scan.start_row = None \/ scan.start_row <= k
    /\ scan.stop_row = None \/ k < scan.stop_row
GetScannerResults(table, scan, numRows) ==
    LET keys == SetToSortSeq({k \in RowKeys : table[k] # Absent /\ InScan(scan, k)}, <)
    IN [i \in 1..Min({numRows, Len(keys)}) |-> [row |-> keys[i], columns |-> table[keys[i]]]]

\* decode_read_rows_response: each TResult with a row key becomes the key
\* and its (qualifier, value) cells.  The keys and qualifiers this client
\* writes are UTF-8, so no row or cell is dropped.
DecodeReadRowsResponse(results) ==
    [i \in DOMAIN results |-> [key |-> results[i].row, data |-> results[i].columns]]

GetRowData(table, startAt, endAt, limit) ==
    DecodeReadRowsResponse(GetScannerResults(table, TScan(startAt, endAt), limit))
GetRowKeys(table, startAt, endAt, limit) ==
    LET rows == GetRowData(table, startAt, endAt, limit)
    IN [i \in DOMAIN rows |-> rows[i].key]

VARIABLES call, out
vars == <<call, out>>

Init == call = None /\ out = None
Idle == call = None

\* One call of either scan over a table; the Thrift call may fail (?).
Scan ==
    /\ Idle
    /\ \E table \in Tables, op \in {"keys", "data"}, limit \in Limits,
          startAt \in RowKeys \cup {None}, endAt \in RowKeys \cup {None} :
         /\ call' = [table |-> table, op |-> op, limit |-> limit,
                     startAt |-> startAt, endAt |-> endAt]
         /\ \/ out' = [kind |-> "err"]
            \/ out' = [kind |-> "ok",
                       val |-> IF op = "keys" THEN GetRowKeys(table, startAt, endAt, limit)
                               ELSE GetRowData(table, startAt, endAt, limit)]

Return == ~Idle /\ call' = None /\ out' = None

Next == Scan \/ Return
Spec == Init /\ [][Next]_vars
-----------------------------------------------------------------------------
\* The rows of the table from startAt up to endAt, in key order.
RangeRows(c) ==
    SetToSortSeq({k \in RowKeys : c.table[k] # Absent
                     /\ (c.startAt = None \/ c.startAt <= k)
                     /\ (c.endAt = None \/ k < c.endAt)}, <)

(* The range-scan contract (spec section 5, the doc comments of both     *)
(* functions): the listing starts at startAt, stops before endAt, keeps   *)
(* key order, and holds the first rows_limit rows of the range, or every  *)
(* row of it when rows_limit is zero; get_row_data pairs each key with    *)
(* its own cells.                                                         *)
ScanContract ==
    out # None /\ out.kind = "ok" =>
      LET keys == RangeRows(call)
          n    == IF call.limit = 0 THEN Len(keys) ELSE Min({call.limit, Len(keys)})
          want == SubSeq(keys, 1, n)
      IN IF call.op = "keys" THEN out.val = want
         ELSE out.val = [i \in 1..n |-> [key |-> want[i], data |-> call.table[want[i]]]]
====
