------------------------------ MODULE HBaseStore ------------------------------
(***************************************************************************)
(* The HBase row-store client of storage-hbase (src/storage-hbase/src/     *)
(* hbase.rs) together with the part of the HBase Thrift2 server it relies  *)
(* on.  Every client call is one Thrift RPC; the server applies a          *)
(* putMultiple, deleteMultiple or getMultiple one row at a time, so the    *)
(* rows of one call interleave with the rows of other clients' calls, and  *)
(* a transport error can end a call after any prefix of its rows.  A cell  *)
(* of column family "x" is abstracted to what decoding can tell apart: a   *)
(* typed value of Vals, Corrupt (decompresses but does not decode) or      *)
(* Garbled (does not decompress).                                          *)
(***************************************************************************)
EXTENDS Naturals, Sequences, FiniteSets

CONSTANTS
    Keys,              \* row keys
    Vals,              \* typed payloads written by put_*_cells
    Clients,           \* processes holding an HBase connection
    Absent, Corrupt, Garbled,
    PriorCells,        \* what a cell may hold before this run (older writers)
    MaxRequests        \* bound on the number of client calls in a behaviour

Quals == {"bin", "proto"}
Cells == Vals \cup {Absent, Corrupt, Garbled}
Row   == [Quals -> Cells]

WriteOps == {"putBin", "putProto", "del"}
ReadOps  == {"getBin", "getPB", "getBins", "getPBs"}
Ops      == WriteOps \cup ReadOps

\* Results: Ok carries the value and the qualifier it was decoded from.
Ok(v, q)  == [kind |-> "Ok", val |-> v, enc |-> q]
Err(e)    == [kind |-> e, val |-> Absent, enc |-> "none"]
PutOk     == Ok(Absent, "none")
Pending   == Err("Pending")
ErrKinds  == {"RowNotFound", "ObjectNotFound", "ObjectCorrupt", "Io", "Thrift", "Panic"}
Results   == {Ok(v, q) : v \in Vals, q \in Quals} \cup {PutOk, Pending}
               \cup {Err(e) : e \in ErrKinds}

NoRow == [q \in Quals |-> Absent]
Idle  == [op |-> "idle", q |-> "bin", batch |-> <<>>, i |-> 1, applied |-> {},
          out |-> <<>>, snap |-> NoRow, res |-> Pending]

VARIABLES
    tbl,      \* the table: row key -> qualifier of family "x" -> cell
    cl,       \* per client: the call in progress and its result
    last,     \* per client: the last call it completed
    issued    \* number of calls started so far
vars == <<tbl, cl, last, issued>>

RowExists(r) == \E q \in Quals : r[q] # Absent
BatchKeys(b) == {b[j][1] : j \in DOMAIN b}
\* A batch is a sequence of distinct row keys paired with a payload.
KeySeqs == UNION {{s \in [1..n -> Keys] : \A a, b \in 1..n : a # b => s[a] # s[b]}
                    : n \in 1..Cardinality(Keys)}
WithVals(s, f) == [j \in DOMAIN s |-> <<s[j], f[s[j]]>>]
NoVals(s)      == [j \in DOMAIN s |-> <<s[j], Absent>>]

-----------------------------------------------------------------------------
(* Decoding of one cell: deserialize_bincode_cell_data and                 *)
(* deserialize_protobuf_cell_data.  A missing qualifier is ObjectNotFound, *)
(* decompress failing is Io (through ?), a decode failure ObjectCorrupt.   *)
DecodeCell(r, q) ==
    CASE r[q] = Absent  -> Err("ObjectNotFound")
      [] r[q] = Garbled -> Err("Io")
      [] r[q] = Corrupt -> Err("ObjectCorrupt")
      [] OTHER          -> Ok(r[q], q)

\* Variant: a fallback taken on every protobuf error, not only on not-found.
DeserializePBOrBinAnyErr(r) ==
    IF DecodeCell(r, "proto").kind = "Ok" THEN DecodeCell(r, "proto")
    ELSE DecodeCell(r, "bin")

\* deserialize_protobuf_or_bincode_cell_data: bincode only when the
\* protobuf qualifier is missing; any other protobuf error is returned.
DeserializePBOrBin(r) ==
    LET p == DecodeCell(r, "proto") IN
    IF p.kind = "ObjectNotFound" THEN DecodeCell(r, "bin") ELSE p

DecodeFor(op, r) ==
    IF op \in {"getBin", "getBins"} THEN DecodeCell(r, "bin") ELSE DeserializePBOrBin(r)

\* get_single_row_data followed by the decode of get_bincode_cell or
\* get_protobuf_or_bincode_cell: no row at all is RowNotFound.
SingleRowResult(op, r) ==
    IF RowExists(r) THEN DecodeFor(op, r) ELSE Err("RowNotFound")

\* get_bincode_cells returns one (key, Result) per row found;
\* get_protobuf_or_bincode_cells unwraps each decode and panics on an error.
MultiRowResult(op, out) ==
    IF op = "getPBs" /\ \E j \in DOMAIN out : DeserializePBOrBin(out[j].row).kind # "Ok"
    THEN Err("Panic")
    ELSE PutOk

-----------------------------------------------------------------------------
Init ==
    /\ tbl \in [Keys -> [Quals -> PriorCells]]
    /\ cl = [c \in Clients |-> Idle]
    /\ last = [c \in Clients |-> Idle]
    /\ issued = 0

Start(c, rec) ==
    /\ cl[c].op = "idle"
    /\ issued < MaxRequests
    /\ cl' = [cl EXCEPT ![c] = [Idle EXCEPT !.op = rec.op, !.q = rec.q,
                                            !.batch = rec.batch]]
    /\ issued' = issued + 1
    /\ UNCHANGED <<tbl, last>>

(* put_bincode_cells / put_protobuf_cells: serialize and compress_best     *)
(* each cell (an Io error returns before any RPC), then put_row_data sends *)
(* one putMultiple with the qualifier "bin" or "proto".                    *)
StartPut(c) ==
    \E op \in {"putBin", "putProto"}, s \in KeySeqs, f \in [Keys -> Vals] :
        Start(c, [op |-> op, q |-> IF op = "putBin" THEN "bin" ELSE "proto",
                  batch |-> WithVals(s, f)])

CompressFails(c) ==
    /\ cl[c].op \in {"putBin", "putProto"} /\ cl[c].res = Pending /\ cl[c].i = 1
    /\ cl[c].applied = {}
    /\ cl' = [cl EXCEPT ![c].res = Err("Io")]
    /\ UNCHANGED <<tbl, last, issued>>

(* The *_with_retry wrappers of HBaseConnection (puts, delete_rows and    *)
(* get_bincode_cells) open a new channel with client() and make a single  *)
(* attempt: a channel that does not open ends the call before any RPC.    *)
ConnectFails(c) ==
    /\ cl[c].op \in {"putBin", "putProto", "del", "getBins"}
    /\ cl[c].res = Pending /\ cl[c].i = 1
    /\ cl' = [cl EXCEPT ![c].res = Err("Thrift")]
    /\ UNCHANGED <<tbl, last, issued>>

\* delete_rows: one deleteMultiple removing only the given qualifier.
StartDelete(c) ==
    \E q \in Quals, s \in KeySeqs : Start(c, [op |-> "del", q |-> q, batch |-> NoVals(s)])

\* get_bincode_cell / get_protobuf_or_bincode_cell: one get.
StartGet(c) ==
    \E op \in {"getBin", "getPB"}, k \in Keys :
        Start(c, [op |-> op, q |-> "bin", batch |-> <<<<k, Absent>>>>])

\* get_bincode_cells / get_protobuf_or_bincode_cells: one getMultiple.
StartMultiGet(c) ==
    \E op \in {"getBins", "getPBs"}, s \in KeySeqs :
        Start(c, [op |-> op, q |-> "bin", batch |-> NoVals(s)])

\* The server applies the next row of a putMultiple.
ApplyPutRow(c) ==
    LET k == cl[c].batch[cl[c].i][1] IN
    /\ cl[c].op \in {"putBin", "putProto"} /\ cl[c].res = Pending
    /\ cl[c].i <= Len(cl[c].batch)
    /\ tbl' = [tbl EXCEPT ![k][cl[c].q] = cl[c].batch[cl[c].i][2]]
    /\ cl' = [cl EXCEPT ![c].i = @ + 1, ![c].applied = @ \cup {k}]
    /\ UNCHANGED <<last, issued>>

\* The server applies the next row of a deleteMultiple.  It returns an
\* empty list or throws TIOError, so a row it cannot delete ends the call
\* through RpcFails.
ApplyDeleteRow(c) ==
    LET k == cl[c].batch[cl[c].i][1] IN
    /\ cl[c].op = "del" /\ cl[c].res = Pending
    /\ cl[c].i <= Len(cl[c].batch)
    /\ tbl' = [tbl EXCEPT ![k][cl[c].q] = Absent]
    /\ cl' = [cl EXCEPT ![c].i = @ + 1, ![c].applied = @ \cup {k}]
    /\ UNCHANGED <<last, issued>>

\* The server reads the next row of a getMultiple; rows not found are not
\* in the response (decode_read_rows_response drops a TResult without row).
ReadNextRow(c) ==
    LET k == cl[c].batch[cl[c].i][1] IN
    /\ cl[c].op \in {"getBins", "getPBs"} /\ cl[c].res = Pending
    /\ cl[c].i <= Len(cl[c].batch)
    /\ cl' = [cl EXCEPT ![c].i = @ + 1,
                        ![c].out = IF RowExists(tbl[k])
                                   THEN Append(@, [key |-> k, row |-> tbl[k],
                                                   res |-> DecodeFor(cl[c].op, tbl[k])])
                                   ELSE @]
    /\ UNCHANGED <<tbl, last, issued>>

\* Variant: the get read again (retried) after it already has its result.
ReadRowAgain(c) ==
    LET k == cl[c].batch[1][1] IN
    /\ cl[c].op \in {"getBin", "getPB"}
    /\ cl' = [cl EXCEPT ![c].i = @ + 1, ![c].snap = tbl[k],
                        ![c].res = SingleRowResult(cl[c].op, tbl[k])]
    /\ UNCHANGED <<tbl, last, issued>>

\* A single get reads its row atomically and decodes it.
ReadRow(c) ==
    LET k == cl[c].batch[1][1] IN
    /\ cl[c].op \in {"getBin", "getPB"} /\ cl[c].res = Pending /\ cl[c].i = 1
    /\ cl' = [cl EXCEPT ![c].i = 2, ![c].snap = tbl[k],
                        ![c].res = SingleRowResult(cl[c].op, tbl[k])]
    /\ UNCHANGED <<tbl, last, issued>>

\* Variant: put_row_data mapping a failed putMultiple to Ok.
RpcFailsSwallowed(c) ==
    /\ cl[c].op # "idle" /\ cl[c].res = Pending
    /\ cl' = [cl EXCEPT ![c].res = IF cl[c].op \in WriteOps THEN PutOk ELSE Err("Thrift")]
    /\ UNCHANGED <<tbl, last, issued>>

\* The RPC fails (TIOError, transport error): the rows already applied stay.
RpcFails(c) ==
    /\ cl[c].op # "idle" /\ cl[c].res = Pending
    /\ cl' = [cl EXCEPT ![c].res = Err("Thrift")]
    /\ UNCHANGED <<tbl, last, issued>>

\* The RPC returns after the server went through every row.  put_row_data
\* maps the reply to Ok; delete_rows discards the (empty) returned list.
RpcReturns(c) ==
    /\ cl[c].op \in WriteOps \cup {"getBins", "getPBs"} /\ cl[c].res = Pending
    /\ cl[c].i > Len(cl[c].batch)
    /\ cl' = [cl EXCEPT ![c].res = MultiRowResult(cl[c].op, cl[c].out)]
    /\ UNCHANGED <<tbl, last, issued>>

\* The caller takes the result and is ready for its next call.
Finish(c) ==
    /\ cl[c].op # "idle" /\ cl[c].res # Pending
    /\ last' = [last EXCEPT ![c] = cl[c]]
    /\ cl' = [cl EXCEPT ![c] = Idle]
    /\ UNCHANGED <<tbl, issued>>

\* Every call has been made and answered.
Quiescent ==
    /\ issued = MaxRequests /\ \A c \in Clients : cl[c].op = "idle"
    /\ UNCHANGED vars

Next ==
    \/ \E c \in Clients :
          \/ StartPut(c) \/ StartDelete(c) \/ StartGet(c) \/ StartMultiGet(c)
          \/ ConnectFails(c) \/ CompressFails(c) \/ ApplyPutRow(c) \/ ApplyDeleteRow(c)
          \/ ReadNextRow(c) \/ ReadRow(c)
          \/ RpcFails(c) \/ RpcReturns(c) \/ Finish(c)
    \/ Quiescent

Spec == Init /\ [][Next]_vars

-----------------------------------------------------------------------------
TypeOK ==
    /\ tbl \in [Keys -> Row]
    /\ \A c \in Clients :
         /\ cl[c].op \in Ops \cup {"idle"} /\ cl[c].q \in Quals
         /\ cl[c].res \in Results /\ cl[c].snap \in Row
         /\ cl[c].applied \subseteq BatchKeys(cl[c].batch)
         /\ cl[c].i \in 1..(Len(cl[c].batch) + 1)
    /\ issued \in 0..MaxRequests

(* A write call that returns Ok has had every one of its rows applied by  *)
(* the server: a caller that sees success never has to retry, whatever     *)
(* transport errors and concurrent calls occurred.                         *)
AckedApplied(ops) ==
    \A c \in Clients :
        cl[c].op \in ops /\ cl[c].res = PutOk
            => cl[c].applied = BatchKeys(cl[c].batch)

\* The write acknowledgement of put_bincode_cells and put_protobuf_cells.
AckedPutsApplied == AckedApplied({"putBin", "putProto"})

(* The result of a read relates to the row as the server read it as the   *)
(* error taxonomy of the store says: RowNotFound exactly when the row has  *)
(* no cell; ObjectNotFound only for a row that exists; ObjectCorrupt only  *)
(* when a consulted cell does not decode; a value is the one in the cell   *)
(* it names; and get_protobuf_or_bincode_* returns bincode only when the   *)
(* row has no protobuf cell, never masking a corrupt or newer protobuf.    *)
Consulted(op) == IF op \in {"getBin", "getBins"} THEN {"bin"} ELSE Quals
ResultMatchesRow(op, r, res) ==
    /\ res.kind = "Ok" => res.enc \in Consulted(op) /\ res.val = r[res.enc]
    /\ res.kind = "ObjectCorrupt" => \E q \in Consulted(op) : r[q] = Corrupt
    /\ res.kind = "ObjectNotFound" => RowExists(r)
    /\ op \in {"getPB", "getPBs"} /\ res.enc = "bin" => r["proto"] = Absent
    /\ op \in {"getPB", "getPBs"} /\ r["proto"] \in Vals => res = Ok(r["proto"], "proto")
ReadContract ==
    \A c \in Clients :
        /\ cl[c].op \in {"getBin", "getPB"} /\ cl[c].i = 2 =>
              /\ ResultMatchesRow(cl[c].op, cl[c].snap, cl[c].res)
              /\ (cl[c].res.kind = "RowNotFound" <=> ~RowExists(cl[c].snap))
        /\ \A j \in DOMAIN cl[c].out :
              /\ RowExists(cl[c].out[j].row)
              /\ ResultMatchesRow(cl[c].op, cl[c].out[j].row, cl[c].out[j].res)

(* get_protobuf_or_bincode_cells never panics: a row it cannot decode is  *)
(* reported as an error, as every other read of the store does.           *)
NoPanic == \A c \in Clients : cl[c].res # Err("Panic")

(* A value put under a key and acknowledged is what the next read of that *)
(* key by the same caller returns (put then get round-trips), when no     *)
(* other call ran in between.                                              *)
PutThenGetRoundTrips ==
    \A c \in Clients :
        /\ cl[c].op = "getPB" /\ cl[c].i = 2
        /\ last[c].op \in {"putBin", "putProto"} /\ last[c].res = PutOk
        /\ cl[c].batch[1][1] \in BatchKeys(last[c].batch)
        => \E j \in DOMAIN last[c].batch :
              /\ last[c].batch[j][1] = cl[c].batch[1][1]
              /\ cl[c].res.val = last[c].batch[j][2]

=============================================================================
