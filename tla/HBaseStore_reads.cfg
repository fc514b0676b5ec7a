\* Concurrent puts, deletes and reads over damaged prior rows; any RPC may
\* fail (transport error or TIOError) after any prefix of its rows.
CONSTANTS
    k1 = k1  k2 = k2  v1 = v1  v2 = v2  c1 = c1  c2 = c2
    Absent = Absent  Corrupt = Corrupt  Garbled = Garbled
    Keys <- MCKeys
    Vals <- MCVals
    Clients <- MCClients
    PriorCells <- MCPriorDamaged
    MaxRequests = 2
SPECIFICATION Spec
SYMMETRY Symm
INVARIANTS TypeOK ReadContract AckedPutsApplied
