\* One caller: puts under both encodings, then reads the key back.
CONSTANTS
    k1 = k1  k2 = k2  v1 = v1  v2 = v2  c1 = c1  c2 = c2
    Absent = Absent  Corrupt = Corrupt  Garbled = Garbled
    Keys <- MCKeys
    Vals <- MCVals
    Clients <- MCOneClient
    PriorCells <- MCPriorEmpty
    MaxRequests = 3
SPECIFICATION Spec
SYMMETRY Symm
INVARIANT PutThenGetRoundTrips
