\* One getMultiple of get_protobuf_or_bincode_cells over damaged rows.
CONSTANTS
    k1 = k1  k2 = k2  v1 = v1  v2 = v2  c1 = c1  c2 = c2
    Absent = Absent  Corrupt = Corrupt  Garbled = Garbled
    Keys <- MCKeys
    Vals <- MCVals
    Clients <- MCClients
    PriorCells <- MCPriorDamaged
    MaxRequests = 1
SPECIFICATION Spec
SYMMETRY Symm
INVARIANT NoPanic
