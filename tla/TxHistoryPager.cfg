\* Five signatures, limits around the history length, chunk sizes that
\* split it at every boundary; every --before/--until pair.
CONSTANTS
    History <- MCHistory
    BlockTxs <- MCBlockTxs
    NoBlock = NoBlock
    Limits <- MCLimits
    ChunkSizes <- MCChunkSizes
    None = None
SPECIFICATION Spec
INVARIANTS TypeOK HistoryListed DetailsMatch
PROPERTIES Terminates
