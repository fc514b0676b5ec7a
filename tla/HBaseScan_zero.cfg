\* rows_limit 0, which the spec and the doc comments call unbounded.
CONSTANTS
    RowKeys = {1, 2, 3}
    Limits = {0, 2}
    None = None
SPECIFICATION Spec
INVARIANT ScanContract
