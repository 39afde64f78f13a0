\* After MaxMigrates calls of Migrate the program stops: the end of the
\* behaviour, not a deadlock of Migrate.
CONSTANTS
    n = n
    a = a
    x = x
    notable = notable
    notx = notx
    NoTable <- notable
    NoTx <- notx
    Cols <- MCCols
    Structs <- MCStructs
    InitTables <- MCInitTables
    MaxMigrates = 3
SPECIFICATION Spec
CHECK_DEADLOCK FALSE
INVARIANT TypeOK
INVARIANT MigrateOutcome
INVARIANT TxEnds
PROPERTY RefinesSchemaStore
