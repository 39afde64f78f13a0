CONSTANTS
    p1 = p1
    p2 = p2
    p3 = p3
    k1 = k1
    k2 = k2
    empty = empty
    lv = lv
    le = le
    pv = pv
    pe = pe
    keyreq = keyreq
    none = none
    Procs <- MCProcs
    Keys <- MCKeys
    EmptyKey = empty
    RemoteKeys <- MCRemoteKeys
    LoaderValue = lv
    LoaderError = le
    PeerValue = pv
    PeerError = pe
    KeyRequired = keyreq
    None = none
    KeyLen <- MCKeyLen
    ValueLen <- MCValueLen
    MaxBytes <- MCMaxBytes

SPECIFICATION Spec
VIEW StateView

INVARIANT TypeOK
INVARIANT PeerValueNeverCached
INVARIANT OneExecutionPerKey
PROPERTY ReturnsSharedOutcome
PROPERTY PeerErrorsNeverSurface
PROPERTY GetReturns
