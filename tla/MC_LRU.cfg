CONSTANTS
    k1 = k1
    k2 = k2
    k3 = k3
    k4 = k4
    Keys <- MCKeys
    KeyLen <- MCKeyLen
    Values <- MCValues
    ValueLen <- MCValueLen
    MaxBytes <- MCMaxBytes

SPECIFICATION Spec

INVARIANT TypeOK
INVARIANT WithinBudget
PROPERTY RefinesBoundedStore
