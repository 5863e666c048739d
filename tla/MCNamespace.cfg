SPECIFICATION Spec
CONSTANTS
    Names = {"a", "b"}
    MaxDepth = 2
    MaxId = 5
    MaxLen = 2
    Elements = {"x", "y"}
    Fields = {"f"}
    Scalars <- MCScalars
    Targets <- MCTargets
    Txns <- MCTxns
    OldStores <- MCOldStores
    Absent = Absent
INVARIANTS
    TypeOK
    PathsAndIdsCorrespond
    IndexIsTheWalk
    IndInv
PROPERTY
    ImplementsTree
