SPECIFICATION Spec
CONSTANTS
    Trees <- MCTrees
    RpcOps <- MCRpcOps
    Names <- MCNames
    Chunks <- MCChunks
    MemberName <- MCMemberName
    MaxDepth = 2
    MaxIno = 3
    MaxWrites = 2
INVARIANTS
    TypeOK
    InodesNameOnePath
    NamespaceStaysWhole
    DirtyIsWhatWasWritten
    HandlersAgree
    
PROPERTY
    SyncCommitsTheWrites
