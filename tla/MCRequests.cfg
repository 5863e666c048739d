\* Jobs that put, copy, import and query; an import may be killed twice.
CONSTANTS
    Jobs <- MCJobs
    MaxKills = 2
SPECIFICATION Spec
INVARIANTS
    TypeOK
    EncodingIsCanonical
    OnlyWholeEncodingsDecode
    ImportRestoresExport
    RetryFinishesImport
    ImportInv
    ParserIsGrammar
    HitsAreTheWalk
    GlobIsMatching
CHECK_DEADLOCK FALSE
