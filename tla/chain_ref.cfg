CONSTANTS
    Genesis = "G"
    NoBlock = "none"
    Block <- RefBlock
    Parent <- RefParent
    Reader = {r1, r2}
    CacheSize = 2
SPECIFICATION FairRefSpec
INVARIANT AnswersCommitted
PROPERTY QueryReturns
