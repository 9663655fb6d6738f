SPECIFICATION LinkFairSpec
CONSTANTS
    segwit = segwit
    mweb = mweb
    taproot = taproot
    other = other
    Rule <- MCRule
    ProfileRules <- MCProfileRules
    Node <- MCNode
    UseAlgo = TRUE
    MaxConnections = 2
    MaxBlocks = 2
INVARIANTS
    LinkTypeOK
    RulesAreLearned
    PlainNodesServe
    NoLeak
    StopCutsOff
PROPERTIES
    BlocksAreNoticed
    StopEnds
