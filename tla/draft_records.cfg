SPECIFICATION SceneSpec
CONSTANTS
    w1 = w1  w2 = w2  p1 = p1  q1 = q1
    d1 = d1  d2 = d2  d3 = d3  a = a  NONE = NONE
    Workers <- TwoWorkers
    Pages <- OnePage
    Proposals <- OneProposal
    Documents <- ThreeDocuments
    Phrases <- OnePhrase
    MaxDocuments = 1
    Calls <- EveryCall
SYMMETRY Symmetry
INVARIANTS SnapshotMatchesDocument QuotaOvershootBounded AcceptedHasMilestone
PROPERTIES LedgerSpec FinalizedIsReadOnly
