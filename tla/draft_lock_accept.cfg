SPECIFICATION Spec
CONSTANTS
    w1 = w1  w2 = w2  p1 = p1  q1 = q1
    d1 = d1  d2 = d2  d3 = d3  a = a  NONE = NONE
    Workers <- OneWorker
    Pages <- OnePage
    Proposals <- OneProposal
    Documents <- OneDocument
    Phrases <- OnePhrase
    MaxDocuments = 1
    Calls = {"create", "finalize", "propose", "accept"}
PROPERTY OnlyUnlockReleases
CHECK_DEADLOCK FALSE
