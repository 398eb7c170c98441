SPECIFICATION AuthMCSpec
CONSTANTS
    w1 = w1  w2 = w2  t1 = t1  t2 = t2  h1 = h1  x = x  NONE = NONE
    Workers <- OneWorker
    Tokens <- TwoPairs
    ResetTokens <- OneReset
    Passwords <- OnePassword
    InitialVersions = {0}
    MaxVersion = 2
    Calls <- ChangeCalls
SYMMETRY Symmetry
PROPERTIES CallerKeepsSession
CHECK_DEADLOCK FALSE
