SPECIFICATION AuthMCSpec
CONSTANTS
    w1 = w1  w2 = w2  t1 = t1  t2 = t2  h1 = h1  x = x  NONE = NONE
    Workers <- TwoWorkers
    Tokens <- TwoPairs
    ResetTokens <- OneReset
    Passwords <- OnePassword
    InitialVersions = {0, 1}
    MaxVersion = 3
    Calls <- EveryCall
SYMMETRY Symmetry
INVARIANTS RevokedSessionsEnd RevokedAccessRefused
PROPERTIES RefusedStaysRefused ConsumedTokenRefused ResetTokenReusedByRaceOnly
CHECK_DEADLOCK FALSE
