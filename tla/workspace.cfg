SPECIFICATION WorkspaceSpec
CONSTANTS
    c1 = c1  c2 = c2  s1 = s1  s2 = s2  p1 = p1  p2 = p2  p3 = p3  t1 = t1  u = u  NIL = NIL
    f1 = f1  f2 = f2  NOTHING = NOTHING
    Clients <- TwoClients
    SpaceIds <- TwoSpaces
    PageIds <- ThreePages
    TagIds <- OneTag
    Titles <- OneTitle
    TreeCalls <- AllTreeCalls
    Budget = 6
    Carriers <- TwoClients
    Files <- TwoFiles
    Keys <- TwoSpaces
    FileCalls <- AllFileCalls
    a1 = a1  a2 = a2  m1 = m1  m2 = m2  VOID = VOID
    People <- TwoPeople
    Admins <- OneAdmin
    Desks <- TwoSpaces
    Templates <- TwoTemplates
    TemplateWorkers <- TwoClients
SYMMETRY Symmetry
INVARIANTS WorkspaceTypeOK WorkspaceClosed SlugOvershootBounded FilesMatchRows TemplatesAtHome
CHECK_DEADLOCK FALSE
