SPECIFICATION WorkspaceSpec
CONSTANTS
    c1 = c1  c2 = c2  s1 = s1  s2 = s2  p1 = p1  p2 = p2  p3 = p3  t1 = t1  u = u  NIL = NIL
    f1 = f1  f2 = f2  NOTHING = NOTHING
    Clients = {c1}
    SpaceIds = {s1}
    PageIds <- ThreePages
    TagIds <- OneTag
    Titles <- OneTitle
    TreeCalls = {"createSpace", "createPage", "move"}
    Budget = 4
    Carriers = {c1}
    Files <- TwoFiles
    Keys = {s1}
    FileCalls = {}
    a1 = a1  a2 = a2  m1 = m1  m2 = m2  VOID = VOID
    People <- TwoPeople
    Admins <- OneAdmin
    Desks = {s1}
    Templates <- TwoTemplates
    TemplateWorkers = {c1}
INVARIANT HierarchyPreserved
CHECK_DEADLOCK FALSE
