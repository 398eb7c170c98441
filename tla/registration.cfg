SPECIFICATION SceneSpec
CONSTANTS
    w1 = w1  w2 = w2  e1 = e1  e2 = e2  a1 = a1  a2 = a2  l1 = l1  l2 = l2  l3 = l3
    i1 = i1  i2 = i2  r1 = r1  user = user  o1 = o1  NONE = NONE
    Workers <- TwoWorkers
    Emails <- TwoEmails
    Accounts <- TwoAccounts
    Links <- ThreeLinks
    Invites <- TwoInvites
    Roles <- OneRole
    DefaultRole = user
    Identities <- OneIdentity
    Calls <- AllCalls
SYMMETRY Symmetry
INVARIANTS DeadLinkRefused NewestLinkWorks AcceptedHasAccount EveryAccountHasDoor
CHECK_DEADLOCK FALSE
