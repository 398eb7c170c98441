------------------------- MODULE RegistrationProofs -------------------------
(***************************************************************************)
(* Theorems about Registration for every number of requests, addresses,    *)
(* accounts, links, invitations and identities, and every choice of calls. *)
(***************************************************************************)
EXTENDS Registration, TLAPS

-----------------------------------------------------------------------------
(* The locals a handler has assigned by the time it reaches a statement.   *)
OnAccount == {"recalculate", "store", "mail", "resendCurrent", "resendDrop",
              "verifyCurrent", "verifyUser", "verifyWrite", "verifyDrop",
              "inviteProfile", "inviteRole", "inviteAccept", "oauthLink"}
OnLink == {"mail", "resendDrop", "verifyCurrent", "verifyUser", "verifyWrite", "verifyDrop"}
OnInvite == {"inviteLookup", "inviteCreate", "inviteProfile", "inviteRole", "inviteAccept"}
OnEmail == {"create", "issueCreate", "inviteLookup", "inviteCreate", "oauthLookup",
            "oauthCreate"}

Assigned(r) ==
    /\ r.pc \in OnAccount => r.account \in Accounts
    /\ r.pc \in OnLink => r.link \in Links
    /\ r.pc \in OnInvite => r.invite \in Invites
    /\ r.pc \in {"oauthLookup", "oauthLink", "oauthCreate"} => r.identity \in Identities

Owned == \A l \in alive : owner[l] \in Accounts

TInv == TypeOK /\ Owned /\ \A w \in Workers : Assigned(req[w])

LEMMA IdleOK == Idle \in Request /\ Assigned(Idle)
  BY DEF Idle, Request, PC, Assigned, OnAccount, OnLink, OnInvite

LEMMA UnbornOK == Unborn \in Account
  BY DEF Unborn, Account

LEMMA InitTInv == Init => TInv
<1> SUFFICES ASSUME Init
             PROVE  TInv
  OBVIOUS
<1>1. TypeOK
  BY IdleOK, UnbornOK DEF Init, TypeOK, Invite
<1>2. QED
  BY <1>1, IdleOK DEF Init, TInv, Owned

(* A step of one request that leaves it with the locals r.                 *)
LEMMA RequestStep ==
  ASSUME TInv, NEW w \in Workers, NEW r \in Request, Assigned(r),
         req' = [req EXCEPT ![w] = r],
         account' \in [Accounts -> Account],
         identity' \in [Identities -> {NONE} \cup Accounts],
         invite' \in [Invites -> Invite],
         owner' \in [Links -> {NONE} \cup Accounts],
         alive' \subseteq Links, mailed' \subseteq Links, dead' \subseteq Links,
         current' \in [Accounts -> {NONE} \cup Links],
         Owned'
  PROVE  TInv'
<1>1. TypeOK'
  BY DEF TInv, TypeOK
<1>2. \A u \in Workers : Assigned(req'[u])
  BY DEF TInv, TypeOK
<1>3. QED
  BY <1>1, <1>2 DEF TInv

(* A request that goes on with the same locals.                            *)
LEMMA Moved ==
  ASSUME TInv, NEW w \in Workers, NEW p \in PC,
         Assigned([req[w] EXCEPT !.pc = p]), Goto(w, p)
  PROVE  \E r \in Request : Assigned(r) /\ req' = [req EXCEPT ![w] = r]
<1> DEFINE r == [req[w] EXCEPT !.pc = p]
<1>1. r \in Request
  BY DEF TInv, TypeOK, Request
<1>2. req' = [req EXCEPT ![w] = r]
  BY DEF Goto, TInv, TypeOK
<1>3. QED
  BY <1>1, <1>2

LEMMA Ended ==
  ASSUME TInv, NEW w \in Workers, Finish(w)
  PROVE  \E r \in Request : Assigned(r) /\ req' = [req EXCEPT ![w] = r]
  BY IdleOK DEF Finish

LEMMA AddType ==
  ASSUME TInv, NEW a \in Accounts, NEW r \in Account, Add(a, r)
  PROVE  account' \in [Accounts -> Account]
  BY DEF Add, TInv, TypeOK

LEMMA ColumnType ==
  ASSUME TInv, NEW a \in Accounts, NEW q \in {NONE} \cup Roles,
         \/ account' = [account EXCEPT ![a].verified = TRUE]
         \/ account' = [account EXCEPT ![a].profile = TRUE]
         \/ account' = [account EXCEPT ![a].role = q]
  PROVE  account' \in [Accounts -> Account]
<1>1. account \in [Accounts -> Account] /\ account[a] \in Account
  BY DEF TInv, TypeOK
<1>2. /\ [account[a] EXCEPT !.verified = TRUE] \in Account
      /\ [account[a] EXCEPT !.profile = TRUE] \in Account
      /\ [account[a] EXCEPT !.role = q] \in Account
  BY <1>1 DEF Account
<1>3. QED
  BY <1>1, <1>2

LEMMA NewAccountType ==
  ASSUME NEW e \in {NONE} \cup Emails, NEW f \in Origins \cup Invites,
         NEW r, \/ r = NewAccount(e, f)
                \/ r = [NewAccount(e, f) EXCEPT !.profile = TRUE, !.role = DefaultRole]
                \/ r = [NewAccount(e, f) EXCEPT !.password = TRUE, !.profile = TRUE,
                                                !.role = DefaultRole]
                \/ r = [NewAccount(e, f) EXCEPT !.verified = TRUE, !.profile = TRUE,
                                                !.role = DefaultRole]
                \/ r = [NewAccount(e, f) EXCEPT !.password = TRUE, !.verified = TRUE]
  PROVE  r \in Account
<1>1. NewAccount(e, f) \in Account
  BY UnbornOK DEF NewAccount, Account
<1>2. QED
  BY <1>1 DEF Account

LEMMA ArriveTInv ==
  ASSUME TInv, NEW w \in Workers, Arrive(w)
  PROVE  TInv'
<1>1. ASSUME NEW r \in Request, Assigned(r), Begin(w, r), UNCHANGED <<rows, links>>
      PROVE  TInv'
  BY <1>1, RequestStep DEF Begin, rows, links, TInv, TypeOK, Owned
<1>2. ASSUME NEW e \in Emails, Register(w, e)
      PROVE  TInv'
  <2> DEFINE r == [Idle EXCEPT !.pc = "create", !.email = e]
  <2>1. r \in Request /\ Assigned(r)
    BY DEF Idle, Request, PC, Assigned, OnAccount, OnLink, OnInvite
  <2>2. QED
    BY <1>1, <1>2, <2>1 DEF Register
<1>3. ASSUME NEW e \in Emails, NEW q \in Roles \cup {NONE}, Issue(w, e, q)
      PROVE  TInv'
  <2> DEFINE r == [Idle EXCEPT !.pc = "issueCreate", !.email = e, !.role = q]
  <2>1. r \in Request /\ Assigned(r)
    BY DEF Idle, Request, PC, Assigned, OnAccount, OnLink, OnInvite
  <2>2. QED
    BY <1>1, <1>3, <2>1 DEF Issue
<1>4. ASSUME NEW e \in Emails, NEW o \in Identities, OAuth(w, o, e)
      PROVE  TInv'
  <2> DEFINE r == [Idle EXCEPT !.pc = "oauthLookup", !.identity = o, !.email = e]
  <2>1. r \in Request /\ Assigned(r)
    BY DEF Idle, Request, PC, Assigned, OnAccount, OnLink, OnInvite
  <2>2. QED
    BY <1>1, <1>4, <2>1 DEF OAuth
<1>5. ASSUME NEW a \in Accounts, Resend(w, a)
      PROVE  TInv'
  <2> DEFINE r == [Idle EXCEPT !.pc = "resendCurrent", !.account = a]
  <2>1. r \in Request /\ Assigned(r)
    BY DEF Idle, Request, PC, Assigned, OnAccount, OnLink, OnInvite
  <2>2. QED
    BY <1>1, <1>5, <2>1 DEF Resend
<1>6. ASSUME NEW l \in Links, Verify(w, l)
      PROVE  TInv'
  <2> DEFINE r == [Idle EXCEPT !.pc = "verifyCurrent", !.link = l, !.account = owner[l],
                               !.late = l \in dead]
  <2>1. owner[l] \in Accounts
    BY <1>6 DEF Verify, TInv, Owned
  <2>2. ASSUME NEW late \in BOOLEAN
        PROVE  [Idle EXCEPT !.pc = "verifyCurrent", !.link = l, !.account = owner[l],
                            !.late = late] \in Request
    BY <2>1 DEF Idle, Request, PC
  <2>3. (l \in dead) \in BOOLEAN
    OBVIOUS
  <2>4. r \in Request /\ Assigned(r)
    BY <2>1, <2>2, <2>3 DEF Idle, Assigned, OnAccount, OnLink, OnInvite
  <2>5. QED
    BY <1>1, <1>6, <2>4 DEF Verify
<1>7. ASSUME NEW i \in Invites, RegisterWithInvite(w, i)
      PROVE  TInv'
  <2> DEFINE r == [Idle EXCEPT !.pc = "inviteLookup", !.invite = i,
                               !.email = invite[i].email, !.role = invite[i].role]
  <2>1. invite[i].email \in {NONE} \cup Emails /\ invite[i].role \in {NONE} \cup Roles
    BY DEF TInv, TypeOK, Invite
  <2>2. r \in Request /\ Assigned(r)
    BY <2>1 DEF Idle, Request, PC, Assigned, OnAccount, OnLink, OnInvite
  <2>3. QED
    BY <1>1, <1>7, <2>2 DEF RegisterWithInvite
<1>8. QED
  BY <1>2, <1>3, <1>4, <1>5, <1>6, <1>7 DEF Arrive

(* The steps that change no table and no key.                              *)
LEMMA ReadTInv ==
  ASSUME TInv, NEW w \in Workers, UNCHANGED <<rows, links>>,
         \E r \in Request : Assigned(r) /\ req' = [req EXCEPT ![w] = r]
  PROVE  TInv'
<1>1. PICK r \in Request : Assigned(r) /\ req' = [req EXCEPT ![w] = r]
  OBVIOUS
<1>2. QED
  BY <1>1, RequestStep DEF rows, links, TInv, TypeOK, Owned

LEMMA LinkStepsTInv ==
  ASSUME TInv, NEW w \in Workers,
         \/ Recalculate(w) \/ SendLink(w) \/ \E l \in Links : StoreLink(w, l)
         \/ ResendCurrent(w) \/ ResendDrop(w)
  PROVE  TInv'
<1>1. req[w] \in Request /\ Assigned(req[w])
  BY DEF TInv, TypeOK
<1>2. CASE Recalculate(w)
  <2>1. Assigned([req[w] EXCEPT !.pc = "store"])
    BY <1>1, <1>2 DEF Recalculate, At, Assigned, OnAccount, OnLink, OnInvite, Request
  <2>2. QED
    BY <1>2, <2>1, Moved, ReadTInv DEF Recalculate, PC
<1>3. CASE SendLink(w)
  <2>1. PICK r \in Request : Assigned(r) /\ req' = [req EXCEPT ![w] = r]
    BY <1>3, Ended DEF SendLink
  <2>2. req[w].link \in Links
    BY <1>1, <1>3 DEF SendLink, At, Assigned, OnLink
  <2>3. QED
    BY <1>3, <2>1, <2>2, RequestStep DEF SendLink, rows, keys, TInv, TypeOK, Owned
<1>4. ASSUME NEW l \in Links, StoreLink(w, l)
      PROVE  TInv'
  <2> DEFINE r == [req[w] EXCEPT !.pc = "mail", !.link = l]
  <2>1. req[w].account \in Accounts
    BY <1>1, <1>4 DEF StoreLink, At, Assigned, OnAccount
  <2>2. r \in Request /\ Assigned(r)
    BY <1>1, <2>1 DEF Request, PC, Assigned, OnAccount, OnLink, OnInvite
  <2>3. req' = [req EXCEPT ![w] = r]
    BY <1>4 DEF StoreLink, TInv, TypeOK
  <2>4. owner' \in [Links -> {NONE} \cup Accounts]
    BY <1>4, <2>1 DEF StoreLink, TInv, TypeOK
  <2>5. Owned'
    <3> SUFFICES ASSUME NEW k \in alive'
                 PROVE  owner'[k] \in Accounts
      BY DEF Owned
    <3>1. CASE k = l
      BY <1>4, <2>1, <3>1 DEF StoreLink, TInv, TypeOK
    <3>2. CASE k # l
      BY <1>4, <3>2 DEF StoreLink, TInv, TypeOK, Owned
    <3>3. QED
      BY <3>1, <3>2
  <2>6. dead' \subseteq Links /\ alive' \subseteq Links
    BY <1>4 DEF StoreLink, LinksOf, TInv, TypeOK
  <2>7. current' \in [Accounts -> {NONE} \cup Links]
    BY <1>4 DEF StoreLink, TInv, TypeOK
  <2>8. QED
    BY <1>4, <2>2, <2>3, <2>4, <2>5, <2>6, <2>7, RequestStep DEF StoreLink, rows, TInv, TypeOK
<1>5. CASE ResendCurrent(w)
  <2> DEFINE l == current[req[w].account]
             p == IF l = NONE THEN "store" ELSE "resendDrop"
             r == [req[w] EXCEPT !.link = l, !.pc = p]
  <2>1. req[w].account \in Accounts
    BY <1>1, <1>5 DEF ResendCurrent, At, Assigned, OnAccount
  <2>2. l \in {NONE} \cup Links
    BY <2>1 DEF TInv, TypeOK
  <2>3. r \in Request /\ Assigned(r)
    BY <1>1, <2>1, <2>2 DEF Request, PC, Assigned, OnAccount, OnLink, OnInvite
  <2>4. req' = [req EXCEPT ![w] = r]
    BY <1>5 DEF ResendCurrent, TInv, TypeOK
  <2>5. QED
    BY <1>5, <2>3, <2>4, ReadTInv DEF ResendCurrent
<1>6. CASE ResendDrop(w)
  <2>1. Assigned([req[w] EXCEPT !.pc = "store"]) /\ req[w].link \in Links
    BY <1>1, <1>6 DEF ResendDrop, At, Assigned, OnAccount, OnLink, OnInvite, Request
  <2>2. PICK r \in Request : Assigned(r) /\ req' = [req EXCEPT ![w] = r]
    BY <1>6, <2>1, Moved DEF ResendDrop, PC
  <2>3. QED
    BY <1>6, <2>1, <2>2, RequestStep DEF ResendDrop, rows, TInv, TypeOK, Owned
<1>7. QED
  BY <1>2, <1>3, <1>4, <1>5, <1>6

LEMMA VerifyStepsTInv ==
  ASSUME TInv, NEW w \in Workers,
         VerifyCurrent(w) \/ VerifyUser(w) \/ VerifyWrite(w) \/ VerifyDrop(w)
  PROVE  TInv'
<1>1. /\ req[w] \in Request /\ Assigned(req[w])
      /\ req[w].account \in Accounts /\ req[w].link \in Links
  BY DEF TInv, TypeOK, Assigned, OnAccount, OnLink, At,
         VerifyCurrent, VerifyUser, VerifyWrite, VerifyDrop
<1>2. ASSUME NEW p \in {"verifyUser", "verifyWrite", "verifyDrop"}, Goto(w, p)
      PROVE  \E r \in Request : Assigned(r) /\ req' = [req EXCEPT ![w] = r]
  <2>1. Assigned([req[w] EXCEPT !.pc = p])
    BY <1>1 DEF Assigned, OnAccount, OnLink, OnInvite, Request
  <2>2. QED
    BY <1>2, <2>1, Moved DEF PC
<1>3. \E r \in Request : Assigned(r) /\ req' = [req EXCEPT ![w] = r]
  BY <1>2, Ended DEF VerifyCurrent, VerifyUser, VerifyWrite, VerifyDrop
<1>4. CASE VerifyCurrent(w) \/ VerifyUser(w)
  BY <1>3, <1>4, ReadTInv DEF VerifyCurrent, VerifyUser
<1>5. PICK r \in Request : Assigned(r) /\ req' = [req EXCEPT ![w] = r]
  BY <1>3
<1>6. CASE VerifyWrite(w)
  <2>1. account' \in [Accounts -> Account]
    BY <1>1, <1>6, ColumnType DEF VerifyWrite
  <2>2. dead' \subseteq Links
    BY <1>6 DEF VerifyWrite, LinksOf, TInv, TypeOK
  <2>3. QED
    BY <1>5, <1>6, <2>1, <2>2, RequestStep DEF VerifyWrite, keys, TInv, TypeOK, Owned
<1>7. CASE VerifyDrop(w)
  BY <1>1, <1>5, <1>7, RequestStep DEF VerifyDrop, rows, TInv, TypeOK, Owned
<1>8. QED
  BY <1>4, <1>6, <1>7

LEMMA InviteStepsTInv ==
  ASSUME TInv, NEW w \in Workers,
         \/ \E i \in Invites : IssueCreate(w, i)
         \/ InviteLookup(w) \/ \E a \in Accounts : InviteCreate(w, a)
         \/ InviteProfile(w) \/ InviteRole(w) \/ InviteAccept(w)
  PROVE  TInv'
<1>1. req[w] \in Request /\ Assigned(req[w])
  BY DEF TInv, TypeOK
<1>2. ASSUME NEW i \in Invites, IssueCreate(w, i)
      PROVE  TInv'
  <2>1. PICK r \in Request : Assigned(r) /\ req' = [req EXCEPT ![w] = r]
    BY <1>2, Ended DEF IssueCreate
  <2>2. invite' \in [Invites -> Invite]
    BY <1>1, <1>2 DEF IssueCreate, TInv, TypeOK, Invite, Request
  <2>3. QED
    BY <1>2, <2>1, <2>2, RequestStep DEF IssueCreate, links, TInv, TypeOK, Owned
<1>3. ASSUME NEW p \in {"inviteCreate", "inviteRole", "inviteAccept"}, Goto(w, p),
             req[w].pc \in OnInvite,
             p # "inviteCreate" => req[w].pc \in OnAccount
      PROVE  \E r \in Request : Assigned(r) /\ req' = [req EXCEPT ![w] = r]
  <2>1. Assigned([req[w] EXCEPT !.pc = p])
    BY <1>1, <1>3 DEF Assigned, OnAccount, OnLink, OnInvite, Request
  <2>2. QED
    BY <1>3, <2>1, Moved DEF PC
<1>4. CASE InviteLookup(w)
  <2>1. \E r \in Request : Assigned(r) /\ req' = [req EXCEPT ![w] = r]
    BY <1>3, <1>4, Ended DEF InviteLookup, At, OnInvite
  <2>2. QED
    BY <1>4, <2>1, ReadTInv DEF InviteLookup
<1>5. ASSUME NEW a \in Accounts, InviteCreate(w, a)
      PROVE  TInv'
  <2> DEFINE r == [req[w] EXCEPT !.pc = "inviteProfile", !.account = a]
  <2>1. req[w].invite \in Invites /\ req[w].email \in {NONE} \cup Emails
    BY <1>1, <1>5 DEF InviteCreate, At, Assigned, OnInvite, Request
  <2>2. r \in Request /\ Assigned(r)
    BY <1>1, <2>1 DEF Request, PC, Assigned, OnAccount, OnLink, OnInvite
  <2>3. req' = [req EXCEPT ![w] = r]
    BY <1>5 DEF InviteCreate, TInv, TypeOK
  <2>4. account' \in [Accounts -> Account]
    BY <1>5, <2>1, AddType, NewAccountType DEF InviteCreate
  <2>5. QED
    BY <1>5, <2>2, <2>3, <2>4, RequestStep DEF InviteCreate, links, TInv, TypeOK, Owned
<1>6. CASE InviteProfile(w)
  <2>1. \E r \in Request : Assigned(r) /\ req' = [req EXCEPT ![w] = r]
    BY <1>3, <1>6 DEF InviteProfile, At, OnInvite, OnAccount
  <2>2. account' \in [Accounts -> Account]
    BY <1>1, <1>6, ColumnType DEF InviteProfile, At, Assigned, OnAccount
  <2>3. QED
    BY <1>6, <2>1, <2>2, RequestStep DEF InviteProfile, links, TInv, TypeOK, Owned
<1>7. CASE InviteRole(w)
  <2>1. \E r \in Request : Assigned(r) /\ req' = [req EXCEPT ![w] = r]
    BY <1>3, <1>7 DEF InviteRole, At, OnInvite, OnAccount
  <2>2. account' \in [Accounts -> Account]
    BY <1>1, <1>7, ColumnType DEF InviteRole, At, Assigned, OnAccount, Request
  <2>3. QED
    BY <1>7, <2>1, <2>2, RequestStep DEF InviteRole, links, TInv, TypeOK, Owned
<1>8. CASE InviteAccept(w)
  <2>1. \E r \in Request : Assigned(r) /\ req' = [req EXCEPT ![w] = r]
    BY <1>8, Ended DEF InviteAccept
  <2>2. invite' \in [Invites -> Invite]
    BY <1>8 DEF InviteAccept, TInv, TypeOK, Invite
  <2>3. QED
    BY <1>8, <2>1, <2>2, RequestStep DEF InviteAccept, links, TInv, TypeOK, Owned
<1>9. QED
  BY <1>2, <1>4, <1>5, <1>6, <1>7, <1>8

LEMMA CreateStepsTInv ==
  ASSUME TInv, NEW w \in Workers,
         \/ \E a \in Accounts : RegisterCreate(w, a) \/ OAuthCreate(w, a)
         \/ OAuthLookup(w) \/ OAuthLink(w)
  PROVE  TInv'
<1>1. req[w] \in Request /\ Assigned(req[w]) /\ req[w].email \in {NONE} \cup Emails
  BY DEF TInv, TypeOK, Request
<1>2. ASSUME NEW a \in Accounts, RegisterCreate(w, a)
      PROVE  TInv'
  <2> DEFINE r == [req[w] EXCEPT !.pc = "recalculate", !.account = a]
  <2>1. r \in Request /\ Assigned(r)
    BY <1>1 DEF Request, PC, Assigned, OnAccount, OnLink, OnInvite
  <2>2. req' = [req EXCEPT ![w] = r]
    BY <1>2 DEF RegisterCreate, TInv, TypeOK
  <2>3. account' \in [Accounts -> Account]
    BY <1>1, <1>2, AddType, NewAccountType DEF RegisterCreate, Origins
  <2>4. QED
    BY <1>2, <2>1, <2>2, <2>3, RequestStep DEF RegisterCreate, links, TInv, TypeOK, Owned
<1>3. ASSUME NEW a \in Accounts, OAuthCreate(w, a)
      PROVE  TInv'
  <2>1. PICK r \in Request : Assigned(r) /\ req' = [req EXCEPT ![w] = r]
    BY <1>3, Ended DEF OAuthCreate
  <2>2. account' \in [Accounts -> Account]
    BY <1>1, <1>3, AddType, NewAccountType DEF OAuthCreate, Origins
  <2>3. identity' \in [Identities -> {NONE} \cup Accounts]
    BY <1>3 DEF OAuthCreate, TInv, TypeOK
  <2>4. QED
    BY <1>3, <2>1, <2>2, <2>3, RequestStep DEF OAuthCreate, links, TInv, TypeOK, Owned
<1>4. CASE OAuthLookup(w) /\ Taken(req[w].email)
  <2>1. PICK a \in Holder(req[w].email) :
               req' = [req EXCEPT ![w].pc = "oauthLink", ![w].account = a]
    BY <1>4 DEF OAuthLookup
  <2> DEFINE r == [req[w] EXCEPT !.pc = "oauthLink", !.account = a]
  <2>2. a \in Accounts /\ req[w].identity \in Identities
    BY <1>1, <1>4 DEF Holder, OAuthLookup, At, Assigned
  <2>3. r \in Request /\ Assigned(r)
    BY <1>1, <2>2 DEF Request, PC, Assigned, OnAccount, OnLink, OnInvite
  <2>4. req' = [req EXCEPT ![w] = r]
    BY <2>1 DEF TInv, TypeOK
  <2>5. QED
    BY <1>4, <2>3, <2>4, ReadTInv DEF OAuthLookup
<1>5. CASE OAuthLookup(w) /\ ~Taken(req[w].email)
  <2>1. Assigned([req[w] EXCEPT !.pc = "oauthCreate"])
    BY <1>1, <1>5 DEF OAuthLookup, At, Assigned, OnAccount, OnLink, OnInvite, Request
  <2>2. QED
    BY <1>5, <2>1, Moved, ReadTInv DEF OAuthLookup, PC
<1>6. CASE OAuthLink(w)
  <2>1. PICK r \in Request : Assigned(r) /\ req' = [req EXCEPT ![w] = r]
    BY <1>6, Ended DEF OAuthLink
  <2>2. req[w].account \in Accounts
    BY <1>1, <1>6 DEF OAuthLink, At, Assigned, OnAccount
  <2>3. account' \in [Accounts -> Account]
    BY <1>6, <2>2, ColumnType DEF OAuthLink
  <2>4. identity' \in [Identities -> {NONE} \cup Accounts] /\ dead' \subseteq Links
    BY <1>6, <2>2 DEF OAuthLink, LinksOf, TInv, TypeOK
  <2>5. QED
    BY <1>6, <2>1, <2>3, <2>4, RequestStep DEF OAuthLink, keys, TInv, TypeOK, Owned
<1>7. QED
  BY <1>2, <1>3, <1>4, <1>5, <1>6

LEMMA RefusalTInv ==
  ASSUME TInv, NEW w \in Workers, Refuse(w)
  PROVE  TInv'
  BY Ended, ReadTInv DEF Refuse

(* The steps of no request: the administrator, the clock, a first read.    *)
Environment ==
    \/ \E a \in Accounts :
          \/ \E e \in Emails : AdminCreate(a, e) \/ ChangeEmail(a, e)
          \/ Delete(a) \/ FirstRead(a)
    \/ \E l \in Links : ExpireLink(l)
    \/ \E i \in Invites : ExpireInvite(i)

LEMMA EnvironmentTInv == TInv /\ Environment => TInv'
<1> SUFFICES ASSUME TInv, Environment
             PROVE  TInv'
  OBVIOUS
<1>1. req' = req
  BY DEF Environment, AdminCreate, ChangeEmail, Delete, FirstRead, ExpireLink, ExpireInvite
<1>2. ASSUME NEW a \in Accounts, NEW e \in Emails, AdminCreate(a, e)
      PROVE  TInv'
  <2>1. account' \in [Accounts -> Account]
    BY <1>2, AddType, NewAccountType DEF AdminCreate, Origins
  <2>2. QED
    BY <1>1, <1>2, <2>1 DEF AdminCreate, links, TInv, TypeOK, Owned
<1>3. ASSUME NEW a \in Accounts, NEW e \in Emails, ChangeEmail(a, e)
      PROVE  TInv'
  <2>1. account' \in [Accounts -> Account]
    BY <1>3 DEF ChangeEmail, TInv, TypeOK, Account
  <2>2. QED
    BY <1>1, <1>3, <2>1 DEF ChangeEmail, links, TInv, TypeOK, Owned
<1>4. ASSUME NEW a \in Accounts, Delete(a)
      PROVE  TInv'
  <2>1. account' \in [Accounts -> Account]
    BY <1>4 DEF Delete, TInv, TypeOK, Account
  <2>2. identity' \in [Identities -> {NONE} \cup Accounts] /\ dead' \subseteq Links
    BY <1>4 DEF Delete, LinksOf, TInv, TypeOK
  <2>3. QED
    BY <1>1, <1>4, <2>1, <2>2 DEF Delete, keys, TInv, TypeOK, Owned
<1>5. ASSUME NEW a \in Accounts, FirstRead(a)
      PROVE  TInv'
  <2>1. account' \in [Accounts -> Account]
    BY <1>5 DEF FirstRead, TInv, TypeOK, Account
  <2>2. QED
    BY <1>1, <1>5, <2>1 DEF FirstRead, links, TInv, TypeOK, Owned
<1>6. ASSUME NEW l \in Links, ExpireLink(l)
      PROVE  TInv'
  BY <1>1, <1>6 DEF ExpireLink, rows, TInv, TypeOK, Owned
<1>7. ASSUME NEW i \in Invites, ExpireInvite(i)
      PROVE  TInv'
  <2>1. invite' \in [Invites -> Invite]
    BY <1>7 DEF ExpireInvite, TInv, TypeOK, Invite
  <2>2. QED
    BY <1>1, <1>7, <2>1 DEF ExpireInvite, links, TInv, TypeOK, Owned
<1>8. QED
  BY <1>2, <1>3, <1>4, <1>5, <1>6, <1>7 DEF Environment

LEMMA StepTInv == TInv /\ [Next]_vars => TInv'
<1>1. ASSUME TInv, NEW w \in Workers, Continue(w)
      PROVE  TInv'
  <2>1. CASE CreateRefused(w) \/ AccountGone(w) \/ ProfileExists(w) \/ IdentityTaken(w)
    BY <1>1, <2>1, RefusalTInv DEF CreateRefused, AccountGone, ProfileExists, IdentityTaken
  <2>2. QED
    BY <1>1, <2>1, LinkStepsTInv, VerifyStepsTInv, InviteStepsTInv, CreateStepsTInv
       DEF Continue
<1>2. ASSUME TInv, UNCHANGED vars
      PROVE  TInv'
  BY <1>2 DEF vars, TInv, TypeOK, Owned
<1>3. QED
  BY <1>1, <1>2, ArriveTInv, RefusalTInv, EnvironmentTInv DEF Next, Fault, Environment

(* The tables, the keys and the locals of every handler keep their types.  *)
THEOREM RegistrationTypeCorrect == Spec => []TypeOK
<1>1. TInv => TypeOK
  BY DEF TInv
<1>2. QED
  BY <1>1, InitTInv, StepTInv, PTL DEF Spec

-----------------------------------------------------------------------------
(* What any step may do to the row of an account that exists, and to an     *)
(* invitation that was issued.  Only the registration with the invitation   *)
(* an account came from gives it a role later, and only that one's.         *)
Grows(a) ==
    account[a].state # "unborn" =>
        /\ account'[a].state # "unborn"
        /\ account[a].state = "deleted" => account'[a].state = "deleted"
        /\ account'[a].from = account[a].from
        /\ account[a].verified => account'[a].verified
        /\ account[a].password => account'[a].password
        /\ account[a].profile => account'[a].profile
        /\ \/ account'[a].role = account[a].role
           \/ /\ account[a].from \in Invites
              /\ account'[a].role = invite[account[a].from].role

Keeps(i) ==
    invite[i].state # "unborn" =>
        /\ invite'[i].state # "unborn"
        /\ invite'[i].role = invite[i].role

(* A registration with an invitation holds the role of that invitation, and *)
(* from its users.create on the account is its own, as far as it has got.   *)
Made(r) ==
    /\ r.pc \in OnInvite =>
          r.role = invite[r.invite].role /\ invite[r.invite].state # "unborn"
    /\ r.pc \in {"inviteProfile", "inviteRole", "inviteAccept"} =>
          /\ account[r.account].state # "unborn"
          /\ account[r.account].from = r.invite
          /\ account[r.account].verified
    /\ r.pc = "inviteProfile" => account[r.account].role \in {NONE, r.role}
    /\ r.pc \in {"inviteRole", "inviteAccept"} => account[r.account].profile
    /\ r.pc = "inviteAccept" => account[r.account].role = r.role

MadeInv == TInv /\ \A w \in Workers : Made(req[w])

LEMMA AddGrows ==
  ASSUME TInv, NEW b \in Accounts, NEW r, Add(b, r), NEW a \in Accounts
  PROVE  Grows(a)
<1>1. CASE a = b
  BY <1>1 DEF Add, Grows
<1>2. CASE a # b
  BY <1>2 DEF Add, Grows, TInv, TypeOK
<1>3. QED
  BY <1>1, <1>2

LEMMA ColumnGrows ==
  ASSUME TInv, NEW b \in Accounts, NEW a \in Accounts, NEW e,
         \/ account' = [account EXCEPT ![b].verified = TRUE]
         \/ account' = [account EXCEPT ![b].profile = TRUE]
         \/ account' = [account EXCEPT ![b].email = e]
         \/ account' = [account EXCEPT ![b].state = "deleted", ![b].email = NONE]
         \/ account' = account
  PROVE  Grows(a)
<1>1. account \in [Accounts -> Account] /\ account[a] \in Account
  BY DEF TInv, TypeOK
<1>2. CASE a = b
  BY <1>1, <1>2 DEF Account, Grows
<1>3. CASE a # b
  BY <1>1, <1>3 DEF Account, Grows
<1>4. QED
  BY <1>2, <1>3

LEMMA StepGrows ==
  ASSUME MadeInv, [Next]_vars, NEW a \in Accounts
  PROVE  Grows(a)
<1>1. TInv
  BY DEF MadeInv
<1>2. ASSUME NEW w \in Workers, Continue(w)
      PROVE  Grows(a)
  <2>1. req[w] \in Request /\ Assigned(req[w])
    BY <1>1 DEF TInv, TypeOK
  <2>2. ASSUME NEW b \in Accounts, RegisterCreate(w, b) \/ InviteCreate(w, b) \/ OAuthCreate(w, b)
        PROVE  Grows(a)
    BY <1>1, <2>2, AddGrows DEF RegisterCreate, InviteCreate, OAuthCreate
  <2>3. CASE VerifyWrite(w) \/ InviteProfile(w) \/ OAuthLink(w)
    <3>1. req[w].account \in Accounts
      BY <2>1, <2>3 DEF VerifyWrite, InviteProfile, OAuthLink, At, Assigned, OnAccount
    <3>2. QED
      BY <1>1, <2>3, <3>1, ColumnGrows DEF VerifyWrite, InviteProfile, OAuthLink
  <2>4. CASE InviteRole(w)
    <3>1. /\ req[w].account \in Accounts /\ req[w].invite \in Invites
          /\ account[req[w].account].from = req[w].invite
          /\ req[w].role = invite[req[w].invite].role
      BY <2>1, <2>4 DEF InviteRole, At, Assigned, OnAccount, OnInvite, MadeInv, Made
    <3>2. account \in [Accounts -> Account] /\ account[a] \in Account
      BY <1>1 DEF TInv, TypeOK
    <3>3. CASE a = req[w].account
      BY <2>4, <3>1, <3>2, <3>3 DEF InviteRole, Account, Grows
    <3>4. CASE a # req[w].account
      BY <2>4, <3>1, <3>2, <3>4 DEF InviteRole, Account, Grows
    <3>5. QED
      BY <3>3, <3>4
  <2>5. CASE account' = account
    BY <1>1, <2>5, ColumnGrows
  <2>6. QED
    BY <1>2, <2>2, <2>3, <2>4, <2>5
       DEF Continue, Recalculate, SendLink, StoreLink, ResendCurrent, ResendDrop, VerifyCurrent,
           VerifyUser, VerifyDrop, IssueCreate, InviteLookup, InviteAccept, OAuthLookup,
           CreateRefused, AccountGone, ProfileExists, IdentityTaken, Refuse, rows
<1>3. CASE Environment
  <2>1. ASSUME NEW b \in Accounts, NEW e \in Emails, AdminCreate(b, e)
        PROVE  Grows(a)
    BY <1>1, <2>1, AddGrows DEF AdminCreate
  <2>2. ASSUME NEW b \in Accounts, NEW e \in Emails, ChangeEmail(b, e)
        PROVE  Grows(a)
    BY <1>1, <2>2, ColumnGrows DEF ChangeEmail
  <2>3. ASSUME NEW b \in Accounts, Delete(b) \/ FirstRead(b)
        PROVE  Grows(a)
    BY <1>1, <2>3, ColumnGrows DEF Delete, FirstRead
  <2>4. CASE account' = account
    BY <1>1, <2>4, ColumnGrows
  <2>5. QED
    BY <1>3, <2>1, <2>2, <2>3, <2>4 DEF Environment, ExpireLink, ExpireInvite, rows
<1>4. CASE UNCHANGED vars
  BY <1>1, <1>4, ColumnGrows DEF vars
<1>5. ASSUME NEW w \in Workers, Arrive(w) \/ Fault(w)
      PROVE  Grows(a)
  <2>1. account' = account
    BY <1>5 DEF Arrive, Register, Issue, OAuth, Resend, Verify, RegisterWithInvite, Fault,
                Refuse, rows
  <2>2. QED
    BY <1>1, <2>1, ColumnGrows
<1>6. QED
  BY <1>2, <1>3, <1>4, <1>5 DEF Next, Environment

LEMMA StepKeeps ==
  ASSUME TInv, [Next]_vars, NEW i \in Invites
  PROVE  Keeps(i)
<1>1. CASE invite' = invite
  BY <1>1 DEF Keeps
<1>2. ASSUME NEW w \in Workers, NEW j \in Invites, IssueCreate(w, j)
      PROVE  Keeps(i)
  BY <1>2 DEF IssueCreate, Keeps, TInv, TypeOK
<1>3. ASSUME NEW w \in Workers, InviteAccept(w)
      PROVE  Keeps(i)
  BY <1>3 DEF InviteAccept, Keeps, TInv, TypeOK, Invite
<1>4. ASSUME NEW j \in Invites, ExpireInvite(j)
      PROVE  Keeps(i)
  BY <1>4 DEF ExpireInvite, Keeps, TInv, TypeOK, Invite
<1>5. ASSUME NEW w \in Workers, Continue(w), invite' # invite
      PROVE  Keeps(i)
  BY <1>2, <1>3, <1>5
     DEF Continue, RegisterCreate, InviteCreate, OAuthCreate, Recalculate, SendLink, StoreLink,
         ResendCurrent, ResendDrop, VerifyCurrent, VerifyUser, VerifyWrite, VerifyDrop,
         InviteLookup, InviteProfile, InviteRole, OAuthLookup, OAuthLink,
         CreateRefused, AccountGone, ProfileExists, IdentityTaken, Refuse, rows
<1>6. ASSUME NEW w \in Workers, Arrive(w) \/ Fault(w)
      PROVE  invite' = invite
  BY <1>6 DEF Arrive, Register, Issue, OAuth, Resend, Verify, RegisterWithInvite, Fault,
              Refuse, rows
<1>7. CASE UNCHANGED vars
  BY <1>1, <1>7 DEF vars
<1>8. QED
  BY <1>1, <1>4, <1>5, <1>6, <1>7
     DEF Next, AdminCreate, ChangeEmail, Delete, FirstRead, ExpireLink, rows

(* A request that does not move keeps what Made says of it.                *)
LEMMA MadeStays ==
  ASSUME MadeInv, [Next]_vars, NEW r \in Request, Assigned(r), Made(r)
  PROVE  Made(r)'
<1>1. r.pc \in OnInvite => Keeps(r.invite)
  BY StepKeeps DEF MadeInv, Assigned
<1>2. r.pc \in OnAccount => Grows(r.account)
  BY StepGrows DEF Assigned
<1>3. CASE r.pc \in {"inviteProfile", "inviteRole", "inviteAccept"}
  <2>1. Keeps(r.invite) /\ Grows(r.account) /\ r.pc \in OnInvite
    BY <1>1, <1>2, <1>3 DEF OnInvite, OnAccount
  <2>2. QED
    BY <1>3, <2>1 DEF Made, Keeps, Grows
<1>4. CASE r.pc \notin {"inviteProfile", "inviteRole", "inviteAccept"}
  BY <1>1, <1>4 DEF Made, Keeps
<1>5. QED
  BY <1>3, <1>4

(* A request that moves: what it has just done gives what Made asks next.   *)
LEMMA MadeMoves ==
  ASSUME MadeInv, NEW w \in Workers, Arrive(w) \/ Continue(w) \/ Fault(w)
  PROVE  Made(req[w])'
<1>1. /\ TInv /\ Made(req[w]) /\ req[w] \in Request /\ Assigned(req[w])
      /\ req \in [Workers -> Request]
  BY DEF MadeInv, TInv, TypeOK
<1>2. CASE req'[w].pc \notin OnInvite
  BY <1>2 DEF Made, OnInvite
<1>3. ASSUME NEW i \in Invites, RegisterWithInvite(w, i)
      PROVE  Made(req[w])'
  BY <1>1, <1>3 DEF RegisterWithInvite, Begin, Idle, Usable, rows, Made, OnInvite
<1>4. CASE InviteLookup(w)
  <2>1. CASE Finish(w)
    BY <1>1, <2>1 DEF Finish, Idle, Made, OnInvite
  <2>2. CASE Goto(w, "inviteCreate")
    <3>1. req'[w] = [req[w] EXCEPT !.pc = "inviteCreate"] /\ invite' = invite
      BY <1>1, <1>4, <2>2 DEF InviteLookup, Goto, rows
    <3>2. /\ req'[w].pc = "inviteCreate"
          /\ req'[w].invite = req[w].invite /\ req'[w].role = req[w].role
      BY <1>1, <3>1 DEF Request
    <3>3. QED
      BY <1>1, <1>4, <3>1, <3>2 DEF InviteLookup, At, Made, OnInvite
  <2>3. QED
    BY <1>4, <2>1, <2>2 DEF InviteLookup
<1>5. ASSUME NEW a \in Accounts, InviteCreate(w, a)
      PROVE  Made(req[w])'
  <2>1. /\ req'[w] = [req[w] EXCEPT !.pc = "inviteProfile", !.account = a]
        /\ invite' = invite
    BY <1>1, <1>5 DEF InviteCreate
  <2>2. account'[a] = [NewAccount(req[w].email, req[w].invite) EXCEPT
                           !.password = TRUE, !.verified = TRUE]
    BY <1>1, <1>5 DEF InviteCreate, Add, TInv, TypeOK
  <2>3. /\ account'[a].state = "kept" /\ account'[a].from = req[w].invite
        /\ account'[a].verified /\ account'[a].role = NONE
    BY <2>2 DEF NewAccount, Unborn
  <2>4. req[w].role = invite[req[w].invite].role /\ invite[req[w].invite].state # "unborn"
    BY <1>1, <1>5 DEF InviteCreate, At, Made, OnInvite
  <2>5. /\ req'[w].pc = "inviteProfile" /\ req'[w].account = a
        /\ req'[w].invite = req[w].invite /\ req'[w].role = req[w].role
    BY <1>1, <2>1 DEF Request
  <2>6. QED
    BY <2>1, <2>3, <2>4, <2>5 DEF Made
<1>6. CASE InviteProfile(w)
  <2> DEFINE a == req[w].account
             p == IF req[w].role = NONE THEN "inviteAccept" ELSE "inviteRole"
  <2>1. a \in Accounts
    BY <1>1, <1>6 DEF InviteProfile, At, Assigned, OnAccount
  <2>2. req'[w] = [req[w] EXCEPT !.pc = p] /\ invite' = invite
    BY <1>1, <1>6 DEF InviteProfile, Goto
  <2>3. account'[a] = [account[a] EXCEPT !.profile = TRUE]
    BY <1>1, <1>6, <2>1 DEF InviteProfile, TInv, TypeOK
  <2>4. /\ account'[a].state = account[a].state /\ account'[a].from = account[a].from
        /\ account'[a].verified = account[a].verified
        /\ account'[a].role = account[a].role /\ account'[a].profile
    BY <1>1, <2>1, <2>3 DEF TInv, TypeOK, Account
  <2>5. /\ req'[w].pc = p /\ req'[w].account = a
        /\ req'[w].invite = req[w].invite /\ req'[w].role = req[w].role
    BY <1>1, <2>2 DEF Request
  <2>6. QED
    BY <1>1, <1>6, <2>2, <2>4, <2>5 DEF InviteProfile, At, Made, OnInvite
<1>7. CASE InviteRole(w)
  <2> DEFINE a == req[w].account
  <2>1. a \in Accounts
    BY <1>1, <1>7 DEF InviteRole, At, Assigned, OnAccount
  <2>2. req'[w] = [req[w] EXCEPT !.pc = "inviteAccept"] /\ invite' = invite
    BY <1>1, <1>7 DEF InviteRole, Goto
  <2>3. account'[a] = [account[a] EXCEPT !.role = req[w].role]
    BY <1>1, <1>7, <2>1 DEF InviteRole, TInv, TypeOK
  <2>4. /\ account'[a].state = account[a].state /\ account'[a].from = account[a].from
        /\ account'[a].verified = account[a].verified
        /\ account'[a].role = req[w].role /\ account'[a].profile = account[a].profile
    BY <1>1, <2>1, <2>3 DEF TInv, TypeOK, Account
  <2>5. /\ req'[w].pc = "inviteAccept" /\ req'[w].account = a
        /\ req'[w].invite = req[w].invite /\ req'[w].role = req[w].role
    BY <1>1, <2>2 DEF Request
  <2>6. QED
    BY <1>1, <1>7, <2>2, <2>4, <2>5 DEF InviteRole, At, Made, OnInvite
<1>8. CASE req'[w] = Idle
  BY <1>2, <1>8 DEF Idle, OnInvite
<1>9. ASSUME Continue(w), req'[w].pc \in OnInvite
      PROVE  Made(req[w])'
  <2>1. ASSUME NEW p, Goto(w, p)
        PROVE  req'[w].pc = p
    BY <1>1, <2>1 DEF Goto, Request
  <2>2. Finish(w) => req'[w] = Idle
    BY <1>1 DEF Finish
  <2>3. CASE \/ Recalculate(w) \/ SendLink(w) \/ ResendDrop(w) \/ VerifyCurrent(w)
             \/ VerifyUser(w) \/ VerifyWrite(w) \/ VerifyDrop(w) \/ InviteAccept(w)
             \/ OAuthLink(w) \/ \E i \in Invites : IssueCreate(w, i)
             \/ \E a \in Accounts : OAuthCreate(w, a)
             \/ CreateRefused(w) \/ AccountGone(w) \/ ProfileExists(w) \/ IdentityTaken(w)
    BY <1>8, <1>9, <2>1, <2>2, <2>3
       DEF Recalculate, SendLink, ResendDrop, VerifyCurrent, VerifyUser, VerifyWrite, VerifyDrop,
           InviteAccept, OAuthLink, IssueCreate, OAuthCreate, CreateRefused, AccountGone,
           ProfileExists, IdentityTaken, Refuse, OnInvite
  <2>4. CASE \/ \E a \in Accounts : RegisterCreate(w, a)
             \/ \E l \in Links : StoreLink(w, l)
             \/ ResendCurrent(w) \/ OAuthLookup(w)
    <3>1. req'[w].pc \in {"recalculate", "mail", "store", "resendDrop", "oauthLink", "oauthCreate"}
      BY <1>1, <2>1, <2>4 DEF RegisterCreate, StoreLink, ResendCurrent, OAuthLookup, Request
    <3>2. QED
      BY <1>9, <3>1 DEF OnInvite
  <2>5. QED
    BY <1>4, <1>5, <1>6, <1>7, <1>9, <2>3, <2>4 DEF Continue
<1>10. ASSUME Arrive(w), req'[w].pc \in OnInvite
       PROVE  Made(req[w])'
  BY <1>1, <1>3, <1>10 DEF Arrive, Register, Issue, OAuth, Resend, Verify, Begin, Idle, OnInvite
<1>11. CASE Fault(w)
  BY <1>1, <1>8, <1>11 DEF Fault, Refuse, Finish
<1>12. QED
  BY <1>2, <1>9, <1>10, <1>11

LEMMA ReqSteps ==
  ASSUME TInv, [Next]_vars, NEW u \in Workers
  PROVE  req'[u] = req[u] \/ Arrive(u) \/ Continue(u) \/ Fault(u)
<1>1. ASSUME NEW w \in Workers, w # u, Arrive(w) \/ Continue(w) \/ Fault(w)
      PROVE  req'[u] = req[u]
  <2>1. ASSUME NEW r, Begin(w, r)
        PROVE  req'[u] = req[u]
    BY <1>1, <2>1 DEF Begin, TInv, TypeOK
  <2>2. ASSUME NEW p, Goto(w, p)
        PROVE  req'[u] = req[u]
    BY <1>1, <2>2 DEF Goto, TInv, TypeOK
  <2>3. Finish(w) => req'[u] = req[u]
    BY <1>1 DEF Finish, TInv, TypeOK
  <2>4. CASE Arrive(w)
    BY <2>1, <2>4 DEF Arrive, Register, Issue, OAuth, Resend, Verify, RegisterWithInvite
  <2>5. CASE Fault(w)
    BY <2>3, <2>5 DEF Fault, Refuse
  <2>6. CASE \/ \E a \in Accounts : RegisterCreate(w, a) \/ InviteCreate(w, a)
             \/ \E l \in Links : StoreLink(w, l)
             \/ ResendCurrent(w)
    BY <1>1, <2>6 DEF RegisterCreate, InviteCreate, StoreLink, ResendCurrent, TInv, TypeOK
  <2>7. CASE OAuthLookup(w)
    BY <1>1, <2>2, <2>7 DEF OAuthLookup, TInv, TypeOK
  <2>8. QED
    BY <1>1, <2>2, <2>3, <2>4, <2>5, <2>6, <2>7
       DEF Continue, OAuthCreate, Recalculate, SendLink, ResendDrop, VerifyCurrent, VerifyUser,
           VerifyWrite, VerifyDrop, IssueCreate, InviteLookup, InviteProfile, InviteRole,
           InviteAccept, OAuthLink, CreateRefused, AccountGone, ProfileExists, IdentityTaken,
           Refuse
<1>2. Environment \/ UNCHANGED vars => req'[u] = req[u]
  BY DEF Environment, AdminCreate, ChangeEmail, Delete, FirstRead, ExpireLink, ExpireInvite, vars
<1>3. QED
  BY <1>1, <1>2 DEF Next, Environment

LEMMA StepMadeInv == MadeInv /\ [Next]_vars => MadeInv'
<1> SUFFICES ASSUME MadeInv, [Next]_vars
             PROVE  MadeInv'
  OBVIOUS
<1>1. TInv'
  BY StepTInv DEF MadeInv
<1>2. ASSUME NEW u \in Workers
      PROVE  Made(req[u])'
  <2>1. CASE Arrive(u) \/ Continue(u) \/ Fault(u)
    BY <2>1, MadeMoves
  <2>2. CASE req'[u] = req[u]
    <3>1. PICK r \in Request : r = req[u] /\ Assigned(r) /\ Made(r)
      BY DEF MadeInv, TInv, TypeOK
    <3>2. Made(r)'
      BY <3>1, MadeStays
    <3>3. QED
      BY <2>2, <3>1, <3>2 DEF Made
  <2>3. QED
    BY <2>1, <2>2, ReqSteps DEF MadeInv
<1>3. QED
  BY <1>1, <1>2 DEF MadeInv

LEMMA InitMadeInv == Init => MadeInv
  BY InitTInv DEF Init, Idle, MadeInv, Made, OnInvite

(* An accepted invitation stays with its account; InviteAccept is the only  *)
(* step that accepts one, and Made says the account is complete by then.    *)
LEMMA StepAccepted == MadeInv /\ AcceptedHasAccount /\ [Next]_vars => AcceptedHasAccount'
<1> SUFFICES ASSUME MadeInv, AcceptedHasAccount, [Next]_vars,
                    NEW i \in Invites, invite'[i].state = "accepted"
             PROVE  \E a \in Accounts : Complete(a, i)'
  BY DEF AcceptedHasAccount
<1>1. TInv
  BY DEF MadeInv
<1>2. Keeps(i)
  BY <1>1, StepKeeps
<1>3. CASE invite[i].state = "accepted"
  <2>1. PICK a \in Accounts : Complete(a, i)
    BY <1>3 DEF AcceptedHasAccount
  <2>2. Grows(a)
    BY StepGrows
  <2>3. Complete(a, i)'
    BY <1>2, <1>3, <2>1, <2>2 DEF Complete, Grows, Keeps
  <2>4. QED
    BY <2>3
<1>4. CASE invite[i].state # "accepted"
  <2>1. PICK w \in Workers : InviteAccept(w)
    <3>1. CASE invite' = invite
      BY <1>4, <3>1
    <3>2. ASSUME NEW w \in Workers, NEW j \in Invites, IssueCreate(w, j)
          PROVE  FALSE
      BY <1>1, <1>4, <3>2 DEF IssueCreate, TInv, TypeOK
    <3>3. ASSUME NEW j \in Invites, ExpireInvite(j)
          PROVE  FALSE
      BY <1>1, <1>4, <3>3 DEF ExpireInvite, TInv, TypeOK, Invite
    <3>4. ASSUME NEW w \in Workers, Arrive(w) \/ Fault(w)
          PROVE  invite' = invite
      BY <3>4 DEF Arrive, Register, Issue, OAuth, Resend, Verify, RegisterWithInvite, Fault,
                  Refuse, rows
    <3>5. ASSUME NEW w \in Workers, Continue(w), ~InviteAccept(w)
          PROVE  invite' = invite
      BY <3>2, <3>5
         DEF Continue, RegisterCreate, InviteCreate, OAuthCreate, Recalculate, SendLink,
             StoreLink, ResendCurrent, ResendDrop, VerifyCurrent, VerifyUser, VerifyWrite,
             VerifyDrop, InviteLookup, InviteProfile, InviteRole, OAuthLookup, OAuthLink,
             CreateRefused, AccountGone, ProfileExists, IdentityTaken, Refuse, rows
    <3>6. CASE UNCHANGED vars
      BY <3>1, <3>6 DEF vars
    <3>7. QED
      BY <3>1, <3>3, <3>4, <3>5, <3>6
         DEF Next, AdminCreate, ChangeEmail, Delete, FirstRead, ExpireLink, rows
  <2> DEFINE a == req[w].account
  <2>2. req[w] \in Request /\ Assigned(req[w]) /\ Made(req[w]) /\ At(w, "inviteAccept")
    BY <2>1 DEF InviteAccept, MadeInv, TInv, TypeOK
  <2>3. i = req[w].invite /\ account' = account
    BY <1>1, <1>4, <2>1, <2>2 DEF InviteAccept, TInv, TypeOK, Invite
  <2>4. a \in Accounts
    BY <2>2 DEF At, Assigned, OnAccount
  <2>5. /\ account[a].state # "unborn" /\ account[a].from = i
        /\ account[a].verified /\ account[a].profile
        /\ account[a].role = invite[i].role /\ invite[i].state # "unborn"
    BY <2>2, <2>3 DEF At, Made, OnInvite
  <2>6. \E b \in Accounts : Complete(b, i)'
    BY <1>2, <2>3, <2>4, <2>5 DEF Complete, Keeps
  <2>7. QED
    BY <2>6
<1>5. QED
  BY <1>3, <1>4

(* Whatever other registrations, sign-ins and administrators do to the same *)
(* address, and wherever requests break off, an accepted invitation has     *)
(* brought one complete account into being.                                *)
THEOREM AcceptedInvitations == Spec => []AcceptedHasAccount
<1>1. Init => AcceptedHasAccount
  BY DEF Init, AcceptedHasAccount
<1>2. QED
  BY <1>1, InitMadeInv, StepMadeInv, StepAccepted, PTL DEF Spec

-----------------------------------------------------------------------------
(* An identity that is linked stays with its account until that is deleted. *)
LEMMA StepLinked ==
  ASSUME TInv, [Next]_vars, NEW a \in Accounts, Kept(a)', NEW o \in Identities,
         identity[o] = a
  PROVE  identity'[o] = a
<1>1. CASE identity' = identity
  BY <1>1
<1>2. ASSUME NEW w \in Workers, OAuthLink(w)
      PROVE  identity'[o] = a
  BY <1>2, NoneAssumption DEF OAuthLink, TInv, TypeOK
<1>3. ASSUME NEW w \in Workers, NEW b \in Accounts, OAuthCreate(w, b)
      PROVE  identity'[o] = a
  BY <1>3, NoneAssumption DEF OAuthCreate, TInv, TypeOK
<1>4. ASSUME NEW b \in Accounts, Delete(b)
      PROVE  identity'[o] = a
  BY <1>4 DEF Delete, Kept, TInv, TypeOK, Account
<1>5. ASSUME NEW w \in Workers, Arrive(w) \/ Fault(w)
      PROVE  identity' = identity
  BY <1>5 DEF Arrive, Register, Issue, OAuth, Resend, Verify, RegisterWithInvite, Fault,
              Refuse, rows
<1>6. ASSUME NEW w \in Workers, Continue(w)
      PROVE  identity'[o] = a
  BY <1>1, <1>2, <1>3, <1>6
     DEF Continue, RegisterCreate, InviteCreate, Recalculate, SendLink, StoreLink,
         ResendCurrent, ResendDrop, VerifyCurrent, VerifyUser, VerifyWrite, VerifyDrop,
         IssueCreate, InviteLookup, InviteProfile, InviteRole, InviteAccept, OAuthLookup,
         CreateRefused, AccountGone, ProfileExists, IdentityTaken, Refuse, rows
<1>7. CASE UNCHANGED vars
  BY <1>1, <1>7 DEF vars
<1>8. QED
  BY <1>1, <1>4, <1>5, <1>6, <1>7
     DEF Next, AdminCreate, ChangeEmail, FirstRead, ExpireLink, ExpireInvite, rows

(* A step that makes an account gives it a way in.                         *)
LEMMA StepCreates ==
  ASSUME TInv, [Next]_vars, NEW a \in Accounts, account[a].state = "unborn",
         account'[a].state # "unborn"
  PROVE  \/ account'[a].password \/ account'[a].from = "admin"
         \/ \E o \in Identities : identity'[o] = a
<1>1. ASSUME NEW b \in Accounts, NEW r, Add(b, r)
      PROVE  b = a /\ account'[a] = r
  BY <1>1 DEF Add, TInv, TypeOK
<1>2. ASSUME NEW b \in Accounts, NEW e,
             \/ account' = [account EXCEPT ![b].verified = TRUE]
             \/ account' = [account EXCEPT ![b].profile = TRUE]
             \/ account' = [account EXCEPT ![b].role = e]
             \/ account' = [account EXCEPT ![b].email = e]
             \/ Kept(b) /\ account' = [account EXCEPT ![b].state = "deleted", ![b].email = NONE]
             \/ account' = account
      PROVE  FALSE
  <2>1. account \in [Accounts -> Account] /\ account[a] \in Account
    BY DEF TInv, TypeOK
  <2>2. CASE a = b
    BY <1>2, <2>1, <2>2 DEF Account, Kept
  <2>3. CASE a # b
    BY <1>2, <2>1, <2>3 DEF Account
  <2>4. QED
    BY <2>2, <2>3
<1>3. ASSUME NEW w \in Workers, Continue(w)
      PROVE  account'[a].password \/ \E o \in Identities : identity'[o] = a
  <2>1. req[w] \in Request /\ Assigned(req[w])
    BY DEF TInv, TypeOK
  <2>2. ASSUME NEW b \in Accounts, RegisterCreate(w, b)
        PROVE  account'[a].password
    <3>1. account'[a] = [NewAccount(req[w].email, "registration") EXCEPT
                             !.password = TRUE, !.profile = TRUE, !.role = DefaultRole]
      BY <1>1, <2>2 DEF RegisterCreate
    <3>2. QED
      BY <3>1 DEF NewAccount, Unborn
  <2>3. ASSUME NEW b \in Accounts, InviteCreate(w, b)
        PROVE  account'[a].password
    <3>1. account'[a] = [NewAccount(req[w].email, req[w].invite) EXCEPT
                             !.password = TRUE, !.verified = TRUE]
      BY <1>1, <2>3 DEF InviteCreate
    <3>2. QED
      BY <3>1 DEF NewAccount, Unborn
  <2>4. ASSUME NEW b \in Accounts, OAuthCreate(w, b)
        PROVE  \E o \in Identities : identity'[o] = a
    <3>1. req[w].identity \in Identities
      BY <2>1, <2>4 DEF OAuthCreate, At, Assigned
    <3>2. identity'[req[w].identity] = a
      BY <1>1, <2>4, <3>1 DEF OAuthCreate, TInv, TypeOK
    <3>3. QED
      BY <3>1, <3>2
  <2>5. CASE VerifyWrite(w) \/ InviteProfile(w) \/ InviteRole(w) \/ OAuthLink(w)
    <3>1. req[w].account \in Accounts
      BY <2>1, <2>5
         DEF VerifyWrite, InviteProfile, InviteRole, OAuthLink, At, Assigned, OnAccount
    <3>2. QED
      BY <1>2, <2>5, <3>1 DEF VerifyWrite, InviteProfile, InviteRole, OAuthLink
  <2>6. QED
    BY <1>2, <1>3, <2>2, <2>3, <2>4, <2>5
       DEF Continue, Recalculate, SendLink, StoreLink, ResendCurrent, ResendDrop, VerifyCurrent,
           VerifyUser, VerifyDrop, IssueCreate, InviteLookup, InviteAccept, OAuthLookup,
           CreateRefused, AccountGone, ProfileExists, IdentityTaken, Refuse, rows
<1>4. ASSUME NEW b \in Accounts, NEW e \in Emails, AdminCreate(b, e)
      PROVE  account'[a].from = "admin"
  <2>1. account'[a] = [NewAccount(e, "admin") EXCEPT !.profile = TRUE, !.role = DefaultRole]
    BY <1>1, <1>4 DEF AdminCreate
  <2>2. QED
    BY <2>1 DEF NewAccount, Unborn
<1>5. ASSUME NEW b \in Accounts, \/ \E e \in Emails : ChangeEmail(b, e)
                                 \/ Delete(b) \/ FirstRead(b)
      PROVE  FALSE
  BY <1>2, <1>5 DEF ChangeEmail, Delete, FirstRead
<1>6. ASSUME account' = account
      PROVE  FALSE
  BY <1>6
<1>7. ASSUME NEW w \in Workers, Arrive(w) \/ Fault(w)
      PROVE  FALSE
  BY <1>6, <1>7 DEF Arrive, Register, Issue, OAuth, Resend, Verify, RegisterWithInvite, Fault,
                    Refuse, rows
<1>8. QED
  BY <1>3, <1>4, <1>5, <1>6, <1>7 DEF Next, ExpireLink, ExpireInvite, rows, vars

LEMMA StepDoor == MadeInv /\ EveryAccountHasDoor /\ [Next]_vars => EveryAccountHasDoor'
<1> SUFFICES ASSUME MadeInv, EveryAccountHasDoor, [Next]_vars,
                    NEW a \in Accounts, Kept(a)', account'[a].from # "admin"
             PROVE  account'[a].password \/ \E o \in Identities : identity'[o] = a
  BY DEF EveryAccountHasDoor, Linked
<1>1. TInv /\ Grows(a)
  BY StepGrows DEF MadeInv
<1>2. CASE account[a].state = "unborn"
  BY <1>1, <1>2, StepCreates DEF Kept
<1>3. CASE account[a].state # "unborn"
  <2>1. Kept(a) /\ account[a].from # "admin"
    BY <1>1, <1>3 DEF Grows, Kept, TInv, TypeOK, Account
  <2>2. account[a].password \/ \E o \in Identities : identity[o] = a
    BY <2>1 DEF EveryAccountHasDoor, Linked
  <2>3. CASE account[a].password
    BY <1>1, <1>3, <2>3 DEF Grows
  <2>4. ASSUME NEW o \in Identities, identity[o] = a
        PROVE  identity'[o] = a
    BY <1>1, <2>4, StepLinked
  <2>5. QED
    BY <2>2, <2>3, <2>4
<1>4. QED
  BY <1>2, <1>3

(* No account is left without a way in, however its creation is broken off  *)
(* or overtaken; an administrator's account gets one by a password reset.   *)
THEOREM DoorsStay == Spec => []EveryAccountHasDoor
<1>1. Init => EveryAccountHasDoor
  BY DEF Init, EveryAccountHasDoor, Kept, Unborn
<1>2. QED
  BY <1>1, InitMadeInv, StepMadeInv, StepDoor, PTL DEF Spec

-----------------------------------------------------------------------------
(* Links.  Settled: no link can do anything to the account any more.       *)
Settled(a) == account[a].state = "deleted" \/ account[a].verified

(* A link that is not dead works; it belongs to an account that awaits it.  *)
Works(l) ==
    owner[l] # NONE /\ l \notin dead =>
        /\ l \in alive /\ current[owner[l]] = l
        /\ account[owner[l]].state # "unborn" /\ ~Settled(owner[l])

(* A dead link that is still in Redis is no longer the current one, or its  *)
(* account is settled.                                                     *)
Beaten(l) ==
    l \in alive /\ l \in dead => current[owner[l]] # l \/ Settled(owner[l])

(* The requests that hold a link, read from the two keys.                  *)
OnOwnLink == {"resendDrop", "verifyCurrent", "verifyUser", "verifyWrite", "verifyDrop"}

Followed(r) ==
    /\ r.pc \in OnAccount => account[r.account].state # "unborn"
    /\ r.pc \in OnOwnLink => owner[r.link] = r.account
    /\ r.pc = "verifyCurrent" /\ r.late =>
          current[r.account] # r.link \/ Settled(r.account)
    /\ r.pc = "verifyUser" /\ r.late => Settled(r.account)
    /\ r.pc = "verifyWrite" => ~r.late
    /\ r.pc = "verifyDrop" => Settled(r.account)

LinkRow(l) ==
    /\ Works(l) /\ Beaten(l)
    /\ owner[l] # NONE => account[owner[l]].state # "unborn"
    /\ l \in dead => owner[l] # NONE

LinkInv ==
    /\ MadeInv
    /\ \A l \in Links : LinkRow(l)
    /\ \A a \in Accounts : current[a] # NONE => owner[current[a]] = a
    /\ \A w \in Workers : Followed(req[w])

LEMMA SettledStays ==
  ASSUME MadeInv, [Next]_vars, NEW a \in Accounts, account[a].state # "unborn", Settled(a)
  PROVE  Settled(a)'
  BY StepGrows DEF Grows, Settled

(* The steps that leave the four kinds of key alone and settle no account.  *)
LEMMA QuietLinks ==
  ASSUME LinkInv, [Next]_vars, UNCHANGED <<owner, alive, current, dead>>,
         \A a \in Accounts : account[a].state # "unborn" /\ ~Settled(a) => ~Settled(a)',
         NEW l \in Links
  PROVE  LinkRow(l)'
<1>1. owner[l] # NONE => owner[l] \in Accounts
  BY DEF LinkInv, MadeInv, TInv, TypeOK
<1>2. CASE owner[l] = NONE
  <2>1. l \notin alive /\ l \notin dead
    BY <1>2, NoneAssumption DEF LinkInv, MadeInv, TInv, Owned, LinkRow
  <2>2. QED
    BY <1>2, <2>1 DEF LinkRow, Works, Beaten
<1>3. CASE owner[l] # NONE
  <2>1. Grows(owner[l]) /\ owner[l] \in Accounts
    BY <1>1, <1>3, StepGrows DEF LinkInv
  <2>2. Works(l) /\ Beaten(l) /\ account[owner[l]].state # "unborn"
    BY <1>3 DEF LinkInv, LinkRow
  <2>3. Settled(owner[l]) => Settled(owner[l])'
    BY <2>1, <2>2, SettledStays DEF LinkInv
  <2>4. QED
    BY <1>3, <2>1, <2>2, <2>3 DEF LinkRow, Works, Beaten, Grows, Settled
<1>4. QED
  BY <1>2, <1>3

(* Rows change under a link without settling an account but in three steps. *)
LEMMA Unsettled ==
  ASSUME TInv, [Next]_vars, NEW a \in Accounts, account[a].state # "unborn", ~Settled(a),
         Settled(a)'
  PROVE  \/ \E w \in Workers : (VerifyWrite(w) \/ OAuthLink(w)) /\ req[w].account = a
         \/ Delete(a)
<1>1. account \in [Accounts -> Account] /\ account[a] \in Account
  BY DEF TInv, TypeOK
<1>2. ASSUME NEW b \in Accounts, NEW r, Add(b, r)
      PROVE  FALSE
  <2>1. a # b /\ account'[a] = account[a]
    BY <1>1, <1>2 DEF Add
  <2>2. QED
    BY <2>1 DEF Settled
<1>3. ASSUME NEW b \in Accounts, NEW e,
             \/ account' = [account EXCEPT ![b].profile = TRUE]
             \/ account' = [account EXCEPT ![b].role = e]
             \/ account' = [account EXCEPT ![b].email = e]
             \/ account' = account
      PROVE  FALSE
  <2>1. CASE a = b
    BY <1>1, <1>3, <2>1 DEF Account, Settled
  <2>2. CASE a # b
    BY <1>1, <1>3, <2>2 DEF Account, Settled
  <2>3. QED
    BY <2>1, <2>2
<1>4. ASSUME NEW w \in Workers, Continue(w)
      PROVE  (VerifyWrite(w) \/ OAuthLink(w)) /\ req[w].account = a
  <2>1. req[w] \in Request /\ Assigned(req[w])
    BY DEF TInv, TypeOK
  <2>2. ASSUME NEW b \in Accounts, RegisterCreate(w, b) \/ InviteCreate(w, b) \/ OAuthCreate(w, b)
        PROVE  FALSE
    BY <1>2, <2>2 DEF RegisterCreate, InviteCreate, OAuthCreate
  <2>3. CASE VerifyWrite(w) \/ OAuthLink(w)
    <3>1. account' = [account EXCEPT ![req[w].account].verified = TRUE]
      BY <2>3 DEF VerifyWrite, OAuthLink
    <3>2. req[w].account # a => account'[a] = account[a]
      BY <1>1, <3>1
    <3>3. QED
      BY <2>3, <3>2 DEF Settled
  <2>4. CASE InviteProfile(w) \/ InviteRole(w)
    <3>1. req[w].account \in Accounts
      BY <2>1, <2>4 DEF InviteProfile, InviteRole, At, Assigned, OnAccount
    <3>2. QED
      BY <1>3, <2>4, <3>1 DEF InviteProfile, InviteRole
  <2>5. account' # account
    BY <1>3
  <2>6. QED
    BY <1>4, <2>2, <2>3, <2>4, <2>5
       DEF Continue, Recalculate, SendLink, StoreLink, ResendCurrent, ResendDrop, VerifyCurrent,
           VerifyUser, VerifyDrop, IssueCreate, InviteLookup, InviteAccept, OAuthLookup,
           CreateRefused, AccountGone, ProfileExists, IdentityTaken, Refuse, rows
<1>5. ASSUME NEW b \in Accounts, NEW e \in Emails, AdminCreate(b, e)
      PROVE  FALSE
  BY <1>2, <1>5 DEF AdminCreate
<1>6. ASSUME NEW b \in Accounts, (\E e \in Emails : ChangeEmail(b, e)) \/ FirstRead(b)
      PROVE  FALSE
  BY <1>3, <1>6 DEF ChangeEmail, FirstRead
<1>7. ASSUME NEW b \in Accounts, Delete(b)
      PROVE  Delete(a)
  <2>1. b # a => account'[a] = account[a]
    BY <1>1, <1>7 DEF Delete
  <2>2. QED
    BY <1>7, <2>1 DEF Settled
<1>8. ASSUME account' = account
      PROVE  FALSE
  BY <1>3, <1>8
<1>9. ASSUME NEW w \in Workers, Arrive(w) \/ Fault(w)
      PROVE  FALSE
  BY <1>8, <1>9 DEF Arrive, Register, Issue, OAuth, Resend, Verify, RegisterWithInvite, Fault,
                    Refuse, rows
<1>10. QED
  BY <1>4, <1>5, <1>6, <1>7, <1>8, <1>9 DEF Next, ExpireLink, ExpireInvite, rows, vars

LEMMA KeySteps ==
  ASSUME [Next]_vars
  PROVE  \/ UNCHANGED <<owner, alive, current, dead>>
         \/ \E w \in Workers : \/ \E m \in Links : StoreLink(w, m)
                               \/ ResendDrop(w) \/ VerifyWrite(w) \/ VerifyDrop(w) \/ OAuthLink(w)
         \/ \E a \in Accounts : Delete(a)
         \/ \E m \in Links : ExpireLink(m)
<1>1. ASSUME NEW w \in Workers, Arrive(w) \/ Fault(w)
      PROVE  UNCHANGED <<owner, alive, current, dead>>
  BY <1>1 DEF Arrive, Register, Issue, OAuth, Resend, Verify, RegisterWithInvite, Fault, Refuse,
              links
<1>2. ASSUME NEW w \in Workers, Continue(w)
      PROVE  \/ UNCHANGED <<owner, alive, current, dead>>
             \/ \E m \in Links : StoreLink(w, m)
             \/ ResendDrop(w) \/ VerifyWrite(w) \/ VerifyDrop(w) \/ OAuthLink(w)
  BY <1>2
     DEF Continue, RegisterCreate, InviteCreate, OAuthCreate, Recalculate, SendLink,
         ResendCurrent, VerifyCurrent, VerifyUser, IssueCreate, InviteLookup, InviteProfile,
         InviteRole, InviteAccept, OAuthLookup, CreateRefused, AccountGone, ProfileExists,
         IdentityTaken, Refuse, keys, links
<1>3. QED
  BY <1>1, <1>2 DEF Next, AdminCreate, ChangeEmail, FirstRead, ExpireInvite, links, vars

(* The account of a link stays, and a link that is not the newest stays so. *)
LEMMA StepLinks ==
  ASSUME LinkInv, [Next]_vars, NEW l \in Links, owner[l] # NONE
  PROVE  /\ owner'[l] = owner[l] /\ owner[l] \in Accounts
         /\ current[owner[l]] # l => current'[owner[l]] # l
<1>1. TInv /\ owner[l] \in Accounts
  BY DEF LinkInv, MadeInv, TInv, TypeOK
<1>2. CASE UNCHANGED <<owner, alive, current, dead>>
  BY <1>1, <1>2
<1>3. ASSUME NEW w \in Workers, NEW m \in Links, StoreLink(w, m)
      PROVE  owner'[l] = owner[l] /\ (current[owner[l]] # l => current'[owner[l]] # l)
  <2>1. l # m
    BY <1>3 DEF StoreLink
  <2>2. QED
    BY <1>1, <1>3, <2>1 DEF StoreLink, TInv, TypeOK
<1>4. ASSUME NEW w \in Workers, ResendDrop(w) \/ VerifyWrite(w) \/ VerifyDrop(w) \/ OAuthLink(w)
      PROVE  owner'[l] = owner[l] /\ (current[owner[l]] # l => current'[owner[l]] # l)
  BY <1>1, <1>4, NoneAssumption
     DEF ResendDrop, VerifyWrite, VerifyDrop, OAuthLink, keys, TInv, TypeOK
<1>5. ASSUME NEW a \in Accounts, Delete(a)
      PROVE  owner'[l] = owner[l] /\ current' = current
  BY <1>5 DEF Delete, keys
<1>6. ASSUME NEW m \in Links, ExpireLink(m)
      PROVE  owner'[l] = owner[l] /\ (current[owner[l]] # l => current'[owner[l]] # l)
  BY <1>1, <1>6, NoneAssumption DEF ExpireLink
<1>7. QED
  BY <1>1, <1>2, <1>3, <1>4, <1>5, <1>6, KeySteps

(* A new link is the newest, and supersedes the others of its account.     *)
LEMMA StoreRows ==
  ASSUME LinkInv, NEW w \in Workers, NEW m \in Links, StoreLink(w, m), NEW l \in Links
  PROVE  LinkRow(l)'
<1> DEFINE b == req[w].account
<1>1. TInv /\ LinkRow(l) /\ LinkRow(m) /\ b \in Accounts /\ account[b].state # "unborn"
  BY DEF LinkInv, MadeInv, TInv, TypeOK, StoreLink, At, Followed, Assigned, OnAccount
<1>2. /\ account' = account /\ alive' = alive \cup {m} /\ owner[m] = NONE
      /\ owner' = [owner EXCEPT ![m] = b] /\ current' = [current EXCEPT ![b] = m]
      /\ dead' = dead \cup LinksOf(b)
                      \cup IF Kept(b) /\ ~account[b].verified THEN {} ELSE {m}
  BY DEF StoreLink, rows
<1>3. account[b] \in Account
  BY <1>1 DEF TInv, TypeOK
<1>4. Settled(b) <=> ~(Kept(b) /\ ~account[b].verified)
  BY <1>1, <1>3 DEF Settled, Kept, Account
<1>5. CASE l = m
  <2>1. owner'[l] = b /\ current'[b] = l /\ l \in alive'
    BY <1>1, <1>2, <1>5 DEF TInv, TypeOK
  <2>2. l \in dead' <=> Settled(b)
    BY <1>1, <1>2, <1>4, <1>5, NoneAssumption DEF LinksOf, LinkRow
  <2>3. QED
    BY <1>1, <1>2, <2>1, <2>2, NoneAssumption DEF LinkRow, Works, Beaten, Settled
<1>6. CASE l # m /\ owner[l] = b
  <2>1. owner'[l] = b /\ current'[b] # l /\ l \in dead' /\ b # NONE
    BY <1>1, <1>2, <1>6, NoneAssumption DEF TInv, TypeOK, LinksOf
  <2>2. QED
    BY <1>1, <1>2, <2>1 DEF LinkRow, Works, Beaten
<1>7. CASE l # m /\ owner[l] # b
  <2>1. owner'[l] = owner[l] /\ (l \in dead' <=> l \in dead) /\ (l \in alive' <=> l \in alive)
    BY <1>1, <1>2, <1>7 DEF TInv, TypeOK, LinksOf
  <2>2. owner[l] # NONE => current'[owner[l]] = current[owner[l]]
    BY <1>1, <1>2, <1>7 DEF TInv, TypeOK
  <2>3. l \in alive => owner[l] # NONE
    BY <1>1, NoneAssumption DEF TInv, Owned
  <2>4. QED
    BY <1>1, <1>2, <2>1, <2>2, <2>3 DEF LinkRow, Works, Beaten, Settled
<1>8. QED
  BY <1>5, <1>6, <1>7

(* An account that is settled takes all its links with it.                 *)
LEMMA SettleRows ==
  ASSUME LinkInv, [Next]_vars, NEW b \in Accounts, account[b].state # "unborn", Settled(b)',
         \A a \in Accounts : a # b => account'[a] = account[a],
         UNCHANGED <<owner, alive, current>>, dead' = dead \cup LinksOf(b),
         NEW l \in Links
  PROVE  LinkRow(l)'
<1>1. LinkRow(l) /\ TInv /\ Grows(b)
  BY StepGrows DEF LinkInv, MadeInv
<1>2. CASE owner[l] = b
  <2>1. l \in dead' /\ b # NONE
    BY <1>2, NoneAssumption DEF LinksOf
  <2>2. QED
    BY <1>1, <1>2, <2>1 DEF LinkRow, Works, Beaten, Grows
<1>3. CASE owner[l] # b
  <2>1. owner[l] # NONE => owner[l] \in Accounts /\ account'[owner[l]] = account[owner[l]]
    BY <1>1, <1>3 DEF TInv, TypeOK
  <2>2. l \in dead' <=> l \in dead
    BY <1>3 DEF LinksOf
  <2>3. l \in alive => owner[l] # NONE
    BY <1>1, NoneAssumption DEF TInv, Owned
  <2>4. QED
    BY <1>1, <2>1, <2>2, <2>3 DEF LinkRow, Works, Beaten, Settled
<1>4. QED
  BY <1>2, <1>3

(* Keys are dropped only of links that are dead.                           *)
LEMMA DropRows ==
  ASSUME LinkInv, NEW w \in Workers, ResendDrop(w) \/ VerifyDrop(w), NEW l \in Links
  PROVE  LinkRow(l)'
<1> DEFINE b == req[w].account
           m == req[w].link
<1>1. /\ LinkRow(l) /\ TInv /\ b \in Accounts /\ m \in Links /\ Followed(req[w])
      /\ owner[m] = b /\ b # NONE
  BY NoneAssumption DEF LinkInv, MadeInv, TInv, TypeOK, ResendDrop, VerifyDrop, At, Followed,
                        Assigned, OnAccount, OnLink, OnOwnLink
<1>2. CASE ResendDrop(w)
  <2>1. UNCHANGED <<account, owner, current>>
    BY <1>2 DEF ResendDrop, rows
  <2>2. alive' = alive \ {m} /\ dead' = dead \cup {m}
    BY <1>2 DEF ResendDrop
  <2>3. QED
    BY <1>1, <2>1, <2>2 DEF LinkRow, Works, Beaten, Settled
<1>3. CASE VerifyDrop(w)
  <2>1. /\ UNCHANGED <<account, owner, dead>> /\ alive' = alive \ {m}
        /\ current' = [current EXCEPT ![b] = NONE]
    BY <1>3 DEF VerifyDrop, rows
  <2>2. Settled(b)
    BY <1>1, <1>3 DEF VerifyDrop, At, Followed
  <2>3. CASE owner[l] = b
    BY <1>1, <2>1, <2>2, <2>3 DEF LinkRow, Works, Beaten, Settled
  <2>4. CASE owner[l] # b
    <3>1. l # m /\ (owner[l] # NONE => current'[owner[l]] = current[owner[l]])
      BY <1>1, <2>1, <2>4 DEF TInv, TypeOK
    <3>2. l \in alive => owner[l] # NONE
      BY <1>1, NoneAssumption DEF TInv, Owned
    <3>3. QED
      BY <1>1, <2>1, <3>1, <3>2 DEF LinkRow, Works, Beaten, Settled
  <2>5. QED
    BY <2>3, <2>4
<1>4. QED
  BY <1>2, <1>3

LEMMA ExpireRows ==
  ASSUME LinkInv, NEW m \in Links, ExpireLink(m), NEW l \in Links
  PROVE  LinkRow(l)'
<1>1. LinkRow(l) /\ TInv /\ owner[m] \in Accounts
  BY DEF LinkInv, MadeInv, TInv, Owned, ExpireLink
<1>2. /\ UNCHANGED <<account, owner>> /\ alive' = alive \ {m} /\ dead' = dead \cup {m}
      /\ current' = [a \in Accounts |-> IF current[a] = m THEN NONE ELSE current[a]]
  BY DEF ExpireLink, rows
<1>3. CASE l = m
  BY <1>1, <1>2, <1>3, NoneAssumption DEF LinkRow, Works, Beaten, Settled
<1>4. CASE l # m
  <2>1. l \in alive => owner[l] # NONE
    BY <1>1, NoneAssumption DEF TInv, Owned
  <2>2. owner[l] # NONE =>
           /\ current[owner[l]] = l => current'[owner[l]] = l
           /\ current[owner[l]] # l => current'[owner[l]] # l
    BY <1>1, <1>2, <1>4, NoneAssumption DEF TInv, TypeOK
  <2>3. QED
    BY <1>1, <1>2, <1>4, <2>1, <2>2 DEF LinkRow, Works, Beaten, Settled
<1>5. QED
  BY <1>3, <1>4

LEMMA StepRows ==
  ASSUME LinkInv, [Next]_vars, NEW l \in Links
  PROVE  LinkRow(l)'
<1>1. TInv
  BY DEF LinkInv, MadeInv
<1>2. ASSUME NEW w \in Workers, VerifyWrite(w) \/ OAuthLink(w)
      PROVE  LinkRow(l)'
  <2>1. PICK b \in Accounts : /\ b = req[w].account
                              /\ account[b] \in Account /\ account[b].state # "unborn"
    BY <1>1, <1>2
       DEF TInv, TypeOK, VerifyWrite, OAuthLink, At, Assigned, OnAccount, Kept
  <2>2. /\ account' = [account EXCEPT ![b].verified = TRUE]
        /\ UNCHANGED <<owner, alive, current>> /\ dead' = dead \cup LinksOf(b)
    BY <1>2, <2>1 DEF VerifyWrite, OAuthLink, keys
  <2>3. account'[b].verified /\ \A a \in Accounts : a # b => account'[a] = account[a]
    BY <1>1, <2>1, <2>2 DEF TInv, TypeOK, Account
  <2>4. Settled(b)'
    BY <2>3 DEF Settled
  <2>5. QED
    BY <2>1, <2>2, <2>3, <2>4, SettleRows
<1>3. ASSUME NEW b \in Accounts, Delete(b)
      PROVE  LinkRow(l)'
  <2>1. account[b] \in Account /\ account[b].state # "unborn"
    BY <1>1, <1>3 DEF TInv, TypeOK, Delete, Kept
  <2>2. UNCHANGED <<owner, alive, current>> /\ dead' = dead \cup LinksOf(b)
    BY <1>3 DEF Delete, keys
  <2>3. /\ account'[b].state = "deleted"
        /\ \A a \in Accounts : a # b => account'[a] = account[a]
    BY <1>1, <1>3, <2>1 DEF Delete, TInv, TypeOK, Account
  <2>4. Settled(b)'
    BY <2>3 DEF Settled
  <2>5. QED
    BY <2>1, <2>2, <2>3, <2>4, SettleRows
<1>4. CASE /\ UNCHANGED <<owner, alive, current, dead>>
           /\ ~\E w \in Workers : VerifyWrite(w) \/ OAuthLink(w)
           /\ ~\E b \in Accounts : Delete(b)
  <2>1. \A a \in Accounts : account[a].state # "unborn" /\ ~Settled(a) => ~Settled(a)'
    BY <1>1, <1>4, Unsettled
  <2>2. QED
    BY <1>4, <2>1, QuietLinks
<1>5. QED
  BY <1>2, <1>3, <1>4, KeySteps, StoreRows, DropRows, ExpireRows

(* vt:current names a link of its own account.                             *)
LEMMA StepCurrent ==
  ASSUME LinkInv, [Next]_vars, NEW a \in Accounts, current'[a] # NONE
  PROVE  owner'[current'[a]] = a
<1>1. TInv /\ current[a] \in {NONE} \cup Links
  BY DEF LinkInv, MadeInv, TInv, TypeOK
<1>2. ASSUME current'[a] = current[a]
      PROVE  owner'[current'[a]] = a
  <2>1. owner[current[a]] = a /\ current[a] \in Links /\ a # NONE
    BY <1>1, <1>2, NoneAssumption DEF LinkInv
  <2>2. QED
    BY <1>2, <2>1, StepLinks
<1>3. ASSUME NEW w \in Workers, NEW m \in Links, StoreLink(w, m), current'[a] # current[a]
      PROVE  owner'[current'[a]] = a
  BY <1>1, <1>3 DEF StoreLink, TInv, TypeOK
<1>4. ASSUME current'[a] # current[a]
      PROVE  \E w \in Workers, m \in Links : StoreLink(w, m)
  <2>1. ASSUME NEW w \in Workers, VerifyDrop(w)
        PROVE  FALSE
    BY <1>1, <1>4, <2>1, NoneAssumption DEF VerifyDrop, TInv, TypeOK
  <2>2. ASSUME NEW m \in Links, ExpireLink(m)
        PROVE  FALSE
    BY <1>4, <2>2 DEF ExpireLink
  <2>3. QED
    BY <1>4, <2>1, <2>2, KeySteps DEF ResendDrop, VerifyWrite, OAuthLink, Delete, keys
<1>5. QED
  BY <1>2, <1>3, <1>4

(* A request that does not move keeps what Followed says of it.            *)
LEMMA FollowedStays ==
  ASSUME LinkInv, [Next]_vars, NEW r \in Request, Assigned(r), Followed(r)
  PROVE  Followed(r)'
<1>1. CASE r.pc \notin OnAccount
  BY <1>1 DEF Followed, OnOwnLink, OnAccount
<1>2. CASE r.pc \in OnAccount
  <2>1. r.account \in Accounts /\ account[r.account].state # "unborn"
    BY <1>2 DEF Assigned, Followed
  <2>2. account'[r.account].state # "unborn"
    BY <2>1, StepGrows DEF LinkInv, Grows
  <2>3. Settled(r.account) => Settled(r.account)'
    BY <2>1, SettledStays DEF LinkInv
  <2>4. CASE r.pc \in OnOwnLink
    <3>1. r.link \in Links /\ owner[r.link] = r.account /\ owner[r.link] # NONE
      BY <2>1, <2>4, NoneAssumption DEF Assigned, Followed, OnOwnLink, OnLink
    <3>2. /\ owner'[r.link] = r.account
          /\ current[r.account] # r.link => current'[r.account] # r.link
      BY <3>1, StepLinks
    <3>3. QED
      BY <2>2, <2>3, <3>2 DEF Followed, Settled
  <2>5. CASE r.pc \notin OnOwnLink
    BY <2>2, <2>5 DEF Followed, OnOwnLink
  <2>6. QED
    BY <2>4, <2>5
<1>3. QED
  BY <1>1, <1>2

(* A request that moves to a statement about an account: it was about that  *)
(* account before, or has just made or found it.                           *)
LEMMA OnBorn ==
  ASSUME LinkInv, [Next]_vars, NEW w \in Workers, Arrive(w) \/ Continue(w) \/ Fault(w),
         req'[w].pc \in OnAccount
  PROVE  account'[req'[w].account].state # "unborn"
<1>1. /\ TInv /\ Followed(req[w]) /\ req[w] \in Request /\ Assigned(req[w])
      /\ req \in [Workers -> Request]
  BY DEF LinkInv, MadeInv, TInv, TypeOK
<1>2. CASE req[w].pc \in OnAccount /\ req'[w].account = req[w].account
  <2>1. req[w].account \in Accounts /\ account[req[w].account].state # "unborn"
    BY <1>1, <1>2 DEF Assigned, Followed
  <2>2. QED
    BY <1>2, <2>1, StepGrows DEF LinkInv, Grows
<1>3. ASSUME NEW a \in Accounts, NEW r, Add(a, r), r.state = "kept", req'[w].account = a
      PROVE  account'[req'[w].account].state # "unborn"
  BY <1>1, <1>3 DEF Add, TInv, TypeOK
<1>4. ASSUME NEW a \in Accounts, RegisterCreate(w, a) \/ InviteCreate(w, a)
      PROVE  account'[req'[w].account].state # "unborn"
  BY <1>1, <1>3, <1>4 DEF RegisterCreate, InviteCreate, NewAccount, Unborn, Request
<1>5. ASSUME NEW a \in Accounts, Resend(w, a)
      PROVE  account'[req'[w].account].state # "unborn"
  BY <1>1, <1>5 DEF Resend, Begin, Idle, Kept, rows
<1>6. ASSUME NEW l \in Links, Verify(w, l)
      PROVE  account'[req'[w].account].state # "unborn"
  <2>1. owner[l] # NONE /\ LinkRow(l) /\ account' = account
    BY <1>1, <1>6, NoneAssumption DEF Verify, TInv, Owned, LinkInv, rows
  <2>2. req'[w].account = owner[l]
    BY <1>1, <1>6 DEF Verify, Begin, Idle
  <2>3. QED
    BY <2>1, <2>2 DEF LinkRow
<1>7. CASE OAuthLookup(w)
  <2>1. account' = account
    BY <1>7 DEF OAuthLookup, rows
  <2>2. ASSUME NEW a \in Holder(req[w].email),
               req' = [req EXCEPT ![w].pc = "oauthLink", ![w].account = a]
        PROVE  account'[req'[w].account].state # "unborn"
    BY <1>1, <2>1, <2>2 DEF Holder, Kept, Request
  <2>3. ~Goto(w, "oauthCreate")
    BY <1>1 DEF Goto, OnAccount, Request
  <2>4. QED
    BY <1>7, <2>2, <2>3 DEF OAuthLookup
<1>8. ASSUME req[w].pc \in OnAccount, NEW p, Goto(w, p)
      PROVE  account'[req'[w].account].state # "unborn"
  BY <1>1, <1>2, <1>8 DEF Goto, Request
<1>9. ~Finish(w)
  BY <1>1 DEF Finish, Idle, OnAccount
<1>10. ASSUME NEW p, Goto(w, p), p \notin OnAccount
       PROVE  FALSE
  BY <1>1, <1>10 DEF Goto, Request
<1>11. ASSUME NEW r, Begin(w, r), r.pc \notin OnAccount
       PROVE  FALSE
  BY <1>1, <1>11 DEF Begin
<1>12. CASE Arrive(w) \/ Fault(w)
  BY <1>5, <1>6, <1>9, <1>11, <1>12
     DEF Arrive, Register, Issue, OAuth, RegisterWithInvite, Fault, Refuse, Idle, OnAccount
<1>13. CASE \E l \in Links : StoreLink(w, l)
  <2>1. req[w].pc \in OnAccount /\ req'[w].account = req[w].account
    BY <1>1, <1>13 DEF StoreLink, At, OnAccount, Request
  <2>2. QED
    BY <1>2, <2>1
<1>14. CASE ResendCurrent(w)
  <2>1. req[w].pc \in OnAccount /\ req'[w].account = req[w].account
    BY <1>1, <1>14 DEF ResendCurrent, At, OnAccount, Request
  <2>2. QED
    BY <1>2, <2>1
<1>15. CASE Recalculate(w) \/ ResendDrop(w) \/ VerifyCurrent(w) \/ VerifyUser(w) \/ VerifyWrite(w)
            \/ InviteProfile(w) \/ InviteRole(w)
  BY <1>8, <1>9, <1>15
     DEF Recalculate, ResendDrop, VerifyCurrent, VerifyUser, VerifyWrite, InviteProfile,
         InviteRole, At, OnAccount
<1>16. CASE InviteLookup(w)
  BY <1>9, <1>10, <1>16 DEF InviteLookup, OnAccount
<1>17. QED
  BY <1>4, <1>7, <1>9, <1>12, <1>13, <1>14, <1>15, <1>16
     DEF Continue, OAuthCreate, SendLink, VerifyDrop, IssueCreate, InviteAccept, OAuthLink,
         CreateRefused, AccountGone, ProfileExists, IdentityTaken, Refuse

(* A request that moves to a link: it has just read what Followed says.     *)
LEMMA FollowedMoves ==
  ASSUME LinkInv, [Next]_vars, NEW w \in Workers, Arrive(w) \/ Continue(w) \/ Fault(w)
  PROVE  Followed(req[w])'
<1>1. /\ TInv /\ Followed(req[w]) /\ req[w] \in Request /\ Assigned(req[w])
      /\ req \in [Workers -> Request]
  BY DEF LinkInv, MadeInv, TInv, TypeOK
<1>2. req'[w].pc \in OnAccount => account'[req'[w].account].state # "unborn"
  BY OnBorn
<1>3. CASE req'[w].pc \notin OnOwnLink
  BY <1>2, <1>3 DEF Followed, OnOwnLink
<1>4. ASSUME NEW l \in Links, Verify(w, l)
      PROVE  Followed(req[w])'
  <2>1. /\ req'[w] = [Idle EXCEPT !.pc = "verifyCurrent", !.link = l, !.account = owner[l],
                                  !.late = l \in dead]
        /\ l \in alive /\ UNCHANGED <<account, owner, current>>
    BY <1>1, <1>4 DEF Verify, Begin, rows, links
  <2>2. /\ req'[w].pc = "verifyCurrent" /\ req'[w].link = l /\ req'[w].account = owner[l]
        /\ req'[w].late <=> l \in dead
    BY <2>1 DEF Idle
  <2>3. Beaten(l)
    BY DEF LinkInv, LinkRow
  <2>4. QED
    BY <1>2, <2>1, <2>2, <2>3 DEF Followed, Beaten, Settled
<1>5. CASE ResendCurrent(w) /\ req'[w].pc = "resendDrop"
  <2> DEFINE a == req[w].account
  <2>1. /\ a \in Accounts /\ current[a] # NONE /\ UNCHANGED <<account, owner>>
        /\ req'[w] = [req[w] EXCEPT !.link = current[a], !.pc = "resendDrop"]
    BY <1>1, <1>5 DEF ResendCurrent, At, Assigned, OnAccount, rows, links, Request
  <2>2. owner[current[a]] = a /\ req'[w].link = current[a] /\ req'[w].account = a
    BY <1>1, <2>1 DEF LinkInv, Request
  <2>3. QED
    BY <1>2, <1>5, <2>1, <2>2 DEF Followed
<1>6. ASSUME NEW p \in {"verifyUser", "verifyWrite", "verifyDrop"}, Goto(w, p),
             req[w].pc \in OnOwnLink, owner' = owner,
             NEW b \in Accounts, b = req[w].account,
             p = "verifyUser" /\ req[w].late => Settled(b)',
             p = "verifyWrite" => ~req[w].late,
             p = "verifyDrop" => Settled(b)'
      PROVE  Followed(req[w])'
  <2>1. /\ req'[w].pc = p /\ req'[w].account = req[w].account
        /\ req'[w].link = req[w].link /\ req'[w].late = req[w].late
    BY <1>1, <1>6 DEF Goto, Request
  <2>2. QED
    BY <1>1, <1>2, <1>6, <2>1 DEF Followed, Settled
<1>7. CASE VerifyCurrent(w) /\ ~Finish(w)
  <2>1. PICK b \in Accounts : b = req[w].account
    BY <1>1, <1>7 DEF VerifyCurrent, At, Assigned, OnAccount
  <2>2. UNCHANGED <<account, owner>> /\ Goto(w, "verifyUser") /\ current[b] = req[w].link
    BY <1>7, <2>1 DEF VerifyCurrent, rows, links
  <2>3. req[w].late => Settled(b)'
    BY <1>1, <1>7, <2>1, <2>2 DEF VerifyCurrent, At, Followed, Settled
  <2>4. QED
    BY <1>6, <1>7, <2>1, <2>2, <2>3 DEF VerifyCurrent, At, OnOwnLink
<1>8. CASE VerifyUser(w) /\ ~Finish(w)
  <2>1. PICK b \in Accounts : b = req[w].account
    BY <1>1, <1>8 DEF VerifyUser, At, Assigned, OnAccount
  <2>2. /\ UNCHANGED <<account, owner>> /\ Goto(w, "verifyWrite")
        /\ Kept(b) /\ ~account[b].verified
    BY <1>8, <2>1 DEF VerifyUser, rows, links
  <2>3. ~req[w].late
    BY <1>1, <1>8, <2>1, <2>2 DEF VerifyUser, At, Followed, Settled, Kept
  <2>4. QED
    BY <1>6, <1>8, <2>1, <2>2, <2>3 DEF VerifyUser, At, OnOwnLink
<1>9. CASE VerifyWrite(w)
  <2>1. PICK b \in Accounts : b = req[w].account
    BY <1>1, <1>9 DEF VerifyWrite, At, Assigned, OnAccount
  <2>2. /\ account' = [account EXCEPT ![b].verified = TRUE] /\ account[b] \in Account
        /\ owner' = owner /\ Goto(w, "verifyDrop")
    BY <1>1, <1>9, <2>1 DEF VerifyWrite, keys, TInv, TypeOK
  <2>3. account'[b].verified
    BY <1>1, <2>2 DEF TInv, TypeOK, Account
  <2>4. Settled(b)'
    BY <2>3 DEF Settled
  <2>5. QED
    BY <1>6, <1>9, <2>1, <2>2, <2>4 DEF VerifyWrite, At, OnOwnLink
<1>10. Finish(w) => req'[w].pc \notin OnOwnLink
  BY <1>1 DEF Finish, Idle, OnOwnLink
<1>11. ASSUME NEW p, Goto(w, p), p \notin OnOwnLink
       PROVE  req'[w].pc \notin OnOwnLink
  BY <1>1, <1>11 DEF Goto, Request
<1>12. ASSUME NEW r, Begin(w, r), r.pc \notin OnOwnLink
       PROVE  req'[w].pc \notin OnOwnLink
  BY <1>1, <1>12 DEF Begin
<1>13. CASE Arrive(w) \/ Fault(w)
  BY <1>3, <1>4, <1>10, <1>12, <1>13
     DEF Arrive, Register, Issue, OAuth, Resend, RegisterWithInvite, Fault, Refuse, Idle,
         OnOwnLink
<1>14. CASE \/ \E a \in Accounts : RegisterCreate(w, a) \/ InviteCreate(w, a)
            \/ \E l \in Links : StoreLink(w, l)
            \/ OAuthLookup(w)
            \/ ResendCurrent(w) /\ req'[w].pc # "resendDrop"
  <2>1. req'[w].pc \notin OnOwnLink
    BY <1>1, <1>14
       DEF RegisterCreate, InviteCreate, StoreLink, OAuthLookup, ResendCurrent, Goto, OnOwnLink,
           Request
  <2>2. QED
    BY <1>3, <2>1
<1>15. CASE \/ Recalculate(w) \/ ResendDrop(w) \/ InviteProfile(w) \/ InviteRole(w)
            \/ InviteLookup(w)
  BY <1>3, <1>10, <1>11, <1>15
     DEF Recalculate, ResendDrop, InviteProfile, InviteRole, InviteLookup, OnOwnLink
<1>16. CASE Finish(w)
  BY <1>3, <1>10, <1>16
<1>17. CASE Continue(w) /\ ~Finish(w)
  <2>1. /\ \A a \in Accounts : ~OAuthCreate(w, a)
        /\ \A i \in Invites : ~IssueCreate(w, i)
        /\ ~SendLink(w) /\ ~VerifyDrop(w) /\ ~InviteAccept(w) /\ ~OAuthLink(w)
        /\ ~CreateRefused(w) /\ ~AccountGone(w) /\ ~ProfileExists(w) /\ ~IdentityTaken(w)
    BY <1>17
       DEF OAuthCreate, SendLink, VerifyDrop, IssueCreate, InviteAccept, OAuthLink,
           CreateRefused, AccountGone, ProfileExists, IdentityTaken, Refuse
  <2>2. \/ \E a \in Accounts : RegisterCreate(w, a) \/ InviteCreate(w, a)
        \/ \E l \in Links : StoreLink(w, l)
        \/ OAuthLookup(w) \/ ResendCurrent(w)
        \/ Recalculate(w) \/ ResendDrop(w) \/ InviteProfile(w) \/ InviteRole(w)
        \/ InviteLookup(w) \/ VerifyCurrent(w) \/ VerifyUser(w) \/ VerifyWrite(w)
    BY <1>17, <2>1, Zenon DEF Continue
  <2>3. CASE ResendCurrent(w)
    BY <1>5, <1>14, <2>3
  <2>4. QED
    BY <1>7, <1>8, <1>9, <1>14, <1>15, <1>17, <2>2, <2>3
<1>18. QED
  BY <1>13, <1>16, <1>17

LEMMA StepLinkInv == LinkInv /\ [Next]_vars => LinkInv'
<1> SUFFICES ASSUME LinkInv, [Next]_vars
             PROVE  LinkInv'
  OBVIOUS
<1>1. MadeInv'
  BY StepMadeInv DEF LinkInv
<1>2. ASSUME NEW u \in Workers
      PROVE  Followed(req[u])'
  <2>1. CASE Arrive(u) \/ Continue(u) \/ Fault(u)
    BY <2>1, FollowedMoves
  <2>2. CASE req'[u] = req[u]
    <3>1. PICK r \in Request : r = req[u] /\ Assigned(r) /\ Followed(r)
      BY DEF LinkInv, MadeInv, TInv, TypeOK
    <3>2. Followed(r)'
      BY <3>1, FollowedStays
    <3>3. QED
      BY <2>2, <3>1, <3>2 DEF Followed, Settled
  <2>3. QED
    BY <2>1, <2>2, ReqSteps DEF LinkInv, MadeInv
<1>3. QED
  BY <1>1, <1>2, StepRows, StepCurrent DEF LinkInv

LEMMA InitLinkInv == Init => LinkInv
<1> SUFFICES ASSUME Init
             PROVE  LinkInv
  OBVIOUS
<1>1. \A l \in Links : LinkRow(l)
  BY DEF Init, LinkRow, Works, Beaten
<1>2. \A a \in Accounts : current[a] = NONE
  BY DEF Init
<1>3. \A w \in Workers : Followed(req[w])
  BY DEF Init, Idle, Followed, OnAccount, OnOwnLink
<1>4. QED
  BY <1>1, <1>2, <1>3, InitMadeInv DEF LinkInv

(* However a verification, resends, sign-ins and deletions of one account   *)
(* overlap, a link that was dead when it was followed verifies nothing: it   *)
(* is no longer the newest, or there is nothing left to verify.             *)
THEOREM DeadLinks == Spec => []DeadLinkRefused
<1>1. LinkInv => DeadLinkRefused
  BY DEF LinkInv, Followed, DeadLinkRefused, At
<1>2. QED
  BY <1>1, InitLinkInv, StepLinkInv, PTL DEF Spec

(* And the newest link of an account that awaits verification is there.    *)
THEOREM NewestWorks == Spec => []NewestLinkWorks
<1>1. LinkInv => NewestLinkWorks
  BY DEF LinkInv, LinkRow, Works, NewestLinkWorks
<1>2. QED
  BY <1>1, InitLinkInv, StepLinkInv, PTL DEF Spec
=============================================================================
