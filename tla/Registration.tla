---------------------------- MODULE Registration ----------------------------
(***************************************************************************)
(* How accounts come to exist and addresses come to be verified: public    *)
(* registration, verification links and their resending, invitations,      *)
(* OAuth sign-in, and the administrator's user endpoints.                  *)
(*                                                                         *)
(* The rows are in PostgreSQL, the links in Redis: vt:hash names the        *)
(* account, vt:current:account the newest hash.  An action is one database *)
(* statement or Redis command with the code up to the next await; a        *)
(* pipeline, and a transaction that holds one write to one row at a time,   *)
(* take effect as one.  A request that is refused before it has written or *)
(* waited leaves every variable unchanged and has no action of its own.    *)
(* The addresses are case-insensitive in the database and are taken as     *)
(* equal when it does.  The limit of one mail a minute counts per client     *)
(* address and e-mail, so requests for one account do overlap.             *)
(***************************************************************************)
EXTENDS Integers, FiniteSets

CONSTANTS
    Workers,     \* requests in flight at the same time
    Emails,
    Accounts,    \* identifiers of users rows, each used once
    Links,       \* verification tokens, each issued once
    Invites,     \* rows of invitations, each with its token
    Roles,       \* the roles an invitation may name
    DefaultRole, \* the role "user"
    Identities,  \* pairs of provider and providerUserId
    Calls,       \* what clients and the environment do in this instance
    NONE

AllCalls == {"register", "resend", "verify", "issue", "invited", "oauth", "create",
             "email", "delete", "read", "expire", "fault"}
Origins == {"registration", "admin", "oauth"}

ASSUME CallsAssumption == Calls \subseteq AllCalls
ASSUME FiniteAssumption == IsFiniteSet(Accounts) /\ IsFiniteSet(Links)
ASSUME NoneAssumption ==
    /\ NONE \notin Accounts \cup Links \cup Invites \cup Roles \cup Emails \cup Identities
    /\ Invites \cap Origins = {}

VARIABLES
    account,   \* the users rows, each with its profile and role rows
    identity,  \* oauth_identities: the account each identity is linked to
    invite,    \* invitations
    owner,     \* the account a link was stored for
    alive,     \* links with a key vt:hash
    current,   \* vt:current:account
    mailed,    \* links handed to the mail queue
    dead,      \* history: the links that must not verify any more
    req        \* the locals of each request in flight

rows == <<account, identity, invite>>
keys == <<owner, alive, current>>
links == <<owner, alive, current, mailed, dead>>
vars == <<account, identity, invite, owner, alive, current, mailed, dead, req>>

-----------------------------------------------------------------------------
(* from is history: what made the account. *)
Account == [state : {"unborn", "kept", "deleted"},
            email : {NONE} \cup Emails,
            verified : BOOLEAN,
            password : BOOLEAN,
            profile : BOOLEAN,
            role : {NONE, DefaultRole} \cup Roles,
            from : {NONE} \cup Origins \cup Invites]

Unborn == [state |-> "unborn", email |-> NONE, verified |-> FALSE, password |-> FALSE,
           profile |-> FALSE, role |-> NONE, from |-> NONE]

Invite == [state : {"unborn", "open", "accepted"}, expired : BOOLEAN,
           email : {NONE} \cup Emails, role : {NONE} \cup Roles]

PC == {"idle", "create", "recalculate", "store", "mail",
       "resendCurrent", "resendDrop",
       "verifyCurrent", "verifyUser", "verifyWrite", "verifyDrop",
       "issueCreate", "inviteLookup", "inviteCreate", "inviteProfile", "inviteRole",
       "inviteAccept", "oauthLookup", "oauthLink", "oauthCreate"}

(* late is history: the link a verification came with was dead already. *)
Request == [pc : PC,
            email : {NONE} \cup Emails,
            account : {NONE} \cup Accounts,
            link : {NONE} \cup Links,
            invite : {NONE} \cup Invites,
            role : {NONE} \cup Roles,
            identity : {NONE} \cup Identities,
            late : BOOLEAN]

Idle == [pc |-> "idle", email |-> NONE, account |-> NONE, link |-> NONE, invite |-> NONE,
         role |-> NONE, identity |-> NONE, late |-> FALSE]

At(w, pc) == req[w].pc = pc
Accepts(w, call) == At(w, "idle") /\ call \in Calls
Begin(w, r) == req' = [req EXCEPT ![w] = r]
Goto(w, pc) == req' = [req EXCEPT ![w].pc = pc]
Finish(w) == req' = [req EXCEPT ![w] = Idle]

Kept(a) == account[a].state = "kept"
Holder(e) == {a \in Accounts : Kept(a) /\ account[a].email = e}
Taken(e) == Holder(e) # {}
LinksOf(a) == {l \in Links : owner[l] = a}
Linked(a) == {o \in Identities : identity[o] = a}
Usable(i) == invite[i].state = "open" /\ ~invite[i].expired

(* The bound on Accounts: a request that will create one starts only while  *)
(* there is an identifier for it.  The bound on Links likewise.            *)
Creators == {w \in Workers : req[w].pc \in {"create", "inviteLookup", "inviteCreate",
                                            "oauthLookup", "oauthCreate"}}
AccountsLeft ==
    Cardinality({a \in Accounts : account[a].state = "unborn"}) > Cardinality(Creators)

Senders == {w \in Workers : req[w].pc \in {"create", "recalculate", "store",
                                           "resendCurrent", "resendDrop"}}
LinksLeft == Cardinality({l \in Links : owner[l] = NONE}) > Cardinality(Senders)

Init ==
    /\ account = [a \in Accounts |-> Unborn]
    /\ identity = [o \in Identities |-> NONE]
    /\ invite = [i \in Invites |-> [state |-> "unborn", expired |-> FALSE,
                                    email |-> NONE, role |-> NONE]]
    /\ owner = [l \in Links |-> NONE]
    /\ alive = {} /\ mailed = {} /\ dead = {}
    /\ current = [a \in Accounts |-> NONE]
    /\ req = [w \in Workers |-> Idle]

-----------------------------------------------------------------------------
(* users.create with its nested rows: the e-mail is unique. *)
Add(a, r) ==
    /\ account[a].state = "unborn" /\ ~Taken(r.email)
    /\ account' = [account EXCEPT ![a] = r]

NewAccount(e, from) == [Unborn EXCEPT !.state = "kept", !.email = e, !.from = from]

(* A statement that finds its row missing, or the unique value taken, ends  *)
(* the request with an error.                                              *)
Refuse(w) == Finish(w) /\ UNCHANGED <<rows, links>>

(* register: the settings allow it and the address was free when it looked. *)
Register(w, e) ==
    /\ Accepts(w, "register") /\ AccountsLeft /\ LinksLeft
    /\ ~Taken(e)
    /\ Begin(w, [Idle EXCEPT !.pc = "create", !.email = e])
    /\ UNCHANGED <<rows, links>>

RegisterCreate(w, a) ==
    /\ At(w, "create")
    /\ Add(a, [NewAccount(req[w].email, "registration") EXCEPT
                  !.password = TRUE, !.profile = TRUE, !.role = DefaultRole])
    /\ req' = [req EXCEPT ![w].pc = "recalculate", ![w].account = a]
    /\ UNCHANGED <<identity, invite, links>>

(* recalculate creates a profile that is missing, for an account that is   *)
(* not: it fails when the account is gone.                                 *)
Recalculate(w) ==
    /\ At(w, "recalculate") /\ Kept(req[w].account)
    /\ Goto(w, "store")
    /\ UNCHANGED <<rows, links>>

(* SET vt:current and SET vt:hash, of register and resend: the older links  *)
(* of the account are superseded.                                          *)
StoreLink(w, l) ==
    /\ At(w, "store") /\ owner[l] = NONE
    /\ owner' = [owner EXCEPT ![l] = req[w].account]
    /\ alive' = alive \cup {l}
    /\ current' = [current EXCEPT ![req[w].account] = l]
    /\ dead' = dead \cup LinksOf(req[w].account)
                    \cup IF Kept(req[w].account) /\ ~account[req[w].account].verified
                         THEN {} ELSE {l}
    /\ req' = [req EXCEPT ![w].pc = "mail", ![w].link = l]
    /\ UNCHANGED <<rows, mailed>>

SendLink(w) ==
    /\ At(w, "mail")
    /\ mailed' = mailed \cup {req[w].link}
    /\ Finish(w)
    /\ UNCHANGED <<rows, keys, dead>>

-----------------------------------------------------------------------------
(* resendVerificationEmail *)
Resend(w, a) ==
    /\ Accepts(w, "resend") /\ LinksLeft
    /\ Kept(a) /\ ~account[a].verified
    /\ Begin(w, [Idle EXCEPT !.pc = "resendCurrent", !.account = a])
    /\ UNCHANGED <<rows, links>>

ResendCurrent(w) ==
    /\ At(w, "resendCurrent")
    /\ LET l == current[req[w].account] IN
       req' = [req EXCEPT ![w].link = l,
                          ![w].pc = IF l = NONE THEN "store" ELSE "resendDrop"]
    /\ UNCHANGED <<rows, links>>

ResendDrop(w) ==
    /\ At(w, "resendDrop")
    /\ alive' = alive \ {req[w].link}
    /\ dead' = dead \cup {req[w].link}
    /\ Goto(w, "store")
    /\ UNCHANGED <<rows, owner, current, mailed>>

-----------------------------------------------------------------------------
(* verifyEmail: GET vt:hash, GET vt:current, findById, update, DEL both. *)
Verify(w, l) ==
    /\ Accepts(w, "verify")
    /\ l \in mailed \cap alive
    /\ Begin(w, [Idle EXCEPT !.pc = "verifyCurrent", !.link = l, !.account = owner[l],
                             !.late = l \in dead])
    /\ UNCHANGED <<rows, links>>

(* Mutant: the link is taken at its word. *)
VerifyAnyLink(w) ==
    /\ At(w, "verifyCurrent")
    /\ Goto(w, "verifyUser")
    /\ UNCHANGED <<rows, links>>

VerifyCurrent(w) ==
    /\ At(w, "verifyCurrent")
    /\ IF current[req[w].account] = req[w].link THEN Goto(w, "verifyUser") ELSE Finish(w)
    /\ UNCHANGED <<rows, links>>

(* Mutant: the link is consumed before the account is verified. *)
VerifyConsumesFirst(w) ==
    /\ At(w, "verifyUser")
    /\ Kept(req[w].account) /\ ~account[req[w].account].verified
    /\ Goto(w, "verifyWrite")
    /\ alive' = alive \ {req[w].link}
    /\ current' = [current EXCEPT ![req[w].account] = NONE]
    /\ UNCHANGED <<rows, owner, mailed, dead>>

VerifyUser(w) ==
    /\ At(w, "verifyUser")
    /\ IF Kept(req[w].account) /\ ~account[req[w].account].verified
       THEN Goto(w, "verifyWrite") ELSE Finish(w)
    /\ UNCHANGED <<rows, links>>

VerifyWrite(w) ==
    /\ At(w, "verifyWrite") /\ Kept(req[w].account)
    /\ account' = [account EXCEPT ![req[w].account].verified = TRUE]
    /\ dead' = dead \cup LinksOf(req[w].account)
    /\ Goto(w, "verifyDrop")
    /\ UNCHANGED <<identity, invite, keys, mailed>>

VerifyDrop(w) ==
    /\ At(w, "verifyDrop")
    /\ alive' = alive \ {req[w].link}
    /\ current' = [current EXCEPT ![req[w].account] = NONE]
    /\ Finish(w)
    /\ UNCHANGED <<rows, owner, mailed, dead>>

-----------------------------------------------------------------------------
(* issueInvitation: looks for an account, and the role when there is one;   *)
(* never for an invitation that is open already.                           *)
Issue(w, e, r) ==
    /\ Accepts(w, "issue") /\ ~Taken(e)
    /\ Begin(w, [Idle EXCEPT !.pc = "issueCreate", !.email = e, !.role = r])
    /\ UNCHANGED <<rows, links>>

IssueCreate(w, i) ==
    /\ At(w, "issueCreate") /\ invite[i].state = "unborn"
    /\ invite' = [invite EXCEPT ![i] = [state |-> "open", expired |-> FALSE,
                                        email |-> req[w].email, role |-> req[w].role]]
    /\ Finish(w)
    /\ UNCHANGED <<account, identity, links>>

(* registerWithInvite: six statements and no transaction. *)
RegisterWithInvite(w, i) ==
    /\ Accepts(w, "invited") /\ AccountsLeft
    /\ Usable(i)
    /\ Begin(w, [Idle EXCEPT !.pc = "inviteLookup", !.invite = i,
                             !.email = invite[i].email, !.role = invite[i].role])
    /\ UNCHANGED <<rows, links>>

InviteLookup(w) ==
    /\ At(w, "inviteLookup")
    /\ IF Taken(req[w].email) THEN Finish(w) ELSE Goto(w, "inviteCreate")
    /\ UNCHANGED <<rows, links>>

(* Mutant: the invitation is marked accepted with the users row. *)
InviteAcceptedFirst(w, a) ==
    /\ At(w, "inviteCreate")
    /\ Add(a, [NewAccount(req[w].email, req[w].invite) EXCEPT
                  !.password = TRUE, !.verified = TRUE])
    /\ invite' = [invite EXCEPT ![req[w].invite].state = "accepted"]
    /\ req' = [req EXCEPT ![w].pc = "inviteProfile", ![w].account = a]
    /\ UNCHANGED <<identity, links>>

InviteCreate(w, a) ==
    /\ At(w, "inviteCreate")
    /\ Add(a, [NewAccount(req[w].email, req[w].invite) EXCEPT
                  !.password = TRUE, !.verified = TRUE])
    /\ req' = [req EXCEPT ![w].pc = "inviteProfile", ![w].account = a]
    /\ UNCHANGED <<identity, invite, links>>

(* userProfiles.create: the account must exist, and the profile must not. *)
InviteProfile(w) ==
    /\ At(w, "inviteProfile")
    /\ Kept(req[w].account) /\ ~account[req[w].account].profile
    /\ account' = [account EXCEPT ![req[w].account].profile = TRUE]
    /\ Goto(w, IF req[w].role = NONE THEN "inviteAccept" ELSE "inviteRole")
    /\ UNCHANGED <<identity, invite, links>>

InviteRole(w) ==
    /\ At(w, "inviteRole") /\ Kept(req[w].account)
    /\ account' = [account EXCEPT ![req[w].account].role = req[w].role]
    /\ Goto(w, "inviteAccept")
    /\ UNCHANGED <<identity, invite, links>>

InviteAccept(w) ==
    /\ At(w, "inviteAccept")
    /\ invite' = [invite EXCEPT ![req[w].invite].state = "accepted"]
    /\ Finish(w)
    /\ UNCHANGED <<account, identity, links>>

-----------------------------------------------------------------------------
(* processOAuthLogin.  An identity that is known only refreshes its tokens  *)
(* and lastLoginAt; an unknown one is linked by e-mail, or gets an account. *)
OAuth(w, o, e) ==
    /\ Accepts(w, "oauth") /\ AccountsLeft
    /\ identity[o] = NONE
    /\ Begin(w, [Idle EXCEPT !.pc = "oauthLookup", !.identity = o, !.email = e])
    /\ UNCHANGED <<rows, links>>

OAuthLookup(w) ==
    /\ At(w, "oauthLookup")
    /\ IF Taken(req[w].email)
       THEN \E a \in Holder(req[w].email) :
                req' = [req EXCEPT ![w].pc = "oauthLink", ![w].account = a]
       ELSE Goto(w, "oauthCreate")
    /\ UNCHANGED <<rows, links>>

OAuthLink(w) ==
    LET a == req[w].account IN
    /\ At(w, "oauthLink")
    /\ identity[req[w].identity] = NONE /\ Kept(a)
    /\ identity' = [identity EXCEPT ![req[w].identity] = a]
    /\ account' = [account EXCEPT ![a].verified = TRUE]
    /\ dead' = dead \cup LinksOf(a)
    /\ Finish(w)
    /\ UNCHANGED <<invite, keys, mailed>>

(* Mutant: the account and the identity are two statements. *)
OAuthCreateInSteps(w, a) ==
    /\ At(w, "oauthCreate")
    /\ Add(a, [NewAccount(req[w].email, "oauth") EXCEPT
                  !.verified = TRUE, !.profile = TRUE, !.role = DefaultRole])
    /\ req' = [req EXCEPT ![w].pc = "oauthLink", ![w].account = a]
    /\ UNCHANGED <<identity, invite, links>>

OAuthCreate(w, a) ==
    /\ At(w, "oauthCreate") /\ identity[req[w].identity] = NONE
    /\ Add(a, [NewAccount(req[w].email, "oauth") EXCEPT
                  !.verified = TRUE, !.profile = TRUE, !.role = DefaultRole])
    /\ identity' = [identity EXCEPT ![req[w].identity] = a]
    /\ Finish(w)
    /\ UNCHANGED <<invite, links>>

-----------------------------------------------------------------------------
(* Statements that fail where the request above would have gone on. *)
CreateRefused(w) ==
    /\ req[w].pc \in {"create", "inviteCreate", "oauthCreate"}
    /\ Taken(req[w].email)
    /\ Refuse(w)

AccountGone(w) ==
    /\ req[w].pc \in {"recalculate", "verifyWrite", "inviteProfile", "inviteRole", "oauthLink"}
    /\ ~Kept(req[w].account)
    /\ Refuse(w)

ProfileExists(w) ==
    /\ At(w, "inviteProfile") /\ account[req[w].account].profile
    /\ Refuse(w)

IdentityTaken(w) ==
    /\ req[w].pc \in {"oauthLink", "oauthCreate"}
    /\ identity[req[w].identity] # NONE
    /\ Refuse(w)

(* A command fails or the process dies: what was written stays. *)
Fault(w) ==
    /\ "fault" \in Calls /\ ~At(w, "idle")
    /\ Refuse(w)

-----------------------------------------------------------------------------
(* The administrator's endpoints: createUser, a new address, deletion with  *)
(* its cascade.  The keys in Redis stay.                                   *)
AdminCreate(a, e) ==
    /\ "create" \in Calls /\ AccountsLeft
    /\ Add(a, [NewAccount(e, "admin") EXCEPT !.profile = TRUE, !.role = DefaultRole])
    /\ UNCHANGED <<identity, invite, links, req>>

ChangeEmail(a, e) ==
    /\ "email" \in Calls /\ Kept(a) /\ ~Taken(e)
    /\ account' = [account EXCEPT ![a].email = e]
    /\ UNCHANGED <<identity, invite, links, req>>

Delete(a) ==
    /\ "delete" \in Calls /\ Kept(a)
    /\ account' = [account EXCEPT ![a].state = "deleted", ![a].email = NONE]
    /\ identity' = [o \in Identities |-> IF identity[o] = a THEN NONE ELSE identity[o]]
    /\ dead' = dead \cup LinksOf(a)
    /\ UNCHANGED <<invite, keys, mailed, req>>

(* getProfile of someone who has signed in creates a profile that is missing. *)
FirstRead(a) ==
    /\ "read" \in Calls /\ Kept(a) /\ account[a].verified /\ ~account[a].profile
    /\ account' = [account EXCEPT ![a].profile = TRUE]
    /\ UNCHANGED <<identity, invite, links, req>>

(* A day for the two keys of a link, one to thirty days for an invitation. *)
ExpireLink(l) ==
    /\ "expire" \in Calls /\ l \in alive
    /\ alive' = alive \ {l}
    /\ current' = [a \in Accounts |-> IF current[a] = l THEN NONE ELSE current[a]]
    /\ dead' = dead \cup {l}
    /\ UNCHANGED <<rows, owner, mailed, req>>

ExpireInvite(i) ==
    /\ "expire" \in Calls /\ Usable(i)
    /\ invite' = [invite EXCEPT ![i].expired = TRUE]
    /\ UNCHANGED <<account, identity, links, req>>

-----------------------------------------------------------------------------
Arrive(w) ==
    \/ \E e \in Emails :
          \/ Register(w, e)
          \/ \E r \in Roles \cup {NONE} : Issue(w, e, r)
          \/ \E o \in Identities : OAuth(w, o, e)
    \/ \E a \in Accounts : Resend(w, a)
    \/ \E l \in Links : Verify(w, l)
    \/ \E i \in Invites : RegisterWithInvite(w, i)

Continue(w) ==
    \/ \E a \in Accounts : RegisterCreate(w, a) \/ InviteCreate(w, a) \/ OAuthCreate(w, a)
    \/ Recalculate(w) \/ SendLink(w)
    \/ \E l \in Links : StoreLink(w, l)
    \/ ResendCurrent(w) \/ ResendDrop(w)
    \/ VerifyCurrent(w) \/ VerifyUser(w) \/ VerifyWrite(w) \/ VerifyDrop(w)
    \/ \E i \in Invites : IssueCreate(w, i)
    \/ InviteLookup(w) \/ InviteProfile(w) \/ InviteRole(w) \/ InviteAccept(w)
    \/ OAuthLookup(w) \/ OAuthLink(w)
    \/ CreateRefused(w) \/ AccountGone(w) \/ ProfileExists(w) \/ IdentityTaken(w)

Next ==
    \/ \E w \in Workers : Arrive(w) \/ Continue(w) \/ Fault(w)
    \/ \E a \in Accounts :
          \/ \E e \in Emails : AdminCreate(a, e) \/ ChangeEmail(a, e)
          \/ Delete(a) \/ FirstRead(a)
    \/ \E l \in Links : ExpireLink(l)
    \/ \E i \in Invites : ExpireInvite(i)

Spec == Init /\ [][Next]_vars

-----------------------------------------------------------------------------
(* Properties.                                                             *)

TypeOK ==
    /\ account \in [Accounts -> Account]
    /\ identity \in [Identities -> {NONE} \cup Accounts]
    /\ invite \in [Invites -> Invite]
    /\ owner \in [Links -> {NONE} \cup Accounts]
    /\ alive \subseteq Links /\ mailed \subseteq Links /\ dead \subseteq Links
    /\ current \in [Accounts -> {NONE} \cup Links]
    /\ req \in [Workers -> Request]

(* A link that was superseded, dropped, used or has expired when it is     *)
(* followed does not verify the account, whatever was left in Redis.       *)
DeadLinkRefused == \A w \in Workers : At(w, "verifyWrite") => ~req[w].late

(* The other direction: the newest link of an account that awaits           *)
(* verification works, whatever registrations, resends, verifications and   *)
(* failures came before.                                                   *)
NewestLinkWorks ==
    \A l \in Links : owner[l] # NONE /\ l \notin dead
        => l \in alive /\ current[owner[l]] = l

(* An accepted invitation has brought one account into being, complete:     *)
(* verified, with a profile and the role it was issued for.                *)
Complete(a, i) ==
    /\ account[a].state # "unborn" /\ account[a].from = i
    /\ account[a].verified /\ account[a].profile
    /\ account[a].role = invite[i].role

AcceptedHasAccount ==
    \A i \in Invites : invite[i].state = "accepted" => \E a \in Accounts : Complete(a, i)

(* No account is left that nobody can sign in to: but for those an          *)
(* administrator creates, each has a password or a linked identity.        *)
EveryAccountHasDoor ==
    \A a \in Accounts : Kept(a) /\ account[a].from # "admin"
        => account[a].password \/ Linked(a) # {}
=============================================================================
