---------------------------- MODULE AuthSessions ----------------------------
(***************************************************************************)
(* The sessions of one account: login, refresh, logout, password change,   *)
(* password reset, forced reset, and OAuth sign-in.                        *)
(*                                                                         *)
(* A session is a pair of JWTs.  The refresh token is alive while Redis     *)
(* holds rt:user:hash; the access token while it has not expired, is not   *)
(* under bl_token, and carries a version not below Redis' tv:user.  Nothing *)
(* makes a handler atomic: an action is one Redis or database command with *)
(* the code up to the next await, and other requests run in between.       *)
(*                                                                         *)
(* A Redis pipeline takes effect as one command.  The account exists, is    *)
(* active, has a password and a verified address.  The set rt:user, which  *)
(* the code writes and never reads, is left out.  A request that the code  *)
(* rejects without writing leaves every variable unchanged and has no      *)
(* action of its own.                                                      *)
(***************************************************************************)
EXTENDS Integers, FiniteSets

CONSTANTS
    Workers,         \* requests in flight at the same time
    Tokens,          \* pairs of access and refresh token
    ResetTokens,     \* password reset tokens
    Passwords,
    InitialVersions, \* tv:user at the start; 0 when the key is missing
    MaxVersion,      \* bound on tv
    Calls,           \* what clients and the environment do in this instance
    NONE

AllCalls == {"login", "oauth", "refresh", "logout", "forgot", "reset",
             "change", "force", "expire", "fault"}
Kinds == {"login", "refresh", "logout", "reset", "change", "force"}

ASSUME VersionAssumption == InitialVersions \subseteq {0, 1} /\ MaxVersion \in Nat
ASSUME CallsAssumption == Calls \subseteq AllCalls
ASSUME NoneAssumption == NONE \notin Tokens \cup ResetTokens \cup Passwords \cup Kinds

VARIABLES
    user,        \* the users row: password, passwordResetRequired
    tokens,      \* every pair that was signed
    active,      \* refresh tokens with a key rt:user:hash
    blacklist,   \* access tokens with a key bl_token
    tv,          \* tv:user, 0 when the key is missing
    thisSecond,  \* pairs signed in the current second
    resets,      \* prt:hash keys
    current,     \* prt:current:user
    req,         \* the locals of each request in flight
    used,        \* history: the reset tokens that have set a password
    raced,       \* history: those two requests held at once, or one that broke off
    ended,       \* history: sessions that answered requests have revoked
    barred,      \* history: access tokens they have invalidated
    slipped      \* history: refresh tokens that overlap may have kept (see Scan)

store == <<active, blacklist, tv, resets, current>>
sessions == <<ended, barred, slipped>>
history == <<used, raced, sessions>>
vars == <<user, tokens, active, blacklist, tv, thisSecond, resets, current, req, history>>

-----------------------------------------------------------------------------
User == [password : Passwords, mustReset : BOOLEAN]

(* version 0: the payload has no tokenVersion.  session is history: the      *)
(* first pair of the session, which a refresh passes on.                   *)
Pair == [access : {"unborn", "live", "expired"}, version : Nat, session : {NONE} \cup Tokens]

Issued(t) == tokens[t].access # "unborn"
AllIssued == {t \in Tokens : Issued(t)}

(* AuthGuard, validateUser and JwtStrategy *)
PayloadVersion(t) == IF tokens[t].version = 0 THEN 1 ELSE tokens[t].version
Accepted(t) ==
    /\ tokens[t].access = "live"
    /\ t \notin blacklist
    /\ tv # 0 /\ PayloadVersion(t) >= tv

PC == {"idle", "version", "versionInit", "rotate", "store", "scan", "revoke", "blacklist",
       "resetCurrent", "resetWrite", "increment", "consume", "changeWrite", "forceWrite"}

Request == [pc : PC,
            kind : {NONE} \cup Kinds,
            token : {NONE} \cup Tokens,           \* the token the request came with
            pair : {NONE} \cup Tokens,            \* the pair it signed
            found : SUBSET Tokens,                \* the result of KEYS
            password : {NONE} \cup Passwords,     \* verified (login), or to be set
            reset : {NONE} \cup ResetTokens,
            session : {NONE} \cup Tokens,         \* history: the session it renews
            before : SUBSET Tokens]               \* history: pairs older than the revocation

Idle == [pc |-> "idle", kind |-> NONE, token |-> NONE, pair |-> NONE, found |-> {},
         password |-> NONE, reset |-> NONE, session |-> NONE, before |-> {}]

At(w, pc) == req[w].pc = pc
Accepts(w, call) == At(w, "idle") /\ call \in Calls
Begin(w, r) == req' = [req EXCEPT ![w] = r]
Goto(w, pc) == req' = [req EXCEPT ![w].pc = pc]
Finish(w) == req' = [req EXCEPT ![w] = Idle]

(* The bound on tv: a request that will increment it starts only while there *)
(* is room for it.                                                         *)
VersionsLeft == tv + Cardinality({w \in Workers : req[w].kind \in {"reset", "force"}})
                    < MaxVersion

(* The bound on Tokens, likewise. *)
Signers == {w \in Workers : req[w].pc \in {"version", "versionInit"}}
PairsLeft == Cardinality({t \in Tokens : ~Issued(t)}) > Cardinality(Signers)

Init ==
    /\ \E p \in Passwords : user = [password |-> p, mustReset |-> FALSE]
    /\ tokens = [t \in Tokens |-> [access |-> "unborn", version |-> 0, session |-> NONE]]
    /\ active = {} /\ blacklist = {} /\ thisSecond = {}
    /\ tv \in InitialVersions
    /\ resets = [h \in ResetTokens |-> "unborn"]
    /\ current = NONE
    /\ used = {} /\ raced = {} /\ ended = {} /\ barred = {} /\ slipped = {}
    /\ req = [w \in Workers |-> Idle]

-----------------------------------------------------------------------------
(* generateTokens.  The payload holds no nonce: signing the same version    *)
(* twice within a second gives the same pair.                              *)

SameSecond(v) == {t \in thisSecond : tokens[t].version = v}

Sign(t, v, session) ==
    /\ IF SameSecond(v) # {} THEN t \in SameSecond(v) ELSE ~Issued(t)
    /\ tokens' = [tokens EXCEPT ![t] = [access |-> "live", version |-> v,
                                        session |-> IF session = NONE THEN t ELSE session]]
    /\ thisSecond' = thisSecond \cup {t}

Second ==
    /\ thisSecond # {} /\ thisSecond' = {}
    /\ UNCHANGED <<user, tokens, store, history, req>>

(* After signing, login stores; refresh first revokes the old token.  A      *)
(* pair signed twice, or for a token that slipped, has slipped.            *)
Signed(w, t) ==
    /\ req' = [req EXCEPT ![w].pair = t,
                          ![w].pc = IF req[w].kind = "login" THEN "store" ELSE "rotate"]
    /\ slipped' = IF Issued(t) \/ req[w].token \in slipped THEN slipped \cup {t} ELSE slipped
    /\ UNCHANGED <<used, raced, ended, barred>>

(* Mutant: the version is initialised without looking. *)
VersionGetResets(w) ==
    /\ At(w, "version")
    /\ tv' = 1
    /\ \E t \in Tokens : Sign(t, 1, req[w].session) /\ Signed(w, t)
    /\ UNCHANGED <<user, active, blacklist, resets, current>>

(* getOrInitTokenVersion: GET, and SET 1 when there was nothing. *)
VersionGet(w) ==
    /\ At(w, "version")
    /\ IF tv = 0
       THEN Goto(w, "versionInit") /\ UNCHANGED <<tokens, thisSecond, history>>
       ELSE \E t \in Tokens : Sign(t, tv, req[w].session) /\ Signed(w, t)
    /\ UNCHANGED <<user, store>>

VersionInit(w) ==
    /\ At(w, "versionInit")
    /\ tv' = 1
    /\ \E t \in Tokens : Sign(t, 1, req[w].session) /\ Signed(w, t)
    /\ UNCHANGED <<user, active, blacklist, resets, current>>

(* revokeRefreshToken, storeRefreshToken *)
Rotate(w) ==
    /\ At(w, "rotate")
    /\ active' = active \ {req[w].token}
    /\ Goto(w, "store")
    /\ UNCHANGED <<user, tokens, blacklist, tv, thisSecond, resets, current, history>>

Store(w) ==
    /\ At(w, "store")
    /\ active' = active \cup {req[w].pair}
    /\ Finish(w)
    /\ UNCHANGED <<user, tokens, blacklist, tv, thisSecond, resets, current, history>>

-----------------------------------------------------------------------------
(* login: all its checks are on one read of the row. *)
Login(w, p) ==
    /\ Accepts(w, "login") /\ PairsLeft
    /\ p = user.password /\ ~user.mustReset
    /\ Begin(w, [Idle EXCEPT !.pc = "version", !.kind = "login", !.password = p])
    /\ UNCHANGED <<user, tokens, store, thisSecond, history>>

(* OAuthProcessorService.generateAuthResponse: a payload without version,   *)
(* a refresh token Redis never hears of.                                   *)
OAuthSignIn ==
    /\ "oauth" \in Calls /\ PairsLeft
    /\ \E t \in Tokens : Sign(t, 0, NONE)
    /\ UNCHANGED <<user, store, history, req>>

(* refreshToken *)

(* Sessions are being revoked: what is renewed now may be stored again.      *)
Revoking == \E v \in Workers : At(v, "revoke")

Renew(w, t) ==
    /\ Accepts(w, "refresh") /\ PairsLeft
    /\ Begin(w, [Idle EXCEPT !.pc = "version", !.kind = "refresh", !.token = t,
                             !.session = tokens[t].session])
    /\ slipped' = IF Revoking THEN slipped \cup {t} ELSE slipped
    /\ UNCHANGED <<user, tokens, store, thisSecond, used, raced, ended, barred>>

(* Mutant: any signed token will do. *)
RefreshAny(w, t) == Issued(t) /\ Renew(w, t)

Refresh(w, t) == t \in active /\ Renew(w, t)

-----------------------------------------------------------------------------
(* The four requests that revoke sessions.  Of a session that was there      *)
(* when the request came its answer says that it has ended; changePassword *)
(* says so of the others only.                                             *)
Revocation(kind) == [Idle EXCEPT !.kind = kind, !.before = AllIssued]

Ends(w) ==
    IF req[w].kind = "change" THEN req[w].before \ {tokens[req[w].token].session}
    ELSE req[w].before
Bars(w) ==
    CASE req[w].kind \in {"reset", "force"} -> req[w].before
      [] req[w].kind = "logout" -> {req[w].token}
      [] OTHER -> {}

Answer(w) ==
    /\ Finish(w)
    /\ ended' = ended \cup Ends(w)
    /\ barred' = barred \cup Bars(w)
    /\ UNCHANGED <<used, raced, slipped>>

(* Tokens of sign-ins that are under way. *)
UnderWay == {req[v].token : v \in {u \in Workers : req[u].kind = "refresh"}}
                \cup {req[v].pair : v \in {u \in Workers : req[u].pc \in {"rotate", "store"}}}

(* revokeAllUserRefreshTokens: KEYS, then DEL what it found. *)
RevokeScan(w) ==
    /\ At(w, "scan")
    /\ req' = [req EXCEPT ![w].pc = "revoke", ![w].found = active]
    /\ slipped' = slipped \cup UnderWay
    /\ UNCHANGED <<user, tokens, store, thisSecond, used, raced, ended, barred>>

AfterRevoke(w) ==
    CASE req[w].kind = "logout" -> Goto(w, "blacklist") /\ UNCHANGED history
      [] req[w].kind \in {"reset", "force"} -> Goto(w, "increment") /\ UNCHANGED history
      [] OTHER -> Answer(w)

RevokeDelete(w) ==
    /\ At(w, "revoke")
    /\ active' = active \ req[w].found
    /\ AfterRevoke(w)
    /\ UNCHANGED <<user, tokens, blacklist, tv, thisSecond, resets, current>>

(* logout: only a bearer token is looked at; a request authenticated by its *)
(* cookie ends with the cookies cleared.                                   *)
Logout(w, t) ==
    /\ Accepts(w, "logout") /\ Accepted(t)
    /\ Begin(w, [Revocation("logout") EXCEPT !.pc = "scan", !.token = t])
    /\ UNCHANGED <<user, tokens, store, thisSecond, history>>

LogoutBlacklist(w) ==
    /\ At(w, "blacklist")
    /\ blacklist' = IF tokens[req[w].token].access = "live" THEN blacklist \cup {req[w].token}
                    ELSE blacklist
    /\ Answer(w)
    /\ UNCHANGED <<user, tokens, active, tv, thisSecond, resets, current>>

-----------------------------------------------------------------------------
(* forgotPassword: the key of an earlier token stays, only the pointer      *)
(* moves on.                                                               *)
ForgotPassword(h) ==
    /\ "forgot" \in Calls /\ resets[h] = "unborn"
    /\ resets' = [resets EXCEPT ![h] = "live"]
    /\ current' = h
    /\ UNCHANGED <<user, tokens, active, blacklist, tv, thisSecond, history, req>>

(* resetPassword *)
ResetLookup(w, h, p) ==
    /\ Accepts(w, "reset") /\ VersionsLeft
    /\ resets[h] = "live"
    /\ Begin(w, [Revocation("reset") EXCEPT !.pc = "resetCurrent", !.reset = h, !.password = p])
    /\ UNCHANGED <<user, tokens, store, thisSecond, history>>

(* The requests that are past both checks of a token. *)
Holders(h) ==
    {v \in Workers : req[v].kind = "reset" /\ req[v].reset = h /\ ~At(v, "resetCurrent")}

ResetCurrent(w) ==
    /\ At(w, "resetCurrent")
    /\ IF current = req[w].reset THEN Goto(w, "resetWrite") ELSE Finish(w)
    /\ raced' = IF current = req[w].reset /\ Holders(current) # {} THEN raced \cup {current}
                ELSE raced
    /\ UNCHANGED <<user, tokens, store, thisSecond, used, sessions>>

ResetWrite(w) ==
    /\ At(w, "resetWrite")
    /\ user' = [password |-> req[w].password, mustReset |-> FALSE]
    /\ used' = used \cup {req[w].reset}
    /\ Goto(w, "scan")
    /\ UNCHANGED <<tokens, store, thisSecond, raced, sessions>>

Increment(w) ==
    /\ At(w, "increment")
    /\ tv' = tv + 1
    /\ IF req[w].kind = "reset" THEN Goto(w, "consume") /\ UNCHANGED history ELSE Answer(w)
    /\ UNCHANGED <<user, tokens, active, blacklist, thisSecond, resets, current>>

(* Mutant: the pointer prt:current is left behind. *)
ResetConsumeKey(w) ==
    /\ At(w, "consume")
    /\ resets' = [resets EXCEPT ![req[w].reset] = "gone"]
    /\ Answer(w)
    /\ UNCHANGED <<user, tokens, active, blacklist, tv, thisSecond, current>>

(* Mutant: nothing is deleted. *)
ResetConsumeNothing(w) ==
    /\ At(w, "consume")
    /\ Answer(w)
    /\ UNCHANGED <<user, tokens, store, thisSecond>>

ResetConsume(w) ==
    /\ At(w, "consume")
    /\ resets' = [resets EXCEPT ![req[w].reset] = "gone"]
    /\ current' = NONE
    /\ Answer(w)
    /\ UNCHANGED <<user, tokens, active, blacklist, tv, thisSecond>>

(* changePassword *)
ChangeRead(w, t, p) ==
    /\ Accepts(w, "change") /\ Accepted(t)
    /\ Begin(w, [Revocation("change") EXCEPT !.pc = "changeWrite", !.token = t, !.password = p])
    /\ UNCHANGED <<user, tokens, store, thisSecond, history>>

(* Mutant: the sessions are left alone. *)
ChangeWriteOnly(w) ==
    /\ At(w, "changeWrite")
    /\ user' = [password |-> req[w].password, mustReset |-> FALSE]
    /\ Answer(w)
    /\ UNCHANGED <<tokens, store, thisSecond>>

ChangeWrite(w) ==
    /\ At(w, "changeWrite")
    /\ user' = [password |-> req[w].password, mustReset |-> FALSE]
    /\ Goto(w, "scan")
    /\ UNCHANGED <<tokens, store, thisSecond, history>>

(* forcePasswordReset *)
ForceRead(w) ==
    /\ Accepts(w, "force") /\ VersionsLeft
    /\ Begin(w, [Revocation("force") EXCEPT !.pc = "forceWrite"])
    /\ UNCHANGED <<user, tokens, store, thisSecond, history>>

(* Mutant: the flag is set, the sessions are left alone. *)
ForceWriteOnly(w) ==
    /\ At(w, "forceWrite")
    /\ user' = [user EXCEPT !.mustReset = TRUE]
    /\ Answer(w)
    /\ UNCHANGED <<tokens, store, thisSecond>>

ForceWrite(w) ==
    /\ At(w, "forceWrite")
    /\ user' = [user EXCEPT !.mustReset = TRUE]
    /\ Goto(w, "scan")
    /\ UNCHANGED <<tokens, store, thisSecond, history>>

-----------------------------------------------------------------------------
(* Lifetimes: 15 minutes for an access token and its blacklist key, 7 days  *)
(* for a refresh token and its key, an hour for a reset token.             *)
ExpireAccess(t) ==
    /\ "expire" \in Calls /\ tokens[t].access = "live" /\ t \notin thisSecond
    /\ tokens' = [tokens EXCEPT ![t].access = "expired"]
    /\ blacklist' = blacklist \ {t}
    /\ UNCHANGED <<user, active, tv, thisSecond, resets, current, history, req>>

ExpireRefresh(t) ==
    /\ "expire" \in Calls /\ t \in active /\ tokens[t].access = "expired"
    /\ active' = active \ {t}
    /\ UNCHANGED <<user, tokens, blacklist, tv, thisSecond, resets, current, history, req>>

ExpireReset(h) ==
    /\ "expire" \in Calls /\ resets[h] = "live"
    /\ resets' = [resets EXCEPT ![h] = "gone"]
    /\ current' = IF current = h THEN NONE ELSE current
    /\ UNCHANGED <<user, tokens, active, blacklist, tv, thisSecond, history, req>>

(* A command fails or the process dies: what was written stays. *)
Fault(w) ==
    /\ "fault" \in Calls /\ ~At(w, "idle")
    /\ Finish(w)
    /\ raced' = IF w \in Holders(req[w].reset) THEN raced \cup {req[w].reset} ELSE raced
    /\ UNCHANGED <<user, tokens, store, thisSecond, used, sessions>>

-----------------------------------------------------------------------------
Arrive(w) ==
    \/ \E p \in Passwords :
          \/ Login(w, p)
          \/ \E h \in ResetTokens : ResetLookup(w, h, p)
          \/ \E t \in Tokens : ChangeRead(w, t, p)
    \/ \E t \in Tokens : Refresh(w, t) \/ Logout(w, t)
    \/ ForceRead(w)

Continue(w) ==
    \/ VersionGet(w) \/ VersionInit(w) \/ Rotate(w) \/ Store(w)
    \/ RevokeScan(w) \/ RevokeDelete(w) \/ LogoutBlacklist(w)
    \/ ResetCurrent(w) \/ ResetWrite(w) \/ Increment(w) \/ ResetConsume(w)
    \/ ChangeWrite(w) \/ ForceWrite(w)

Next ==
    \/ \E w \in Workers : Arrive(w) \/ Continue(w) \/ Fault(w)
    \/ OAuthSignIn
    \/ \E h \in ResetTokens : ForgotPassword(h) \/ ExpireReset(h)
    \/ \E t \in Tokens : ExpireAccess(t) \/ ExpireRefresh(t)
    \/ Second

Spec == Init /\ [][Next]_vars

-----------------------------------------------------------------------------
(* Properties.                                                             *)

TypeOK ==
    /\ user \in User
    /\ tokens \in [Tokens -> Pair]
    /\ active \subseteq Tokens /\ blacklist \subseteq Tokens /\ thisSecond \subseteq Tokens
    /\ tv \in Nat
    /\ resets \in [ResetTokens -> {"unborn", "live", "gone"}]
    /\ current \in {NONE} \cup ResetTokens
    /\ used \subseteq ResetTokens /\ raced \subseteq ResetTokens
    /\ ended \subseteq Tokens /\ barred \subseteq Tokens /\ slipped \subseteq Tokens
    /\ req \in [Workers -> Request]

(* Instant invalidation: an access token that is refused once, by its       *)
(* version or the blacklist, is never accepted again.                      *)
RefusedStaysRefused ==
    [][\A t \in Tokens : Issued(t) /\ ~Accepted(t) => ~Accepted(t)']_vars

(* A reset that was looking at its token while another consumed it is       *)
(* turned away at the second check.                                        *)
ConsumedTokenRefused ==
    [][\A w \in Workers : At(w, "resetCurrent") /\ req'[w].pc = "resetWrite"
            => resets[req[w].reset] = "live"]_vars

(* A reset token sets a second password only when two requests were past     *)
(* both checks at once, or one broke off before it had consumed the token. *)
ResetTokenReusedByRaceOnly ==
    [][\A w \in Workers : At(w, "resetWrite") /\ req'[w].pc = "scan" /\ req[w].reset \in used
            => req[w].reset \in raced]_vars

(* Once a logout, a reset, a change or a forced reset is answered, no        *)
(* refresh token is left of the sessions it revokes, those that were there *)
(* when it came (after a change: the other ones), unless the token was     *)
(* being renewed or stored while the sessions were deleted, or descends    *)
(* from such a one, or was signed again within its second.                 *)
RevokedSessionsEnd == \A t \in active \ slipped : tokens[t].session \notin ended

(* Once a logout is answered its access token is refused, and after a reset  *)
(* or a forced reset every access token that was there when it came,       *)
(* whatever overlapped it.                                                 *)
RevokedAccessRefused == \A t \in barred : ~Accepted(t)

(* changePassword leaves its caller the session it is made in.              *)
CallerKeepsSession ==
    [][\A w \in Workers : At(w, "revoke") /\ req[w].kind = "change" =>
            \A t \in active : tokens[t].session = tokens[req[w].token].session => t \in active'
      ]_vars
=============================================================================
