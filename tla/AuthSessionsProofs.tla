------------------------- MODULE AuthSessionsProofs -------------------------
(***************************************************************************)
(* Theorems about AuthSessions for every number of requests, token pairs,  *)
(* reset tokens and passwords, and every choice of calls.                  *)
(***************************************************************************)
EXTENDS AuthSessions, TLAPS

-----------------------------------------------------------------------------
(* The locals a handler has assigned by the time it reaches a command.     *)
Assigned(r) ==
    /\ r.pc = "idle" => r.kind = NONE
    /\ r.pc \in {"version", "versionInit", "store"} => r.kind \in {"login", "refresh"}
    /\ r.pc = "rotate" => r.kind = "refresh"
    /\ r.pc = "blacklist" => r.kind = "logout"
    /\ r.pc \in {"resetCurrent", "resetWrite", "consume"} => r.kind = "reset"
    /\ r.pc = "increment" => r.kind \in {"reset", "force"}
    /\ r.pc \in {"scan", "revoke"} => r.kind \in {"logout", "reset", "change", "force"}
    /\ r.pc = "changeWrite" => r.kind = "change"
    /\ r.pc = "forceWrite" => r.kind = "force"
    /\ r.pc \in {"rotate", "store"} => r.pair \in Tokens
    /\ r.pc \in {"resetCurrent", "resetWrite", "changeWrite"} => r.password \in Passwords
    /\ r.kind = "reset" => r.reset \in ResetTokens
    /\ r.kind \in {"refresh", "logout", "change"} => r.token \in Tokens

HistoryTyped ==
    /\ used \subseteq ResetTokens /\ raced \subseteq ResetTokens
    /\ ended \subseteq Tokens /\ barred \subseteq Tokens /\ slipped \subseteq Tokens

TInv == TypeOK /\ \A w \in Workers : Assigned(req[w])

LEMMA IdleOK == Idle \in Request /\ Assigned(Idle)
  BY NoneAssumption DEF Idle, Request, PC, Assigned, Kinds

LEMMA InitTInv == Init => TInv
<1> SUFFICES ASSUME Init
             PROVE  TInv
  OBVIOUS
<1>1. TypeOK
  BY IdleOK, VersionAssumption DEF Init, TypeOK, User, Pair
<1>2. QED
  BY <1>1, IdleOK DEF Init, TInv

(* A step of one request that leaves it with the locals r.                 *)
LEMMA RequestStep ==
  ASSUME TInv, NEW w \in Workers, NEW r \in Request, Assigned(r),
         req' = [req EXCEPT ![w] = r],
         user' \in User,
         tokens' \in [Tokens -> Pair],
         active' \subseteq Tokens, blacklist' \subseteq Tokens, thisSecond' \subseteq Tokens,
         tv' \in Nat,
         resets' \in [ResetTokens -> {"unborn", "live", "gone"}],
         current' \in {NONE} \cup ResetTokens,
         HistoryTyped'
  PROVE  TInv'
<1>1. TypeOK'
  BY DEF TInv, TypeOK, HistoryTyped
<1>2. \A u \in Workers : Assigned(req'[u])
  BY DEF TInv, TypeOK
<1>3. QED
  BY <1>1, <1>2 DEF TInv

LEMMA SameHistory == TInv /\ UNCHANGED history => HistoryTyped /\ HistoryTyped'
  BY DEF TInv, TypeOK, HistoryTyped, history, sessions

(* What a handler moves to when its locals stay.                           *)
LEMMA Moved ==
  ASSUME TInv, NEW w \in Workers, NEW p \in PC,
         Assigned([req[w] EXCEPT !.pc = p]), Goto(w, p)
  PROVE  \E r \in Request : Assigned(r) /\ req' = [req EXCEPT ![w] = r]
<1> DEFINE r == [req[w] EXCEPT !.pc = p]
<1>1. r \in Request
  BY DEF TInv, TypeOK, Request
<1>2. req' = [req EXCEPT ![w] = r]
  BY DEF Goto, TInv, TypeOK
<1>3. QED
  BY <1>1, <1>2

LEMMA AnswerTyped ==
  ASSUME TInv, NEW w \in Workers, Answer(w)
  PROVE  /\ HistoryTyped'
         /\ \E r \in Request : Assigned(r) /\ req' = [req EXCEPT ![w] = r]
<1>1. req[w] \in Request /\ Assigned(req[w])
  BY DEF TInv, TypeOK
<1>2. Ends(w) \subseteq Tokens
  BY <1>1 DEF Ends, Request
<1>3. Bars(w) \subseteq Tokens
  BY <1>1 DEF Bars, Request, Assigned
<1>4. HistoryTyped'
  BY <1>2, <1>3 DEF Answer, HistoryTyped, TInv, TypeOK
<1>5. QED
  BY <1>4, IdleOK DEF Answer, Finish

LEMMA SignType ==
  ASSUME TInv, NEW t \in Tokens, NEW v \in Nat, NEW s \in {NONE} \cup Tokens, Sign(t, v, s)
  PROVE  tokens' \in [Tokens -> Pair] /\ thisSecond' \subseteq Tokens
  BY DEF Sign, TInv, TypeOK, Pair

LEMMA SignedMove ==
  ASSUME TInv, NEW w \in Workers, NEW t \in Tokens, req[w].pc \in {"version", "versionInit"},
         Signed(w, t)
  PROVE  /\ HistoryTyped'
         /\ \E r \in Request : Assigned(r) /\ req' = [req EXCEPT ![w] = r]
<1> DEFINE next == IF req[w].kind = "login" THEN "store" ELSE "rotate"
           r == [req[w] EXCEPT !.pair = t, !.pc = next]
<1>1. req[w] \in Request /\ Assigned(req[w])
  BY DEF TInv, TypeOK
<1>2. r \in Request
  BY <1>1 DEF Request, PC
<1>3. Assigned(r)
  BY <1>1, <1>2, NoneAssumption DEF Request, Assigned, Kinds
<1>4. req' = [req EXCEPT ![w] = r]
  BY DEF Signed, TInv, TypeOK
<1>5. HistoryTyped'
  BY DEF Signed, HistoryTyped, TInv, TypeOK
<1>6. QED
  BY <1>2, <1>3, <1>4, <1>5

(* How a request signs: the version it finds is not 0.                      *)
LEMMA SignStep ==
  ASSUME TInv, NEW w \in Workers, VersionInit(w) \/ (VersionGet(w) /\ tv # 0)
  PROVE  \E t \in Tokens, v \in Nat \ {0} :
            /\ Sign(t, v, req[w].session) /\ Signed(w, t)
            /\ req[w].session \in {NONE} \cup Tokens /\ req[w].pc \in {"version", "versionInit"}
<1>1. req[w].session \in {NONE} \cup Tokens /\ tv \in Nat
  BY DEF TInv, TypeOK, Request
<1>2. CASE VersionInit(w)
  BY <1>1, <1>2 DEF VersionInit, At
<1>3. CASE VersionGet(w) /\ tv # 0
  BY <1>1, <1>3 DEF VersionGet, At
<1>4. QED
  BY <1>2, <1>3

LEMMA VersionTInv ==
  ASSUME TInv, NEW w \in Workers, VersionGet(w) \/ VersionInit(w)
  PROVE  TInv'
<1>1. req[w] \in Request /\ Assigned(req[w])
  BY DEF TInv, TypeOK
<1>2. CASE VersionGet(w) /\ tv = 0
  <2>1. Assigned([req[w] EXCEPT !.pc = "versionInit"])
    BY <1>1, <1>2 DEF VersionGet, At, Assigned, Request
  <2>2. PICK r \in Request : Assigned(r) /\ req' = [req EXCEPT ![w] = r]
    BY <1>2, <2>1, Moved DEF VersionGet, PC
  <2>3. HistoryTyped'
    BY <1>2, SameHistory DEF VersionGet
  <2>4. QED
    BY <1>2, <2>2, <2>3, RequestStep DEF VersionGet, store, TInv, TypeOK
<1>3. CASE VersionInit(w) \/ (VersionGet(w) /\ tv # 0)
  <2>1. PICK t \in Tokens, v \in Nat \ {0} :
            /\ Sign(t, v, req[w].session) /\ Signed(w, t)
            /\ req[w].session \in {NONE} \cup Tokens /\ req[w].pc \in {"version", "versionInit"}
    BY <1>3, SignStep
  <2>2. tokens' \in [Tokens -> Pair] /\ thisSecond' \subseteq Tokens
    BY <2>1, SignType
  <2>3. HistoryTyped' /\ \E r \in Request : Assigned(r) /\ req' = [req EXCEPT ![w] = r]
    BY <2>1, SignedMove
  <2>4. tv' \in Nat /\ UNCHANGED <<user, active, blacklist, resets, current>>
    BY <1>3 DEF VersionGet, VersionInit, store, TInv, TypeOK
  <2>5. QED
    BY <2>2, <2>3, <2>4, RequestStep DEF TInv, TypeOK
<1>4. QED
  BY <1>2, <1>3

(* A request arrives with the locals r.                                    *)
Arrived(w, r) ==
    /\ At(w, "idle") /\ req' = [req EXCEPT ![w] = r] /\ r \in Request /\ Assigned(r)
    /\ UNCHANGED <<user, tokens, store, thisSecond, used, raced, ended, barred>>
    /\ slipped \subseteq slipped' /\ slipped' \subseteq Tokens
    /\ r.pc \in {"version", "scan", "resetCurrent", "changeWrite", "forceWrite"}
    /\ r.before \subseteq AllIssued
    /\ r.kind = "login" => r.token = NONE /\ r.session = NONE
    /\ r.kind = "refresh" => /\ r.token \in active /\ r.session = tokens[r.token].session
                             /\ Revoking => r.token \in slipped'
    /\ r.kind = "logout" => Issued(r.token)
    /\ r.kind = "reset" => r.pc = "resetCurrent" /\ resets[r.reset] = "live"

LEMMA ArriveStep ==
  ASSUME TInv, NEW w \in Workers, Arrive(w)
  PROVE  \E r : Arrived(w, r)
<1>0. AllIssued \subseteq Tokens /\ slipped \subseteq Tokens /\ active \subseteq Tokens
  BY DEF AllIssued, TInv, TypeOK
<1>1. ASSUME NEW r \in Request, Assigned(r), Begin(w, r), Accepts(w, r.kind),
             UNCHANGED <<user, tokens, store, thisSecond, history>>,
             r.pc \in {"version", "scan", "resetCurrent", "changeWrite", "forceWrite"},
             r.before \subseteq AllIssued,
             r.kind = "login" => r.token = NONE /\ r.session = NONE,
             r.kind # "refresh",
             r.kind = "logout" => Issued(r.token),
             r.kind = "reset" => r.pc = "resetCurrent" /\ resets[r.reset] = "live"
      PROVE  Arrived(w, r)
  BY <1>0, <1>1 DEF Arrived, Begin, Accepts, history, sessions
<1>2. ASSUME NEW p \in Passwords, Login(w, p)
      PROVE  \E r : Arrived(w, r)
  <2> DEFINE r == [Idle EXCEPT !.pc = "version", !.kind = "login", !.password = p]
  <2>1. r \in Request /\ Assigned(r)
    BY NoneAssumption DEF Idle, Request, PC, Kinds, Assigned
  <2>2. r.kind = "login" /\ r.pc = "version" /\ r.before = {} /\ r.token = NONE /\ r.session = NONE
    BY DEF Idle
  <2>3. QED
    BY <1>1, <1>2, <2>1, <2>2 DEF Login
<1>3. ASSUME NEW p \in Passwords, NEW h \in ResetTokens, ResetLookup(w, h, p)
      PROVE  \E r : Arrived(w, r)
  <2> DEFINE r == [Revocation("reset") EXCEPT !.pc = "resetCurrent", !.reset = h, !.password = p]
  <2>1. r \in Request /\ Assigned(r)
    BY <1>0, NoneAssumption DEF Revocation, Idle, Request, PC, Kinds, Assigned
  <2>2. r.kind = "reset" /\ r.pc = "resetCurrent" /\ r.before = AllIssued /\ r.reset = h
    BY DEF Revocation, Idle
  <2>3. QED
    BY <1>1, <1>3, <2>1, <2>2 DEF ResetLookup
<1>4. ASSUME NEW p \in Passwords, NEW t \in Tokens, ChangeRead(w, t, p)
      PROVE  \E r : Arrived(w, r)
  <2> DEFINE r == [Revocation("change") EXCEPT !.pc = "changeWrite", !.token = t, !.password = p]
  <2>1. r \in Request /\ Assigned(r)
    BY <1>0, NoneAssumption DEF Revocation, Idle, Request, PC, Kinds, Assigned
  <2>2. r.kind = "change" /\ r.pc = "changeWrite" /\ r.before = AllIssued
    BY DEF Revocation, Idle
  <2>3. QED
    BY <1>1, <1>4, <2>1, <2>2 DEF ChangeRead
<1>5. ASSUME NEW t \in Tokens, Refresh(w, t)
      PROVE  \E r : Arrived(w, r)
  <2> DEFINE r == [Idle EXCEPT !.pc = "version", !.kind = "refresh", !.token = t,
                               !.session = tokens[t].session]
  <2>1. tokens[t].session \in {NONE} \cup Tokens
    BY DEF TInv, TypeOK, Pair
  <2>2. r \in Request /\ Assigned(r)
    BY <2>1, NoneAssumption DEF Idle, Request, PC, Kinds, Assigned
  <2>3. /\ r.kind = "refresh" /\ r.pc = "version" /\ r.before = {} /\ r.token = t
        /\ r.session = tokens[t].session
    BY DEF Idle
  <2>4. /\ t \in active /\ Accepts(w, "refresh") /\ Begin(w, r)
        /\ slipped' = (IF Revoking THEN slipped \cup {t} ELSE slipped)
        /\ UNCHANGED <<user, tokens, store, thisSecond, used, raced, ended, barred>>
    BY <1>5 DEF Refresh, Renew
  <2>5. Arrived(w, r)
    BY <1>0, <2>2, <2>3, <2>4 DEF Arrived, Accepts, Begin
  <2>6. QED
    BY <2>5
<1>6. ASSUME NEW t \in Tokens, Logout(w, t)
      PROVE  \E r : Arrived(w, r)
  <2> DEFINE r == [Revocation("logout") EXCEPT !.pc = "scan", !.token = t]
  <2>1. r \in Request /\ Assigned(r)
    BY <1>0, NoneAssumption DEF Revocation, Idle, Request, PC, Kinds, Assigned
  <2>2. r.kind = "logout" /\ r.pc = "scan" /\ r.before = AllIssued /\ r.token = t
    BY DEF Revocation, Idle
  <2>3. Issued(t)
    BY <1>6 DEF Logout, Accepted, Issued
  <2>4. QED
    BY <1>1, <1>6, <2>1, <2>2, <2>3 DEF Logout
<1>7. CASE ForceRead(w)
  <2> DEFINE r == [Revocation("force") EXCEPT !.pc = "forceWrite"]
  <2>1. r \in Request /\ Assigned(r)
    BY <1>0, NoneAssumption DEF Revocation, Idle, Request, PC, Kinds, Assigned
  <2>2. r.kind = "force" /\ r.pc = "forceWrite" /\ r.before = AllIssued
    BY DEF Revocation, Idle
  <2>3. QED
    BY <1>1, <1>7, <2>1, <2>2 DEF ForceRead
<1>8. QED
  BY <1>2, <1>3, <1>4, <1>5, <1>6, <1>7 DEF Arrive

LEMMA ArriveTInv ==
  ASSUME TInv, NEW w \in Workers, Arrive(w)
  PROVE  TInv'
<1>1. PICK r : Arrived(w, r)
  BY ArriveStep
<1>2. HistoryTyped'
  BY <1>1 DEF Arrived, HistoryTyped, TInv, TypeOK
<1>3. QED
  BY <1>1, <1>2, RequestStep DEF Arrived, store, TInv, TypeOK

LEMMA FinishStep ==
  ASSUME TInv, NEW w \in Workers, Finish(w) \/ Answer(w), HistoryTyped',
         user' \in User,
         tokens' \in [Tokens -> Pair],
         active' \subseteq Tokens, blacklist' \subseteq Tokens, thisSecond' \subseteq Tokens,
         tv' \in Nat,
         resets' \in [ResetTokens -> {"unborn", "live", "gone"}],
         current' \in {NONE} \cup ResetTokens
  PROVE  TInv'
  BY IdleOK, RequestStep DEF Finish, Answer

LEMMA UnderWayTyped == TInv => UnderWay \subseteq Tokens
<1> SUFFICES ASSUME TInv, NEW t \in UnderWay
             PROVE  t \in Tokens
  OBVIOUS
<1>1. \A v \in Workers : Assigned(req[v])
  BY DEF TInv
<1>2. QED
  BY <1>1 DEF UnderWay, Assigned

LEMMA SessionTInv ==
  ASSUME TInv, NEW w \in Workers,
         Rotate(w) \/ Store(w) \/ RevokeScan(w) \/ RevokeDelete(w) \/ LogoutBlacklist(w)
  PROVE  TInv'
<1>1. req[w] \in Request /\ Assigned(req[w])
  BY DEF TInv, TypeOK
<1>2. CASE Rotate(w)
  <2>1. Assigned([req[w] EXCEPT !.pc = "store"])
    BY <1>1, <1>2 DEF Rotate, At, Assigned, Request
  <2>2. PICK r \in Request : Assigned(r) /\ req' = [req EXCEPT ![w] = r]
    BY <1>2, <2>1, Moved DEF Rotate, PC
  <2>3. QED
    BY <1>2, <2>2, RequestStep, SameHistory DEF Rotate, TInv, TypeOK
<1>3. CASE Store(w)
  <2>1. req[w].pair \in Tokens
    BY <1>1, <1>3 DEF Store, At, Assigned
  <2>2. QED
    BY <1>3, <2>1, FinishStep, SameHistory DEF Store, TInv, TypeOK
<1>4. CASE RevokeScan(w)
  <2> DEFINE r == [req[w] EXCEPT !.pc = "revoke", !.found = active]
  <2>1. r \in Request /\ Assigned(r)
    BY <1>1, <1>4 DEF RevokeScan, At, Assigned, Request, PC, TInv, TypeOK
  <2>2. req' = [req EXCEPT ![w] = r]
    BY <1>4 DEF RevokeScan, TInv, TypeOK
  <2>3. HistoryTyped'
    BY <1>4, UnderWayTyped DEF RevokeScan, HistoryTyped, TInv, TypeOK
  <2>4. QED
    BY <1>4, <2>1, <2>2, <2>3, RequestStep DEF RevokeScan, store, TInv, TypeOK
<1>5. CASE RevokeDelete(w)
  <2>1. active' \subseteq Tokens
    BY <1>5 DEF RevokeDelete, TInv, TypeOK
  <2>2. CASE Answer(w)
    BY <1>5, <2>1, <2>2, FinishStep, AnswerTyped DEF RevokeDelete, TInv, TypeOK
  <2>3. ASSUME NEW p \in {"blacklist", "increment"}, Goto(w, p), UNCHANGED history,
               p = "blacklist" => req[w].kind = "logout",
               p = "increment" => req[w].kind \in {"reset", "force"}
        PROVE  TInv'
    <3>1. Assigned([req[w] EXCEPT !.pc = p])
      BY <1>1, <1>5, <2>3 DEF RevokeDelete, At, Assigned, Request
    <3>2. PICK r \in Request : Assigned(r) /\ req' = [req EXCEPT ![w] = r]
      BY <2>3, <3>1, Moved DEF PC
    <3>3. QED
      BY <1>5, <2>1, <2>3, <3>2, RequestStep, SameHistory DEF RevokeDelete, TInv, TypeOK
  <2>4. CASE req[w].kind = "logout"
    BY <1>5, <2>3, <2>4 DEF RevokeDelete, AfterRevoke
  <2>5. CASE req[w].kind \in {"reset", "force"}
    BY <1>5, <2>3, <2>5 DEF RevokeDelete, AfterRevoke
  <2>6. CASE req[w].kind # "logout" /\ req[w].kind \notin {"reset", "force"}
    BY <1>5, <2>2, <2>6 DEF RevokeDelete, AfterRevoke
  <2>7. QED
    BY <2>4, <2>5, <2>6
<1>6. CASE LogoutBlacklist(w)
  <2>1. blacklist' \subseteq Tokens
    BY <1>1, <1>6 DEF LogoutBlacklist, At, Assigned, TInv, TypeOK
  <2>2. QED
    BY <1>6, <2>1, FinishStep, AnswerTyped DEF LogoutBlacklist, TInv, TypeOK
<1>7. QED
  BY <1>2, <1>3, <1>4, <1>5, <1>6

LEMMA PasswordTInv ==
  ASSUME TInv, NEW w \in Workers,
         \/ ResetCurrent(w) \/ ResetWrite(w) \/ Increment(w) \/ ResetConsume(w)
         \/ ChangeWrite(w) \/ ForceWrite(w)
  PROVE  TInv'
<1>1. req[w] \in Request /\ Assigned(req[w])
  BY DEF TInv, TypeOK
<1>2. ASSUME NEW p \in {"resetWrite", "scan", "consume"}, Goto(w, p),
             p = "resetWrite" => At(w, "resetCurrent"),
             p = "scan" => req[w].pc \in {"resetWrite", "changeWrite", "forceWrite"},
             p = "consume" => req[w].kind = "reset"
      PROVE  \E r \in Request : Assigned(r) /\ req' = [req EXCEPT ![w] = r]
  <2>1. Assigned([req[w] EXCEPT !.pc = p])
    BY <1>1, <1>2 DEF At, Assigned, Request
  <2>2. QED
    BY <1>2, <2>1, Moved DEF PC
<1>3. CASE ResetCurrent(w)
  <2>1. \E r \in Request : Assigned(r) /\ req' = [req EXCEPT ![w] = r]
    BY <1>1, <1>2, <1>3, IdleOK DEF ResetCurrent, Finish
  <2>2. HistoryTyped'
    BY <1>1, <1>3 DEF ResetCurrent, At, Assigned, HistoryTyped, sessions, TInv, TypeOK
  <2>3. QED
    BY <1>3, <2>1, <2>2, RequestStep DEF ResetCurrent, store, TInv, TypeOK
<1>4. CASE ResetWrite(w)
  <2>1. user' \in User /\ HistoryTyped'
    BY <1>1, <1>4 DEF ResetWrite, At, Assigned, User, HistoryTyped, sessions, TInv, TypeOK
  <2>2. PICK r \in Request : Assigned(r) /\ req' = [req EXCEPT ![w] = r]
    BY <1>2, <1>4 DEF ResetWrite, At
  <2>3. QED
    BY <1>4, <2>1, <2>2, RequestStep DEF ResetWrite, store, TInv, TypeOK
<1>5. CASE Increment(w)
  <2>1. tv' \in Nat
    BY <1>5 DEF Increment, TInv, TypeOK
  <2>2. CASE req[w].kind = "reset"
    <3>1. PICK r \in Request : Assigned(r) /\ req' = [req EXCEPT ![w] = r]
      BY <1>2, <1>5, <2>2 DEF Increment
    <3>2. QED
      BY <1>5, <2>1, <2>2, <3>1, RequestStep, SameHistory DEF Increment, TInv, TypeOK
  <2>3. CASE req[w].kind # "reset"
    BY <1>5, <2>1, <2>3, FinishStep, AnswerTyped DEF Increment, TInv, TypeOK
  <2>4. QED
    BY <2>2, <2>3
<1>6. CASE ResetConsume(w)
  <2>1. resets' \in [ResetTokens -> {"unborn", "live", "gone"}]
    BY <1>6 DEF ResetConsume, TInv, TypeOK
  <2>2. QED
    BY <1>6, <2>1, FinishStep, AnswerTyped DEF ResetConsume, TInv, TypeOK
<1>7. CASE ChangeWrite(w) \/ ForceWrite(w)
  <2>1. user' \in User
    <3>1. CASE ChangeWrite(w)
      BY <1>1, <3>1 DEF ChangeWrite, At, Assigned, User
    <3>2. CASE ForceWrite(w)
      BY <3>2 DEF ForceWrite, User, TInv, TypeOK
    <3>3. QED
      BY <1>7, <3>1, <3>2
  <2>2. PICK r \in Request : Assigned(r) /\ req' = [req EXCEPT ![w] = r]
    BY <1>2, <1>7 DEF ChangeWrite, ForceWrite, At
  <2>3. HistoryTyped'
    BY <1>7, SameHistory DEF ChangeWrite, ForceWrite
  <2>4. QED
    BY <1>7, <2>1, <2>2, <2>3, RequestStep DEF ChangeWrite, ForceWrite, store, TInv, TypeOK
<1>8. QED
  BY <1>3, <1>4, <1>5, <1>6, <1>7

(* The steps that belong to no request in flight.                          *)
LEMMA OutsideTInv ==
  ASSUME TInv,
         \/ OAuthSignIn \/ Second \/ UNCHANGED vars
         \/ \E h \in ResetTokens : ForgotPassword(h) \/ ExpireReset(h)
         \/ \E t \in Tokens : ExpireAccess(t) \/ ExpireRefresh(t)
  PROVE  TInv'
<1>1. req' = req /\ UNCHANGED history
  BY DEF OAuthSignIn, Second, vars, ForgotPassword, ExpireReset, ExpireAccess, ExpireRefresh,
     history, sessions
<1>2. TypeOK'
  <2>0. HistoryTyped' /\ req' \in [Workers -> Request]
    BY <1>1, SameHistory DEF TInv, TypeOK
  <2>1. CASE OAuthSignIn
    <3>1. PICK t \in Tokens : Sign(t, 0, NONE)
      BY <2>1 DEF OAuthSignIn
    <3>2. tokens' \in [Tokens -> Pair] /\ thisSecond' \subseteq Tokens
      BY <3>1, SignType
    <3>3. QED
      BY <2>0, <2>1, <3>2 DEF OAuthSignIn, store, HistoryTyped, TInv, TypeOK
  <2>2. CASE Second \/ UNCHANGED vars
    BY <2>0, <2>2 DEF Second, vars, store, HistoryTyped, TInv, TypeOK
  <2>3. ASSUME NEW h \in ResetTokens, ForgotPassword(h) \/ ExpireReset(h)
        PROVE  TypeOK'
    BY <2>0, <2>3 DEF ForgotPassword, ExpireReset, HistoryTyped, TInv, TypeOK
  <2>4. ASSUME NEW t \in Tokens, ExpireAccess(t) \/ ExpireRefresh(t)
        PROVE  TypeOK'
    BY <2>0, <2>4 DEF ExpireAccess, ExpireRefresh, HistoryTyped, TInv, TypeOK, Pair
  <2>5. QED
    BY <2>1, <2>2, <2>3, <2>4
<1>3. QED
  BY <1>1, <1>2 DEF TInv

LEMMA FaultTInv ==
  ASSUME TInv, NEW w \in Workers, Fault(w)
  PROVE  TInv'
<1>1. req[w].kind = "reset" => req[w].reset \in ResetTokens
  BY DEF TInv, Assigned
<1>2. HistoryTyped'
  BY <1>1 DEF Fault, Holders, HistoryTyped, sessions, TInv, TypeOK
<1>3. QED
  BY <1>2, FinishStep DEF Fault, store, TInv, TypeOK

LEMMA NextTInv == TInv /\ [Next]_vars => TInv'
<1> SUFFICES ASSUME TInv, [Next]_vars
             PROVE  TInv'
  OBVIOUS
<1>1. ASSUME NEW w \in Workers, Continue(w)
      PROVE  TInv'
  BY <1>1, VersionTInv, SessionTInv, PasswordTInv DEF Continue
<1>2. QED
  BY <1>1, FaultTInv, ArriveTInv, OutsideTInv DEF Next

(* Type correctness, of the tables, the keys in Redis and the locals: no    *)
(* handler of AuthService reaches a command with a token, password or reset *)
(* token it has not assigned.                                              *)
THEOREM SessionTypeCorrect == Spec => []TypeOK
<1>1. Spec => []TInv
  BY InitTInv, NextTInv, PTL DEF Spec
<1>2. TInv => TypeOK
  BY DEF TInv
<1>3. QED
  BY <1>1, <1>2, PTL

-----------------------------------------------------------------------------
(* Instant invalidation.  The invariant: the key tv:user exists, so nobody  *)
(* is about to initialise it, and a pair that can still be signed again is  *)
(* live.                                                                   *)
VersionInv ==
    /\ TInv
    /\ tv >= 1
    /\ \A w \in Workers : req[w].pc # "versionInit"
    /\ \A t \in thisSecond : tokens[t].access = "live"

(* What every step does: versions of signed pairs stay, an expired pair     *)
(* stays expired, tv does not fall, and a key bl_token goes only with its   *)
(* token's life.                                                           *)
Downhill ==
    /\ tv' \in Nat /\ tv' >= tv
    /\ \A t \in Tokens : Issued(t) =>
          /\ tokens'[t].version = tokens[t].version
          /\ tokens'[t].access \in {tokens[t].access, "expired"}
          /\ t \in blacklist => t \in blacklist' \/ tokens'[t].access = "expired"

LEMMA SignDownhill ==
  ASSUME VersionInv, NEW t \in Tokens, NEW v \in Nat, NEW s \in {NONE} \cup Tokens,
         Sign(t, v, s), tv' = tv, blacklist' = blacklist
  PROVE  /\ Downhill
         /\ \A u \in thisSecond' : tokens'[u].access = "live"
<1>1. Issued(t) => tokens[t].version = v /\ tokens[t].access = "live"
  BY DEF Sign, SameSecond, VersionInv, Issued
<1>2. QED
  BY <1>1 DEF Sign, VersionInv, Downhill, TInv, TypeOK, Pair, Issued

LEMMA NextVersion == VersionInv /\ [Next]_vars => VersionInv' /\ Downhill
<1> SUFFICES ASSUME VersionInv, [Next]_vars
             PROVE  VersionInv' /\ Downhill
  OBVIOUS
<1>1. TInv /\ TInv'
  BY NextTInv DEF VersionInv
<1>2. ASSUME NEW w \in Workers, VersionGet(w)
      PROVE  VersionInv' /\ Downhill
  <2>1. PICK t \in Tokens : Sign(t, tv, req[w].session) /\ Signed(w, t)
    BY <1>2 DEF VersionGet, VersionInv
  <2>2. tv \in Nat /\ req[w].session \in {NONE} \cup Tokens
    BY <1>1 DEF TInv, TypeOK, Request
  <2>3. Downhill /\ \A u \in thisSecond' : tokens'[u].access = "live"
    BY <1>2, <2>1, <2>2, SignDownhill DEF VersionGet, store
  <2>4. \A u \in Workers : req'[u].pc # "versionInit"
    BY <1>1, <2>1 DEF Signed, VersionInv, TInv, TypeOK, Request
  <2>5. tv' = tv
    BY <1>2 DEF VersionGet, store
  <2>6. QED
    BY <1>1, <2>3, <2>4, <2>5 DEF VersionInv
<1>3. ASSUME NEW w \in Workers, VersionInit(w)
      PROVE  FALSE
  BY <1>3 DEF VersionInit, At, VersionInv
<1>4. CASE OAuthSignIn
  <2>1. PICK t \in Tokens : Sign(t, 0, NONE)
    BY <1>4 DEF OAuthSignIn
  <2>2. Downhill /\ \A u \in thisSecond' : tokens'[u].access = "live"
    BY <1>4, <2>1, SignDownhill DEF OAuthSignIn, store
  <2>3. tv' = tv /\ req' = req
    BY <1>4 DEF OAuthSignIn, store
  <2>4. QED
    BY <1>1, <2>2, <2>3 DEF VersionInv
<1>5. ASSUME NEW t \in Tokens, ExpireAccess(t)
      PROVE  VersionInv' /\ Downhill
  BY <1>1, <1>5 DEF ExpireAccess, VersionInv, Downhill, TInv, TypeOK, Pair
<1>6. ASSUME UNCHANGED tokens, thisSecond' \in {thisSecond, {}}, blacklist \subseteq blacklist',
             tv' \in {tv, tv + 1}, \A w \in Workers : req'[w].pc # "versionInit"
      PROVE  VersionInv' /\ Downhill
  BY <1>1, <1>6 DEF VersionInv, Downhill, TInv, TypeOK
<1>7. ASSUME NEW w \in Workers, Arrive(w)
      PROVE  VersionInv' /\ Downhill
  <2>1. PICK r : Arrived(w, r)
    BY <1>1, <1>7, ArriveStep
  <2>2. \A u \in Workers : req'[u].pc # "versionInit"
    BY <1>1, <2>1 DEF Arrived, VersionInv, TInv, TypeOK
  <2>3. QED
    BY <1>6, <2>1, <2>2 DEF Arrived, store
<1>8. ASSUME NEW w \in Workers,
             \/ Rotate(w) \/ Store(w) \/ RevokeScan(w) \/ RevokeDelete(w) \/ LogoutBlacklist(w)
             \/ ResetCurrent(w) \/ ResetWrite(w) \/ Increment(w) \/ ResetConsume(w)
             \/ ChangeWrite(w) \/ ForceWrite(w) \/ Fault(w)
      PROVE  VersionInv' /\ Downhill
  <2>1. UNCHANGED <<tokens, thisSecond>> /\ blacklist \subseteq blacklist' /\ tv' \in {tv, tv + 1}
    BY <1>8 DEF Rotate, Store, RevokeScan, RevokeDelete, LogoutBlacklist, ResetCurrent,
       ResetWrite, Increment, ResetConsume, ChangeWrite, ForceWrite, Fault, store
  <2>2. \A u \in Workers : req'[u].pc # "versionInit"
    BY <1>1, <1>8 DEF Rotate, Store, RevokeScan, RevokeDelete, LogoutBlacklist, ResetCurrent,
       ResetWrite, Increment, ResetConsume, ChangeWrite, ForceWrite, Fault, AfterRevoke, Goto,
       Answer, Finish, Idle, VersionInv, TInv, TypeOK, Request
  <2>3. QED
    BY <1>6, <2>1, <2>2
<1>9. CASE Second \/ UNCHANGED vars \/ \E h \in ResetTokens : ForgotPassword(h) \/ ExpireReset(h)
  <2>1. UNCHANGED <<tokens, blacklist, tv, req>> /\ thisSecond' \in {thisSecond, {}}
    BY <1>9 DEF Second, vars, ForgotPassword, ExpireReset, store
  <2>2. QED
    BY <1>6, <2>1 DEF VersionInv
<1>10. ASSUME NEW t \in Tokens, ExpireRefresh(t)
       PROVE  VersionInv' /\ Downhill
  BY <1>6, <1>10 DEF ExpireRefresh, VersionInv
<1>11. QED
  BY <1>2, <1>3, <1>4, <1>5, <1>7, <1>8, <1>9, <1>10 DEF Next, Continue

LEMMA InitVersion == InitialVersions = {1} /\ Init => VersionInv
<1> SUFFICES ASSUME InitialVersions = {1}, Init
             PROVE  VersionInv
  OBVIOUS
<1>1. tv = 1 /\ thisSecond = {} /\ \A w \in Workers : req[w].pc = "idle"
  BY DEF Init, Idle
<1>2. QED
  BY <1>1, InitTInv DEF VersionInv

RefusalStands == \A t \in Tokens : Issued(t) /\ ~Accepted(t) => ~Accepted(t)'

LEMMA DownhillRefuses == VersionInv /\ Downhill => RefusalStands
<1> SUFFICES ASSUME VersionInv, Downhill, NEW t \in Tokens, Issued(t), ~Accepted(t)
             PROVE  ~Accepted(t)'
  BY DEF RefusalStands
<1>1. tokens[t].version \in Nat /\ tv \in Nat
  BY DEF VersionInv, TInv, TypeOK, Pair
<1>2. PayloadVersion(t)' = PayloadVersion(t) /\ PayloadVersion(t) \in Nat
  BY <1>1 DEF Downhill, PayloadVersion
<1>3. QED
  BY <1>1, <1>2 DEF Downhill, VersionInv, Accepted, Issued

(* With tv:user in place, an access token the guards refuse, because of its *)
(* version or the blacklist, is never accepted again: no race of sign-ins,  *)
(* logouts, resets and expiry brings it back.  Without the key it fails:    *)
(* the first sign-in may then overwrite an increment.                      *)
THEOREM RefusalIsFinal == InitialVersions = {1} => (Spec => RefusedStaysRefused)
<1> SUFFICES ASSUME InitialVersions = {1}
             PROVE  Spec => RefusedStaysRefused
  OBVIOUS
<1>1. Init => VersionInv
  BY InitVersion
<1>2. VersionInv /\ [Next]_vars => VersionInv'
  BY NextVersion
<1>3. VersionInv /\ [Next]_vars =>
        [\A t \in Tokens : Issued(t) /\ ~Accepted(t) => ~Accepted(t)']_vars
  BY NextVersion, DownhillRefuses DEF RefusalStands
<1>4. QED
  BY <1>1, <1>2, <1>3, PTL DEF Spec, RefusedStaysRefused

-----------------------------------------------------------------------------
(* Reset tokens.  The pointer prt:current names a live key.                *)
PointerInv == TInv /\ (current # NONE => resets[current] = "live")

LEMMA InitPointer == Init => PointerInv
  BY InitTInv DEF Init, PointerInv

LEMMA NextPointer == PointerInv /\ [Next]_vars => PointerInv'
<1> SUFFICES ASSUME PointerInv, [Next]_vars
             PROVE  PointerInv'
  OBVIOUS
<1>1. TInv /\ TInv'
  BY NextTInv DEF PointerInv
<1>2. ASSUME NEW w \in Workers, ResetConsume(w)
      PROVE  PointerInv'
  BY <1>1, <1>2 DEF ResetConsume, PointerInv
<1>3. ASSUME NEW h \in ResetTokens, ForgotPassword(h) \/ ExpireReset(h)
      PROVE  PointerInv'
  BY <1>1, <1>3, NoneAssumption DEF ForgotPassword, ExpireReset, PointerInv, TInv, TypeOK
<1>4. CASE UNCHANGED <<resets, current>>
  BY <1>1, <1>4 DEF PointerInv
<1>5. ASSUME NEW w \in Workers, Arrive(w)
      PROVE  UNCHANGED <<resets, current>>
  BY <1>1, <1>5, ArriveStep DEF Arrived, store
<1>6. ASSUME NEW w \in Workers, Continue(w) \/ Fault(w), ~ResetConsume(w)
      PROVE  UNCHANGED <<resets, current>>
  BY <1>6 DEF Continue, VersionGet, VersionInit, Rotate, Store, RevokeScan, RevokeDelete,
     LogoutBlacklist, ResetCurrent, ResetWrite, Increment, ChangeWrite, ForceWrite, Fault, store
<1>7. CASE Second \/ OAuthSignIn \/ UNCHANGED vars
           \/ \E t \in Tokens : ExpireAccess(t) \/ ExpireRefresh(t)
  BY <1>4, <1>7 DEF Second, OAuthSignIn, vars, ExpireAccess, ExpireRefresh, store
<1>8. QED
  BY <1>2, <1>3, <1>4, <1>5, <1>6, <1>7 DEF Next

(* Only a request that finds its own token under the pointer moves on.     *)
Checked == \A w \in Workers : At(w, "resetCurrent") /\ req'[w].pc = "resetWrite"
               => current = req[w].reset

LEMMA CheckedStep == TInv /\ [Next]_vars => Checked
<1> SUFFICES ASSUME TInv, [Next]_vars,
                    NEW w \in Workers, At(w, "resetCurrent"), req'[w].pc = "resetWrite"
             PROVE  current = req[w].reset
  BY DEF Checked
<1>1. ASSUME NEW u \in Workers, Arrive(u)
      PROVE  FALSE
  BY <1>1, ArriveStep DEF Arrived, At, TInv, TypeOK
<1>2. ASSUME NEW u \in Workers, Fault(u)
      PROVE  FALSE
  BY <1>2 DEF Fault, Finish, Idle, At, TInv, TypeOK
<1>3. ASSUME NEW u \in Workers, Continue(u), ~ResetCurrent(u)
      PROVE  FALSE
  <2>1. req' = [req EXCEPT ![u] = req'[u]] /\ ~At(u, "resetCurrent")
    BY <1>3 DEF Continue, VersionGet, VersionInit, Rotate, Store, RevokeScan, RevokeDelete,
       LogoutBlacklist, ResetWrite, Increment, ResetConsume, ChangeWrite, ForceWrite, AfterRevoke,
       Answer, Signed, Goto, Finish, At, TInv, TypeOK
  <2>2. QED
    BY <2>1 DEF At, TInv, TypeOK
<1>4. ASSUME NEW u \in Workers, ResetCurrent(u)
      PROVE  current = req[w].reset
  BY <1>4 DEF ResetCurrent, Goto, Finish, Idle, At, TInv, TypeOK
<1>5. ASSUME req' = req
      PROVE  FALSE
  BY <1>5 DEF At
<1>6. QED
  BY <1>1, <1>2, <1>3, <1>4, <1>5 DEF Next, OAuthSignIn, ForgotPassword, ExpireReset,
     ExpireAccess, ExpireRefresh, Second, vars

(* A reset that looked its token up while another request consumed it, or   *)
(* after a newer mail replaced it, is turned away by its second check.      *)
THEOREM ConsumedRefused == Spec => ConsumedTokenRefused
<1>1. PointerInv /\ [Next]_vars =>
        [\A w \in Workers : At(w, "resetCurrent") /\ req'[w].pc = "resetWrite"
             => resets[req[w].reset] = "live"]_vars
  <2> SUFFICES ASSUME PointerInv, [Next]_vars,
                      NEW w \in Workers, At(w, "resetCurrent"), req'[w].pc = "resetWrite"
               PROVE  resets[req[w].reset] = "live"
    OBVIOUS
  <2>1. current = req[w].reset
    BY CheckedStep DEF PointerInv, Checked
  <2>2. req[w].reset \in ResetTokens
    BY DEF PointerInv, TInv, Assigned, At
  <2>3. QED
    BY <2>1, <2>2, NoneAssumption DEF PointerInv
<1>2. QED
  BY <1>1, InitPointer, NextPointer, PTL DEF Spec, ConsumedTokenRefused


-----------------------------------------------------------------------------
(* A step of one request leaves the locals of the others alone.            *)
LEMMA OthersStay ==
  ASSUME TInv, NEW w \in Workers, Arrive(w) \/ Continue(w) \/ Fault(w)
  PROVE  /\ \A v \in Workers \ {w} : req'[v] = req[v]
         /\ \E r : req' = [req EXCEPT ![w] = r]
<1>1. CASE Arrive(w)
  BY <1>1, ArriveStep DEF Arrived, TInv, TypeOK
<1>2. CASE Continue(w) \/ Fault(w)
  <2>1. req' = [req EXCEPT ![w] = req'[w]]
    BY <1>2 DEF Continue, VersionGet, VersionInit, Rotate, Store, RevokeScan, RevokeDelete,
       LogoutBlacklist, ResetCurrent, ResetWrite, Increment, ResetConsume, ChangeWrite, ForceWrite,
       Fault, AfterRevoke, Answer, Signed, Goto, Finish, TInv, TypeOK
  <2>2. QED
    BY <2>1 DEF TInv, TypeOK
<1>3. QED
  BY <1>1, <1>2

(* Second uses of a reset token.  A token that has set a password is under   *)
(* the pointer only while a request that will consume it is under way, or   *)
(* once two held it or one broke off.                                      *)
RaceInv ==
    /\ TInv
    /\ \A h \in used : resets[h] # "unborn"
    /\ \A w \in Workers : req[w].kind = "reset" => resets[req[w].reset] # "unborn"
    /\ current \in used \ raced => Holders(current) # {}
    /\ \A u, v \in Workers, h \in ResetTokens :
          u # v /\ u \in Holders(h) /\ v \in Holders(h) => h \in raced
    /\ \A w \in Workers : At(w, "resetWrite") /\ req[w].reset \in used => req[w].reset \in raced

LEMMA InitRace == Init => RaceInv
<1> SUFFICES ASSUME Init
             PROVE  RaceInv
  OBVIOUS
<1>1. used = {} /\ \A w \in Workers : req[w].pc = "idle" /\ req[w].kind = NONE
  BY DEF Init, Idle
<1>2. QED
  BY <1>1, InitTInv, NoneAssumption DEF RaceInv, Holders, At, Kinds

(* What a step leaves of one request when it is no business of reset's, or   *)
(* belongs to a reset that has not passed the second check.                *)
Aside(v) ==
    \/ /\ req'[v].kind = req[v].kind /\ req'[v].reset = req[v].reset
       /\ At(v, "resetCurrent")' = At(v, "resetCurrent")
       /\ req'[v].pc = "resetWrite" => At(v, "resetWrite")
    \/ /\ req[v].kind # "reset" \/ At(v, "resetCurrent")
       /\ req'[v].kind # "reset" /\ req'[v].pc # "resetWrite"
    \/ /\ req[v].kind # "reset"
       /\ req'[v].pc = "resetCurrent" /\ resets'[req'[v].reset] # "unborn"

LEMMA AsideRace ==
  ASSUME RaceInv, TInv', UNCHANGED <<used, raced>>, current' \in {current, NONE},
         \A h \in ResetTokens : resets[h] # "unborn" => resets'[h] # "unborn",
         \A v \in Workers : Aside(v)
  PROVE  RaceInv'
<1>0. TInv /\ \A w \in Workers : Assigned(req[w]) /\ Assigned(req'[w])
  BY DEF RaceInv, TInv
<1>1. \A h : Holders(h)' = Holders(h)
  BY <1>0 DEF Aside, Holders, At, Assigned
<1>2. (\A h \in used : resets[h] # "unborn")'
  BY <1>0 DEF RaceInv, TInv, TypeOK
<1>3. (\A w \in Workers : req[w].kind = "reset" => resets[req[w].reset] # "unborn")'
  BY <1>0 DEF RaceInv, Aside, Assigned
<1>4. (\A w \in Workers : At(w, "resetWrite") /\ req[w].reset \in used => req[w].reset \in raced)'
  BY <1>0 DEF RaceInv, Aside, Assigned, At
<1>5. NONE \notin used
  BY <1>0, NoneAssumption DEF TInv, TypeOK
<1>6. QED
  BY <1>1, <1>2, <1>3, <1>4, <1>5 DEF RaceInv

LEMMA NextRace == RaceInv /\ [Next]_vars => RaceInv'
<1> SUFFICES ASSUME RaceInv, [Next]_vars
             PROVE  RaceInv'
  OBVIOUS
<1>0. TInv /\ TInv' /\ \A w \in Workers : Assigned(req[w]) /\ Assigned(req'[w])
  BY NextTInv DEF RaceInv, TInv
<1>1. ASSUME NEW w \in Workers, Arrive(w)
      PROVE  RaceInv'
  <2>1. PICK r : Arrived(w, r)
    BY <1>0, <1>1, ArriveStep
  <2>2. UNCHANGED <<used, raced, current, resets>>
    BY <2>1 DEF Arrived, store
  <2>3. Aside(w)
    <3>1. req[w].kind # "reset" /\ req'[w] = r
      BY <1>0, <2>1, NoneAssumption DEF Arrived, At, Assigned, Kinds, TInv, TypeOK
    <3>2. IF r.kind = "reset" THEN r.pc = "resetCurrent" /\ resets[r.reset] = "live"
          ELSE r.pc # "resetWrite"
      BY <2>1 DEF Arrived
    <3>3. QED
      BY <2>2, <3>1, <3>2 DEF Aside
  <2>4. \A v \in Workers : Aside(v)
    BY <1>0, <1>1, <2>3, OthersStay DEF Aside, At
  <2>5. QED
    BY <1>0, <2>2, <2>4, AsideRace
<1>2. ASSUME NEW w \in Workers,
             \/ VersionGet(w) \/ VersionInit(w) \/ Rotate(w) \/ Store(w)
             \/ RevokeScan(w) \/ RevokeDelete(w) \/ LogoutBlacklist(w)
             \/ Increment(w) \/ ChangeWrite(w) \/ ForceWrite(w)
      PROVE  RaceInv'
  <2>1. UNCHANGED <<used, raced, current, resets>>
    BY <1>2 DEF VersionGet, VersionInit, Rotate, Store, RevokeScan, RevokeDelete,
       LogoutBlacklist, Increment, ChangeWrite, ForceWrite, AfterRevoke, Answer, Signed,
       store, history, sessions
  <2>2. \A v \in Workers \ {w} : req'[v] = req[v]
    BY <1>0, <1>2, OthersStay DEF Continue
  <2>3. Aside(w)
    <3>0. req[w] \in Request /\ Idle.kind # "reset" /\ Idle.pc = "idle"
      BY <1>0, NoneAssumption DEF TInv, TypeOK, Idle, Kinds
    <3>1. CASE VersionGet(w) \/ VersionInit(w) \/ Rotate(w) \/ Store(w) \/ LogoutBlacklist(w)
      <4>1. req[w].kind # "reset" /\ req[w].pc # "resetWrite"
        BY <1>0, <3>1 DEF VersionGet, VersionInit, Rotate, Store, LogoutBlacklist, At, Assigned
      <4>2. req'[w].kind \in {req[w].kind, NONE} /\ req'[w].pc # "resetWrite"
        <5>1. CASE \E p \in {"versionInit", "store"} : Goto(w, p)
          BY <1>0, <3>0, <5>1 DEF Goto, TInv, TypeOK, Request
        <5>2. CASE \E t \in Tokens : Signed(w, t)
          BY <1>0, <3>0, <5>2 DEF Signed, TInv, TypeOK, Request
        <5>3. CASE Finish(w)
          BY <1>0, <5>3 DEF Finish, Idle, TInv, TypeOK
        <5>4. QED
          BY <3>1, <5>1, <5>2, <5>3 DEF VersionGet, VersionInit, Rotate, Store, LogoutBlacklist,
             Answer
      <4>3. QED
        BY <4>1, <4>2, NoneAssumption DEF Aside, Kinds
    <3>2. CASE RevokeScan(w) \/ RevokeDelete(w) \/ Increment(w) \/ ChangeWrite(w) \/ ForceWrite(w)
      <4>1. req[w].pc \notin {"resetCurrent", "resetWrite"}
        BY <3>2 DEF RevokeScan, RevokeDelete, Increment, ChangeWrite, ForceWrite, At
      <4>2. \/ /\ req'[w].kind = req[w].kind /\ req'[w].reset = req[w].reset
               /\ req'[w].pc \notin {"resetCurrent", "resetWrite"}
            \/ req[w].kind # "reset" /\ req'[w] = Idle
        BY <1>0, <3>0, <3>2 DEF RevokeScan, RevokeDelete, Increment, ChangeWrite, ForceWrite,
           AfterRevoke, Answer, Goto, Finish, TInv, TypeOK, Request
      <4>3. QED
        BY <3>0, <4>1, <4>2 DEF Aside, At
    <3>3. QED
      BY <1>2, <3>1, <3>2
  <2>4. \A v \in Workers : Aside(v)
    BY <2>2, <2>3 DEF Aside, At
  <2>5. QED
    BY <1>0, <2>1, <2>4, AsideRace
<1>3. ASSUME NEW w \in Workers, ResetCurrent(w)
      PROVE  RaceInv'
  <2>1. \A v \in Workers \ {w} : req'[v] = req[v]
    BY <1>0, <1>3, OthersStay DEF Continue
  <2>2. CASE current # req[w].reset
    <3>1. Aside(w) /\ UNCHANGED <<used, raced, current, resets>>
      BY <1>0, <1>3, <2>2, NoneAssumption DEF ResetCurrent, Finish, Idle, Aside, At, store, TInv,
         TypeOK, Kinds
    <3>2. \A v \in Workers : Aside(v)
      BY <2>1, <3>1 DEF Aside, At
    <3>3. QED
      BY <1>0, <3>1, <3>2, AsideRace
  <2>3. CASE current = req[w].reset
    <3>1. /\ req[w].pc = "resetCurrent" /\ req'[w] = [req[w] EXCEPT !.pc = "resetWrite"]
          /\ UNCHANGED <<used, current, resets>>
          /\ raced' = IF Holders(current) # {} THEN raced \cup {current} ELSE raced
      BY <1>0, <1>3, <2>3 DEF ResetCurrent, Goto, At, store, TInv, TypeOK
    <3>2. req[w].kind = "reset" /\ current \in ResetTokens /\ w \notin Holders(current)
      BY <1>0, <2>3, <3>1 DEF Assigned, Holders, At
    <3>3. req[w] \in Request
      BY <1>0 DEF TInv, TypeOK
    <3>4. \A h : Holders(h)' = IF h = current THEN Holders(h) \cup {w} ELSE Holders(h)
      BY <2>1, <2>3, <3>1, <3>2, <3>3 DEF Holders, At, Request
    <3>5. (\A u \in Workers : req[u].kind = "reset" => resets[req[u].reset] # "unborn")'
      BY <2>1, <3>1, <3>3 DEF RaceInv, Request
    <3>6. (\A u, v \in Workers, h \in ResetTokens :
              u # v /\ u \in Holders(h) /\ v \in Holders(h) => h \in raced)'
      BY <3>1, <3>4 DEF RaceInv
    <3>7. (\A u \in Workers : At(u, "resetWrite") /\ req[u].reset \in used
                                 => req[u].reset \in raced)'
      BY <2>1, <2>3, <3>1, <3>3 DEF RaceInv, At, Request
    <3>8. QED
      BY <1>0, <3>1, <3>4, <3>5, <3>6, <3>7 DEF RaceInv
  <2>4. QED
    BY <2>2, <2>3
<1>4. ASSUME NEW w \in Workers, ResetWrite(w)
      PROVE  RaceInv'
  <2>1. \A v \in Workers \ {w} : req'[v] = req[v]
    BY <1>0, <1>4, OthersStay DEF Continue
  <2>2. /\ req[w].pc = "resetWrite" /\ req'[w] = [req[w] EXCEPT !.pc = "scan"]
        /\ UNCHANGED <<raced, current, resets>> /\ used' = used \cup {req[w].reset}
        /\ req[w].kind = "reset" /\ req[w].reset \in ResetTokens /\ req[w] \in Request
    BY <1>0, <1>4 DEF ResetWrite, Goto, At, Assigned, store, sessions, TInv, TypeOK
  <2>3. \A h : Holders(h)' = Holders(h)
    BY <2>1, <2>2 DEF Holders, At, Request
  <2>4. w \in Holders(req[w].reset)
    BY <2>2 DEF Holders, At
  <2>5. (\A h \in used : resets[h] # "unborn")'
    BY <2>2 DEF RaceInv
  <2>6. (\A u \in Workers : req[u].kind = "reset" => resets[req[u].reset] # "unborn")'
    BY <2>1, <2>2 DEF RaceInv, Request
  <2>7. ASSUME NEW u \in Workers, req'[u].pc = "resetWrite", req'[u].reset \in used'
        PROVE  req'[u].reset \in raced'
    <3>1. u # w /\ req'[u] = req[u]
      BY <2>1, <2>2, <2>7 DEF Request
    <3>2. u \in Holders(req[u].reset) /\ req[u].reset \in ResetTokens
      BY <1>0, <2>7, <3>1 DEF Holders, At, Assigned
    <3>3. CASE req[u].reset \in used
      BY <2>2, <2>7, <3>1, <3>3 DEF RaceInv, At
    <3>4. CASE req[u].reset = req[w].reset
      BY <2>2, <2>4, <3>1, <3>2, <3>4 DEF RaceInv
    <3>5. QED
      BY <2>2, <2>7, <3>1, <3>3, <3>4
  <2>8. QED
    BY <1>0, <2>2, <2>3, <2>4, <2>5, <2>6, <2>7 DEF RaceInv, At
<1>5. ASSUME NEW w \in Workers, ResetConsume(w) \/ Fault(w)
      PROVE  RaceInv'
  <2>1. \A v \in Workers \ {w} : req'[v] = req[v]
    BY <1>0, <1>5, OthersStay DEF Continue
  <2>2. req'[w] = Idle /\ used' = used /\ raced \subseteq raced'
    BY <1>0, <1>5 DEF ResetConsume, Answer, Fault, Finish, sessions, TInv, TypeOK
  <2>3. \A h : Holders(h)' = Holders(h) \ {w}
    BY <2>1, <2>2, NoneAssumption DEF Holders, At, Idle, Kinds
  <2>4. \A h \in ResetTokens : resets[h] # "unborn" => resets'[h] # "unborn"
    BY <1>0, <1>5 DEF ResetConsume, Fault, store, TInv, TypeOK
  <2>5. current' \in used' \ raced' => Holders(current)' # {}
    <3>1. CASE ResetConsume(w)
      BY <1>0, <3>1, NoneAssumption DEF ResetConsume, TInv, TypeOK
    <3>2. CASE Fault(w)
      <4>1. current' = current /\ raced' = IF w \in Holders(req[w].reset)
                                           THEN raced \cup {req[w].reset} ELSE raced
        BY <3>2 DEF Fault, store
      <4>2. w \in Holders(current) => req[w].reset = current
        BY DEF Holders
      <4>3. QED
        BY <2>2, <2>3, <4>1, <4>2 DEF RaceInv
    <3>3. QED
      BY <1>5, <3>1, <3>2
  <2>6. (\A h \in used : resets[h] # "unborn")'
    BY <1>0, <2>2, <2>4 DEF RaceInv, TInv, TypeOK
  <2>7. (\A u \in Workers : req[u].kind = "reset" => resets[req[u].reset] # "unborn")'
    BY <1>0, <2>1, <2>2, <2>4, NoneAssumption DEF RaceInv, Assigned, Idle, Kinds
  <2>8. (\A u \in Workers : At(u, "resetWrite") /\ req[u].reset \in used => req[u].reset \in raced)'
    BY <2>1, <2>2 DEF RaceInv, At, Idle
  <2>9. QED
    BY <1>0, <2>2, <2>3, <2>5, <2>6, <2>7, <2>8 DEF RaceInv
<1>6. ASSUME NEW h \in ResetTokens, ForgotPassword(h)
      PROVE  RaceInv'
  <2>1. req' = req /\ UNCHANGED <<used, raced>> /\ h \notin used
    BY <1>6 DEF ForgotPassword, history, RaceInv
  <2>2. \A g \in ResetTokens : resets[g] # "unborn" => resets'[g] # "unborn"
    BY <1>0, <1>6 DEF ForgotPassword, TInv, TypeOK
  <2>3. current' = h
    BY <1>6 DEF ForgotPassword
  <2>4. \A g : Holders(g)' = Holders(g)
    BY <2>1 DEF Holders, At
  <2>5. QED
    BY <1>0, <2>1, <2>2, <2>3, <2>4 DEF RaceInv, At, Assigned, TInv, TypeOK
<1>7. ASSUME req' = req, UNCHANGED <<used, raced>>, current' \in {current, NONE},
             \A h \in ResetTokens : resets[h] # "unborn" => resets'[h] # "unborn"
      PROVE  RaceInv'
  BY <1>0, <1>7, AsideRace DEF Aside, At
<1>8. ASSUME NEW h \in ResetTokens, ExpireReset(h)
      PROVE  RaceInv'
  BY <1>0, <1>7, <1>8 DEF ExpireReset, history, TInv, TypeOK
<1>9. CASE Second \/ OAuthSignIn \/ UNCHANGED vars
           \/ \E t \in Tokens : ExpireAccess(t) \/ ExpireRefresh(t)
  BY <1>7, <1>9 DEF Second, OAuthSignIn, vars, ExpireAccess, ExpireRefresh, store, history
<1>10. QED
  BY <1>1, <1>2, <1>3, <1>4, <1>5, <1>6, <1>8, <1>9 DEF Next, Continue

(* resetPassword sets a password a second time with one token only when two  *)
(* requests were past both checks of it at once, or one broke off before it *)
(* had deleted the keys: consuming it one after the other never does.       *)
THEOREM ResetTokensReused == Spec => ResetTokenReusedByRaceOnly
<1>1. RaceInv /\ [Next]_vars =>
        [\A w \in Workers : At(w, "resetWrite") /\ req'[w].pc = "scan" /\ req[w].reset \in used
             => req[w].reset \in raced]_vars
  BY DEF RaceInv
<1>2. QED
  BY <1>1, InitRace, NextRace, PTL DEF Spec, ResetTokenReusedByRaceOnly

-----------------------------------------------------------------------------
(* The end of sessions.  Who owns what: the first pair of a session, and     *)
(* every pair a request or the history names, has been signed.             *)
SessionsOf ==
    /\ TInv
    /\ active \subseteq AllIssued /\ ended \subseteq AllIssued
    /\ \A t \in AllIssued : /\ tokens[t].session \in AllIssued
                            /\ tokens[t].version = 0 => tokens[t].session = t
    /\ \A w \in Workers :
          /\ req[w].before \subseteq AllIssued
          /\ req[w].pc \in {"rotate", "store"} => req[w].pair \in AllIssued
          /\ req[w].kind = "login" => req[w].token = NONE /\ req[w].session = NONE
          /\ req[w].kind = "refresh" => req[w].session \in AllIssued

(* How a request that signs ends a step: it holds t, which descends from the *)
(* session it renews or is a session's first.                              *)
SignsFor(w, t) ==
    /\ req[w].pc \in {"version", "versionInit"}
    /\ req' = [req EXCEPT ![w].pair = t,
                          ![w].pc = IF req[w].kind = "login" THEN "store" ELSE "rotate"]
    /\ slipped' = IF Issued(t) \/ req[w].token \in slipped THEN slipped \cup {t} ELSE slipped
    /\ \E v \in Nat \ {0} :
          tokens' = [tokens EXCEPT ![t] =
              [access |-> "live", version |-> v,
               session |-> IF req[w].session = NONE THEN t ELSE req[w].session]]
    /\ UNCHANGED <<active, ended>>

LEMMA SignsStep ==
  ASSUME TInv, NEW w \in Workers, VersionInit(w) \/ (VersionGet(w) /\ tv # 0)
  PROVE  \E t \in Tokens : SignsFor(w, t)
<1>1. PICK t \in Tokens, v \in Nat \ {0} :
          /\ Sign(t, v, req[w].session) /\ Signed(w, t)
          /\ req[w].session \in {NONE} \cup Tokens /\ req[w].pc \in {"version", "versionInit"}
  BY SignStep
<1>2. UNCHANGED active
  BY DEF VersionInit, VersionGet, store
<1>3. SignsFor(w, t)
  BY <1>1, <1>2 DEF SignsFor, Sign, Signed
<1>4. QED
  BY <1>3

(* A second signature within a second changes nothing but the session.     *)
LEMMA OAuthStep ==
  ASSUME SessionsOf, OAuthSignIn
  PROVE  \E t \in Tokens :
            /\ tokens' = [tokens EXCEPT ![t] = [access |-> "live", version |-> 0, session |-> t]]
            /\ Issued(t) => tokens[t].session = t
            /\ UNCHANGED <<req, active, slipped, ended>>
<1>1. PICK t \in Tokens : Sign(t, 0, NONE)
  BY DEF OAuthSignIn
<1>2. Issued(t) => tokens[t].session = t
  BY <1>1 DEF Sign, SameSecond, AllIssued, SessionsOf
<1>3. QED
  BY <1>1, <1>2 DEF OAuthSignIn, Sign, store, history, sessions

LEMMA InitSessions == Init => SessionsOf
<1> SUFFICES ASSUME Init
             PROVE  SessionsOf
  OBVIOUS
<1>1. /\ AllIssued = {} /\ active = {} /\ ended = {}
      /\ \A w \in Workers : req[w] = Idle
  BY DEF Init, AllIssued, Issued
<1>2. Idle.before = {} /\ Idle.pc = "idle" /\ Idle.kind \notin {"login", "refresh"}
  BY NoneAssumption DEF Idle, Kinds
<1>3. QED
  BY <1>1, <1>2, InitTInv DEF SessionsOf

(* A step that signs nothing.                                              *)
LEMMA SessionsSame ==
  ASSUME SessionsOf, TInv', AllIssued' = AllIssued,
         \A t \in AllIssued : /\ tokens'[t].session = tokens[t].session
                              /\ tokens'[t].version = tokens[t].version,
         active' \subseteq AllIssued, ended' \subseteq AllIssued,
         \A w \in Workers :
            \/ /\ req'[w].before \in {req[w].before, {}} /\ req'[w].kind = req[w].kind
               /\ req'[w].token = req[w].token /\ req'[w].session = req[w].session
               /\ req'[w].pair = req[w].pair
               /\ req'[w].pc \in {"rotate", "store"} => req[w].pc \in {"rotate", "store"}
            \/ /\ req'[w].before \subseteq AllIssued /\ req'[w].pc \notin {"rotate", "store"}
               /\ req'[w].kind = "login" => req'[w].token = NONE /\ req'[w].session = NONE
               /\ req'[w].kind = "refresh" => req'[w].session \in AllIssued
  PROVE  SessionsOf'
  BY DEF SessionsOf

LEMMA NextSessions == SessionsOf /\ [Next]_vars => SessionsOf' /\ AllIssued \subseteq AllIssued'
<1> SUFFICES ASSUME SessionsOf, [Next]_vars
             PROVE  SessionsOf' /\ AllIssued \subseteq AllIssued'
  OBVIOUS
<1>0. TInv /\ TInv' /\ AllIssued \subseteq Tokens
  BY NextTInv DEF SessionsOf, AllIssued
<1>i. Idle.before = {} /\ Idle.pc = "idle" /\ Idle.kind \notin {"login", "refresh"}
  BY NoneAssumption DEF Idle, Kinds
<1>a. ASSUME NEW w \in Workers, Arrive(w)
      PROVE  SessionsOf' /\ AllIssued \subseteq AllIssued'
  <2>1. PICK r : Arrived(w, r)
    BY <1>0, <1>a, ArriveStep
  <2>2. UNCHANGED <<tokens, active, ended>> /\ AllIssued' = AllIssued
    BY <2>1 DEF Arrived, store, AllIssued, Issued
  <2>3. req'[w] = r /\ \A v \in Workers \ {w} : req'[v] = req[v]
    BY <1>0, <2>1 DEF Arrived, TInv, TypeOK
  <2>4. r.kind = "refresh" => r.session \in AllIssued
    BY <2>1 DEF Arrived, SessionsOf
  <2>5. /\ r.before \subseteq AllIssued /\ r.pc \notin {"rotate", "store"}
        /\ r.kind = "login" => r.token = NONE /\ r.session = NONE
    BY <2>1 DEF Arrived
  <2>6. QED
    BY <1>0, <2>2, <2>3, <2>4, <2>5, SessionsSame DEF SessionsOf
<1>b. ASSUME NEW w \in Workers, NEW t \in Tokens, SignsFor(w, t)
      PROVE  SessionsOf' /\ AllIssued \subseteq AllIssued'
  <2>1. AllIssued' = AllIssued \cup {t}
    BY <1>0, <1>b DEF SignsFor, AllIssued, Issued, TInv, TypeOK
  <2>2. req[w].kind \in {"login", "refresh"} /\ req[w] \in Request
    BY <1>0, <1>b DEF SignsFor, TInv, TypeOK, Assigned
  <2>3. req[w].session = NONE \/ req[w].session \in AllIssued
    BY <2>2 DEF SessionsOf
  <2>4. \A u \in AllIssued' : /\ tokens'[u].session \in AllIssued'
                              /\ tokens'[u].version = 0 => tokens'[u].session = u
    BY <1>0, <1>b, <2>1, <2>3 DEF SignsFor, SessionsOf, TInv, TypeOK
  <2>5. \A v \in Workers \ {w} : req'[v] = req[v]
    BY <1>0, <1>b DEF SignsFor, TInv, TypeOK
  <2>6. /\ req'[w].before = req[w].before /\ req'[w].kind = req[w].kind /\ req'[w].pair = t
        /\ req'[w].token = req[w].token /\ req'[w].session = req[w].session
    BY <1>0, <1>b, <2>2 DEF SignsFor, TInv, TypeOK, Request
  <2>7. \A v \in Workers :
          /\ req'[v].before \subseteq AllIssued'
          /\ req'[v].pc \in {"rotate", "store"} => req'[v].pair \in AllIssued'
          /\ req'[v].kind = "login" => req'[v].token = NONE /\ req'[v].session = NONE
          /\ req'[v].kind = "refresh" => req'[v].session \in AllIssued'
    BY <2>1, <2>5, <2>6 DEF SessionsOf
  <2>8. active' \subseteq AllIssued' /\ ended' \subseteq AllIssued'
    BY <1>b, <2>1 DEF SignsFor, SessionsOf
  <2>9. QED
    BY <1>0, <2>1, <2>4, <2>7, <2>8 DEF SessionsOf
<1>c. ASSUME NEW w \in Workers, Continue(w) \/ Fault(w),
             ~VersionInit(w), ~(VersionGet(w) /\ tv # 0)
      PROVE  SessionsOf' /\ AllIssued \subseteq AllIssued'
  <2>1. UNCHANGED tokens
    BY <1>c DEF Continue, VersionGet, Rotate, Store, RevokeScan, RevokeDelete, LogoutBlacklist,
       ResetCurrent, ResetWrite, Increment, ResetConsume, ChangeWrite, ForceWrite, Fault, store
  <2>2. active' \subseteq active \/ (At(w, "store") /\ active' = active \cup {req[w].pair})
    BY <1>c DEF Continue, VersionGet, Rotate, Store, RevokeScan, RevokeDelete, LogoutBlacklist,
       ResetCurrent, ResetWrite, Increment, ResetConsume, ChangeWrite, ForceWrite, Fault, store
  <2>3. ended' \subseteq ended \cup req[w].before
    BY <1>c DEF Continue, VersionGet, Rotate, Store, RevokeScan, RevokeDelete, LogoutBlacklist,
       ResetCurrent, ResetWrite, Increment, ResetConsume, ChangeWrite, ForceWrite, Fault,
       AfterRevoke, Answer, Ends, history, sessions
  <2>4. AllIssued' = AllIssued
    BY <2>1 DEF AllIssued, Issued
  <2>5. \A v \in Workers \ {w} : req'[v] = req[v]
    BY <1>0, <1>c, OthersStay
  <2>6. \/ req'[w] = Idle
        \/ /\ req'[w].before = req[w].before /\ req'[w].kind = req[w].kind
           /\ req'[w].token = req[w].token /\ req'[w].session = req[w].session
           /\ req'[w].pair = req[w].pair
           /\ req'[w].pc \in {"rotate", "store"} => req[w].pc \in {"rotate", "store"}
    <3>0. req[w] \in Request
      BY <1>0 DEF TInv, TypeOK
    <3>1. CASE Finish(w)
      BY <1>0, <3>1 DEF Finish, TInv, TypeOK
    <3>2. CASE \E p \in PC \ {"rotate", "store"} : Goto(w, p)
      BY <1>0, <3>0, <3>2 DEF Goto, TInv, TypeOK, Request
    <3>3. CASE Rotate(w)
      BY <1>0, <3>0, <3>3 DEF Rotate, At, Goto, TInv, TypeOK, Request
    <3>4. CASE RevokeScan(w)
      BY <1>0, <3>0, <3>4 DEF RevokeScan, TInv, TypeOK, Request
    <3>5. QED
      BY <1>c, <3>1, <3>2, <3>3, <3>4 DEF Continue, VersionGet, Store, RevokeDelete,
         LogoutBlacklist, ResetCurrent, ResetWrite, Increment, ResetConsume, ChangeWrite,
         ForceWrite, Fault, AfterRevoke, Answer, PC
  <2>7. active' \subseteq AllIssued /\ ended' \subseteq AllIssued
    BY <2>2, <2>3 DEF SessionsOf, At
  <2>8. QED
    BY <1>0, <1>i, <2>1, <2>4, <2>5, <2>6, <2>7, SessionsSame
<1>d. CASE OAuthSignIn
  <2>1. PICK t \in Tokens :
            /\ tokens' = [tokens EXCEPT ![t] = [access |-> "live", version |-> 0, session |-> t]]
            /\ Issued(t) => tokens[t].session = t
            /\ UNCHANGED <<req, active, slipped, ended>>
    BY <1>d, OAuthStep
  <2>2. AllIssued' = AllIssued \cup {t}
    BY <1>0, <2>1 DEF AllIssued, Issued, TInv, TypeOK
  <2>3. QED
    BY <1>0, <2>1, <2>2 DEF SessionsOf, TInv, TypeOK
<1>e. CASE Second \/ UNCHANGED vars \/ (\E h \in ResetTokens : ForgotPassword(h) \/ ExpireReset(h))
           \/ \E t \in Tokens : ExpireAccess(t) \/ ExpireRefresh(t)
  <2>1. req' = req /\ ended' = ended /\ active' \subseteq active
    BY <1>e DEF Second, vars, ForgotPassword, ExpireReset, ExpireAccess, ExpireRefresh, store,
       history, sessions
  <2>2. \A t \in Tokens : /\ tokens'[t].session = tokens[t].session
                          /\ tokens'[t].version = tokens[t].version
                          /\ Issued(t)' = Issued(t)
    BY <1>0, <1>e DEF Second, vars, ForgotPassword, ExpireReset, ExpireAccess, ExpireRefresh,
       Issued, TInv, TypeOK, Pair
  <2>3. AllIssued' = AllIssued
    BY <2>2 DEF AllIssued
  <2>4. QED
    BY <1>0, <2>1, <2>2, <2>3, SessionsSame DEF SessionsOf
<1>f. QED
  BY <1>0, <1>a, <1>b, <1>c, <1>d, <1>e, SignsStep DEF Next, Continue

-----------------------------------------------------------------------------
(* Access tokens.  No pair has a version beyond tv:user, so an increment     *)
(* refuses every one there is; one that waits for its answer has done so.   *)
BarInv ==
    /\ VersionInv
    /\ barred \subseteq AllIssued
    /\ \A t \in barred : ~Accepted(t)
    /\ \A t \in AllIssued : tokens[t].version <= tv
    /\ \A w \in Workers :
          /\ req[w].before \subseteq AllIssued
          /\ req[w].kind = "logout" => req[w].token \in AllIssued
          /\ At(w, "consume") => \A t \in req[w].before : ~Accepted(t)

LEMMA InitBar == InitialVersions = {1} /\ Init => BarInv
<1> SUFFICES ASSUME InitialVersions = {1}, Init
             PROVE  BarInv
  OBVIOUS
<1>1. AllIssued = {} /\ barred = {} /\ \A w \in Workers : req[w] = Idle
  BY DEF Init, AllIssued, Issued
<1>2. Idle.before = {} /\ Idle.pc = "idle" /\ Idle.kind # "logout"
  BY NoneAssumption DEF Idle, Kinds
<1>3. QED
  BY <1>1, <1>2, InitVersion DEF BarInv, At

(* What is issued stays so, with a version not beyond tv.                   *)
LEMMA VersionsStep ==
  ASSUME BarInv, [Next]_vars
  PROVE  AllIssued \subseteq AllIssued' /\ \A t \in AllIssued' : tokens'[t].version <= tv'
<1>0. /\ VersionInv /\ VersionInv' /\ TInv /\ TInv' /\ Downhill /\ tv \in Nat /\ tv' \in Nat
      /\ AllIssued \subseteq Tokens /\ \A t \in Tokens : tokens[t].version \in Nat
  BY NextVersion DEF BarInv, VersionInv, TInv, TypeOK, AllIssued, Pair
<1>1. ASSUME NEW t \in Tokens, NEW v \in Nat, NEW s \in {NONE} \cup Tokens, Sign(t, v, s), v <= tv'
      PROVE  AllIssued \subseteq AllIssued' /\ \A u \in AllIssued' : tokens'[u].version <= tv'
  BY <1>0, <1>1 DEF Sign, AllIssued, Issued, BarInv, Downhill, TInv, TypeOK
<1>2. ASSUME \A t \in Tokens : /\ tokens'[t].version = tokens[t].version
                               /\ Issued(t)' = Issued(t)
      PROVE  AllIssued \subseteq AllIssued' /\ \A u \in AllIssued' : tokens'[u].version <= tv'
  BY <1>0, <1>2 DEF AllIssued, BarInv, Downhill
<1>3. CASE UNCHANGED tokens
  BY <1>2, <1>3 DEF Issued
<1>4. ASSUME NEW w \in Workers, Arrive(w)
      PROVE  UNCHANGED tokens
  BY <1>0, <1>4, ArriveStep DEF Arrived
<1>5. ASSUME NEW w \in Workers, Continue(w) \/ Fault(w), ~VersionGet(w), ~VersionInit(w)
      PROVE  UNCHANGED tokens
  BY <1>5 DEF Continue, Rotate, Store, RevokeScan, RevokeDelete, LogoutBlacklist,
     ResetCurrent, ResetWrite, Increment, ResetConsume, ChangeWrite, ForceWrite, Fault
<1>6. ASSUME NEW w \in Workers, VersionGet(w)
      PROVE  AllIssued \subseteq AllIssued' /\ \A u \in AllIssued' : tokens'[u].version <= tv'
  <2>1. PICK t \in Tokens : Sign(t, tv, req[w].session)
    BY <1>6 DEF VersionGet, BarInv, VersionInv
  <2>2. req[w].session \in {NONE} \cup Tokens /\ tv <= tv'
    BY <1>0 DEF TInv, TypeOK, Request, Downhill
  <2>3. QED
    BY <1>0, <1>1, <2>1, <2>2
<1>7. ASSUME NEW w \in Workers, VersionInit(w)
      PROVE  FALSE
  BY <1>7 DEF VersionInit, At, BarInv, VersionInv
<1>8. CASE OAuthSignIn
  BY <1>0, <1>1, <1>8 DEF OAuthSignIn
<1>9. ASSUME NEW t \in Tokens, ExpireAccess(t)
      PROVE  AllIssued \subseteq AllIssued' /\ \A u \in AllIssued' : tokens'[u].version <= tv'
  BY <1>0, <1>2, <1>9 DEF ExpireAccess, Issued, TInv, TypeOK, Pair
<1>10. CASE Second \/ UNCHANGED vars \/ (\E h \in ResetTokens : ForgotPassword(h) \/ ExpireReset(h))
            \/ \E t \in Tokens : ExpireRefresh(t)
  BY <1>3, <1>10 DEF Second, vars, ForgotPassword, ExpireReset, ExpireRefresh
<1>11. QED
  BY <1>3, <1>4, <1>5, <1>6, <1>7, <1>8, <1>9, <1>10 DEF Next

(* What an increment does to the pairs there are.                          *)
LEMMA IncrementRefuses ==
  ASSUME BarInv, NEW w \in Workers, Increment(w)
  PROVE  \A t \in AllIssued : ~Accepted(t)'
<1> SUFFICES ASSUME NEW t \in AllIssued
             PROVE  ~Accepted(t)'
  OBVIOUS
<1>1. tokens' = tokens /\ tv' = tv + 1 /\ tv \in Nat /\ tv >= 1
  BY DEF Increment, BarInv, VersionInv, TInv, TypeOK
<1>2. tokens[t].version \in Nat /\ tokens[t].version <= tv
  BY DEF BarInv, VersionInv, TInv, TypeOK, AllIssued, Pair
<1>3. PayloadVersion(t)' <= tv /\ PayloadVersion(t)' \in Nat
  BY <1>1, <1>2 DEF PayloadVersion
<1>4. QED
  BY <1>1, <1>3 DEF Accepted

LEMMA NextBar == BarInv /\ [Next]_vars => BarInv'
<1> SUFFICES ASSUME BarInv, [Next]_vars
             PROVE  BarInv'
  OBVIOUS
<1>0. /\ VersionInv /\ VersionInv' /\ TInv /\ TInv'
      /\ \A v \in Workers : req[v] \in Request /\ Assigned(req[v])
  BY NextVersion DEF BarInv, VersionInv, TInv, TypeOK
<1>1. AllIssued \subseteq AllIssued' /\ \A t \in AllIssued' : tokens'[t].version <= tv'
  BY VersionsStep
<1>2. \A t \in AllIssued : ~Accepted(t) => ~Accepted(t)'
  BY <1>0, NextVersion, DownhillRefuses DEF RefusalStands, AllIssued
<1>i. Idle.before = {} /\ Idle.pc = "idle" /\ Idle.kind # "logout"
  BY NoneAssumption DEF Idle, Kinds
<1>3. ASSUME \A v \in Workers :
                \/ req'[v] = req[v] \/ req'[v] = Idle
                \/ /\ req'[v].before = req[v].before /\ req'[v].kind = req[v].kind
                   /\ req'[v].token = req[v].token
                   /\ At(v, "consume")' =>
                         At(v, "consume") \/ \A t \in req[v].before : ~Accepted(t)'
                \/ /\ req'[v].before \subseteq AllIssued
                   /\ req'[v].kind = "logout" => req'[v].token \in AllIssued'
                   /\ ~At(v, "consume")',
             barred' \subseteq AllIssued, \A t \in barred' : ~Accepted(t)'
      PROVE  BarInv'
  <2> SUFFICES ASSUME NEW v \in Workers
               PROVE  /\ req'[v].before \subseteq AllIssued'
                      /\ req'[v].kind = "logout" => req'[v].token \in AllIssued'
                      /\ At(v, "consume")' => \A t \in req'[v].before : ~Accepted(t)'
    BY <1>0, <1>1, <1>3 DEF BarInv
  <2>1. /\ req[v].before \subseteq AllIssued
        /\ req[v].kind = "logout" => req[v].token \in AllIssued
        /\ At(v, "consume") => \A t \in req[v].before : ~Accepted(t)
    BY <1>0 DEF BarInv, Assigned
  <2>3. At(v, "consume") => \A t \in req[v].before : ~Accepted(t)'
    BY <1>2, <2>1
  <2>4. QED
    BY <1>i, <1>1, <1>3, <2>1, <2>3 DEF At
<1>a. ASSUME NEW w \in Workers, Arrive(w)
      PROVE  BarInv'
  <2>1. PICK r : Arrived(w, r)
    BY <1>0, <1>a, ArriveStep
  <2>2. /\ barred' = barred /\ req'[w] = r /\ r.before \subseteq AllIssued
        /\ r.pc # "consume" /\ tokens' = tokens /\ (r.kind = "logout" => Issued(r.token) /\ r.token \in Tokens)
        /\ \A v \in Workers \ {w} : req'[v] = req[v]
    BY <1>0, <2>1 DEF Arrived, Assigned, TInv, TypeOK
  <2>3. r.kind = "logout" => r.token \in AllIssued'
    BY <1>1, <2>2 DEF AllIssued
  <2>4. barred' \subseteq AllIssued /\ \A t \in barred' : ~Accepted(t)'
    BY <1>2, <2>2 DEF BarInv
  <2>5. QED
    BY <1>3, <2>2, <2>3, <2>4 DEF At
<1>b. ASSUME NEW w \in Workers, Continue(w) \/ Fault(w)
      PROVE  BarInv'
  <2>1. \A v \in Workers \ {w} : req'[v] = req[v]
    BY <1>0, <1>b, OthersStay
  <2>2. \/ barred' = barred
        \/ LogoutBlacklist(w) /\ barred' = barred \cup {req[w].token}
        \/ (Increment(w) \/ ResetConsume(w)) /\ barred' = barred \cup req[w].before
    <3>1. CASE RevokeDelete(w)
      <4>1. req[w].kind \in {"logout", "reset", "change", "force"}
        BY <1>0, <3>1 DEF RevokeDelete, At, Assigned
      <4>2. QED
        BY <3>1, <4>1 DEF RevokeDelete, AfterRevoke, Answer, Bars, history, sessions
    <3>2. CASE LogoutBlacklist(w)
      BY <1>0, <3>2 DEF LogoutBlacklist, At, Assigned, Answer, Bars
    <3>3. CASE Increment(w)
      BY <1>0, <3>3 DEF Increment, At, Assigned, Answer, Bars, history, sessions
    <3>4. CASE ResetConsume(w)
      BY <1>0, <3>4 DEF ResetConsume, At, Assigned, Answer, Bars
    <3>5. QED
      BY <1>b, <3>1, <3>2, <3>3, <3>4 DEF Continue, VersionGet, VersionInit, Rotate, Store,
         RevokeScan, ResetCurrent, ResetWrite, ChangeWrite, ForceWrite, Fault, Signed, history,
         sessions
  <2>3. barred' \subseteq AllIssued /\ \A t \in barred' : ~Accepted(t)'
    <3>0. barred \subseteq AllIssued /\ \A t \in barred : ~Accepted(t)'
      BY <1>2 DEF BarInv
    <3>1. CASE LogoutBlacklist(w) /\ barred' = barred \cup {req[w].token}
      <4>1. PICK t : t = req[w].token
        OBVIOUS
      <4>2. t \in AllIssued /\ tokens' = tokens
        BY <1>0, <3>1, <4>1 DEF LogoutBlacklist, At, Assigned, BarInv
      <4>3. ~Accepted(t)'
        BY <3>1, <4>1 DEF LogoutBlacklist, Accepted
      <4>4. QED
        BY <3>0, <3>1, <4>1, <4>2, <4>3
    <3>2. CASE Increment(w) /\ barred' = barred \cup req[w].before
      BY <3>0, <3>2, IncrementRefuses DEF BarInv
    <3>3. CASE ResetConsume(w) /\ barred' = barred \cup req[w].before
      BY <1>2, <3>0, <3>3 DEF ResetConsume, BarInv
    <3>4. QED
      BY <2>2, <3>0, <3>1, <3>2, <3>3
  <2>4. \/ req'[w] = Idle
        \/ /\ req'[w].before = req[w].before /\ req'[w].kind = req[w].kind
           /\ req'[w].token = req[w].token
           /\ req'[w].pc = "consume" => Increment(w)
    <3>1. CASE Finish(w)
      BY <1>0, <3>1 DEF Finish, TInv, TypeOK
    <3>2. CASE \E p \in PC \ {"consume"} : Goto(w, p)
      BY <1>0, <3>2 DEF Goto, TInv, TypeOK, Request
    <3>3. CASE Increment(w) /\ Goto(w, "consume")
      BY <1>0, <3>3 DEF Goto, TInv, TypeOK, Request
    <3>4. CASE RevokeScan(w)
      BY <1>0, <3>4 DEF RevokeScan, TInv, TypeOK, Request
    <3>5. CASE \E t \in Tokens : Signed(w, t)
      BY <1>0, <3>5 DEF Signed, TInv, TypeOK, Request
    <3>6. QED
      BY <1>b, <3>1, <3>2, <3>3, <3>4, <3>5 DEF Continue, VersionGet, VersionInit, Rotate, Store,
         RevokeDelete, LogoutBlacklist, ResetCurrent, ResetWrite, Increment, ResetConsume,
         ChangeWrite, ForceWrite, Fault, AfterRevoke, Answer, PC
  <2>5. Increment(w) => \A t \in req[w].before : ~Accepted(t)'
    BY IncrementRefuses DEF BarInv
  <2>6. QED
    BY <1>3, <2>1, <2>3, <2>4, <2>5 DEF At
<1>c. CASE UNCHANGED <<req, barred>>
  BY <1>2, <1>3, <1>c DEF BarInv
<1>d. QED
  BY <1>a, <1>b, <1>c DEF Next, OAuthSignIn, Second, vars, ForgotPassword, ExpireReset,
     ExpireAccess, ExpireRefresh, history, sessions

(* With tv:user in place, the access token of an answered logout, and after a *)
(* reset or a forced reset every access token there was when it came, is    *)
(* refused from the answer on, whatever the requests that overlapped it did. *)
THEOREM RevokedRefused == InitialVersions = {1} => (Spec => []RevokedAccessRefused)
<1> SUFFICES ASSUME InitialVersions = {1}
             PROVE  Spec => []RevokedAccessRefused
  OBVIOUS
<1>1. Spec => []BarInv
  BY InitBar, NextBar, PTL DEF Spec
<1>2. BarInv => RevokedAccessRefused
  BY DEF BarInv, RevokedAccessRefused
<1>3. QED
  BY <1>1, <1>2, PTL

(* No refresh token among A, and none that a sign-in is about to store, is    *)
(* of a session in S, and none is being renewed for one in R, the slipped   *)
(* ones apart.                                                             *)
Kept(S, R, A) ==
    /\ \A t \in A : t \in slipped \/ tokens[t].session \notin S
    /\ \A v \in Workers : req[v].pc \in {"rotate", "store"} =>
          req[v].pair \in slipped \/ tokens[req[v].pair].session \notin S
    /\ \A v \in Signers : req[v].kind = "refresh" =>
          req[v].token \in slipped \/ req[v].session \notin R

(* Steps keep it, whatever the sessions: only the second part adds to A, and *)
(* a refresh that comes while sessions are revoked slips.                  *)
LEMMA KeptStep ==
  ASSUME SessionsOf, [Next]_vars, NEW S, NEW R, S \subseteq AllIssued, S \subseteq R,
         NEW A, A \subseteq active, (A = active /\ R = S) \/ Revoking,
         Kept(S, R, A), NEW B, B \subseteq A \cup (active' \ active)
  PROVE  Kept(S, R, B)' /\ slipped \subseteq slipped'
<1>0. TInv /\ TInv' /\ SessionsOf' /\ \A v \in Workers : req[v] \in Request /\ Assigned(req[v])
  BY NextSessions DEF SessionsOf, TInv, TypeOK
<1>1. S \subseteq Tokens /\ active \subseteq AllIssued /\ AllIssued \subseteq Tokens
  BY DEF SessionsOf, AllIssued
<1>2. ASSUME \A t \in AllIssued : tokens'[t].session = tokens[t].session,
             slipped \subseteq slipped',
             \A t \in active' \ active : t \in slipped \/ tokens[t].session \notin S,
             \A v \in Workers :
                \/ /\ req'[v].pc \in {"version", "versionInit"}
                   /\ req[v].pc \in {"version", "versionInit"}
                   /\ req'[v].kind = req[v].kind /\ req'[v].token = req[v].token
                   /\ req'[v].session = req[v].session
                \/ /\ req'[v].pc \in {"version", "versionInit"}
                   /\ req'[v].kind = "refresh" => req'[v].token \in slipped'
                                                    \/ req'[v].session \notin R
                \/ /\ req'[v].pc \in {"rotate", "store"} /\ req[v].pc \in {"rotate", "store"}
                   /\ req'[v].pair = req[v].pair
                \/ req'[v].pc \notin {"version", "versionInit", "rotate", "store"},
             active' \subseteq AllIssued
      PROVE  Kept(S, R, B)' /\ slipped \subseteq slipped'
  <2>1. \A t \in B : t \in slipped' \/ tokens'[t].session \notin S
    BY <1>1, <1>2 DEF Kept
  <2>2. \A v \in Workers : req'[v].pc \in {"rotate", "store"} =>
            req'[v].pair \in slipped' \/ tokens'[req'[v].pair].session \notin S
    <3> SUFFICES ASSUME NEW v \in Workers, req'[v].pc \in {"rotate", "store"}
                 PROVE  req'[v].pair \in slipped' \/ tokens'[req'[v].pair].session \notin S
      OBVIOUS
    <3>1. req[v].pc \in {"rotate", "store"} /\ req'[v].pair = req[v].pair
      BY <1>2
    <3>2. req[v].pair \in AllIssued
      BY <3>1 DEF SessionsOf
    <3>3. QED
      BY <1>2, <3>1, <3>2 DEF Kept
  <2>3. \A v \in Workers : req'[v].pc \in {"version", "versionInit"} /\ req'[v].kind = "refresh"
            => req'[v].token \in slipped' \/ req'[v].session \notin R
    BY <1>2 DEF Kept, Signers
  <2>4. QED
    BY <1>2, <2>1, <2>2, <2>3 DEF Kept, Signers
<1>a. ASSUME NEW w \in Workers, Arrive(w)
      PROVE  Kept(S, R, B)' /\ slipped \subseteq slipped'
  <2>1. PICK r : Arrived(w, r)
    BY <1>0, <1>a, ArriveStep
  <2>2. UNCHANGED <<tokens, active>> /\ slipped \subseteq slipped'
    BY <2>1 DEF Arrived, store
  <2>3. req'[w] = r /\ \A v \in Workers \ {w} : req'[v] = req[v]
    BY <1>0, <2>1 DEF Arrived, TInv, TypeOK
  <2>4. r.kind = "refresh" => r.token \in slipped' \/ r.session \notin R
    BY <2>1, <2>2 DEF Arrived, Kept
  <2>5. r.pc \notin {"rotate", "store", "versionInit"}
    BY <2>1 DEF Arrived
  <2>6. QED
    BY <1>1, <1>2, <2>2, <2>3, <2>4, <2>5
<1>b. ASSUME NEW w \in Workers, NEW t \in Tokens, SignsFor(w, t)
      PROVE  Kept(S, R, B)' /\ slipped \subseteq slipped'
  <2>1. req[w].kind \in {"login", "refresh"} /\ w \in Signers
    BY <1>0, <1>b DEF SignsFor, Assigned, Signers
  <2>2. /\ slipped \subseteq slipped' /\ active' = active
        /\ Issued(t) \/ req[w].token \in slipped => t \in slipped'
        /\ tokens'[t].session = IF req[w].session = NONE THEN t ELSE req[w].session
        /\ \A u \in Tokens \ {t} : tokens'[u].session = tokens[u].session
    BY <1>0, <1>b DEF SignsFor, TInv, TypeOK
  <2>3. t \in slipped' \/ tokens'[t].session \notin S
    <3>1. CASE req[w].kind = "login"
      BY <1>1, <2>2, <3>1 DEF SessionsOf, AllIssued
    <3>2. CASE req[w].kind = "refresh"
      BY <1>1, <2>1, <2>2, <3>2, NoneAssumption DEF SessionsOf, AllIssued, Kept
    <3>3. QED
      BY <2>1, <3>1, <3>2
  <2>4. \A u \in AllIssued : u \in slipped \/ tokens[u].session \notin S
                 => u \in slipped' \/ tokens'[u].session \notin S
    BY <1>1, <2>2, <2>3
  <2>5. /\ req'[w].pair = t /\ req'[w].pc \in {"rotate", "store"}
        /\ \A v \in Workers \ {w} : req'[v] = req[v]
    BY <1>0, <1>b DEF SignsFor, TInv, TypeOK, Request
  <2>6. \A u \in B : u \in slipped' \/ tokens'[u].session \notin S
    BY <1>1, <2>2, <2>4 DEF Kept
  <2>7. \A v \in Workers : req'[v].pc \in {"rotate", "store"} =>
            req'[v].pair \in slipped' \/ tokens'[req'[v].pair].session \notin S
    BY <2>3, <2>4, <2>5 DEF Kept, SessionsOf
  <2>8. \A v \in Workers : req'[v].pc \in {"version", "versionInit"} /\ req'[v].kind = "refresh"
            => req'[v].token \in slipped' \/ req'[v].session \notin R
    BY <2>2, <2>5 DEF Kept, Signers
  <2>9. QED
    BY <2>2, <2>6, <2>7, <2>8 DEF Kept, Signers
<1>c. ASSUME NEW w \in Workers, Continue(w) \/ Fault(w),
             ~VersionInit(w), ~(VersionGet(w) /\ tv # 0)
      PROVE  Kept(S, R, B)' /\ slipped \subseteq slipped'
  <2>1. UNCHANGED tokens
    BY <1>c DEF Continue, VersionGet, Rotate, Store, RevokeScan, RevokeDelete, LogoutBlacklist,
       ResetCurrent, ResetWrite, Increment, ResetConsume, ChangeWrite, ForceWrite, Fault, store
  <2>2. slipped \subseteq slipped'
    BY <1>c DEF Continue, VersionGet, Rotate, Store, RevokeScan, RevokeDelete, LogoutBlacklist,
       ResetCurrent, ResetWrite, Increment, ResetConsume, ChangeWrite, ForceWrite, Fault,
       AfterRevoke, Answer, history, sessions
  <2>3. active' \subseteq active \/ (At(w, "store") /\ active' = active \cup {req[w].pair})
    BY <1>c DEF Continue, VersionGet, Rotate, Store, RevokeScan, RevokeDelete, LogoutBlacklist,
       ResetCurrent, ResetWrite, Increment, ResetConsume, ChangeWrite, ForceWrite, Fault, store
  <2>4. \A t \in active' \ active : t \in slipped \/ tokens[t].session \notin S
    BY <2>3 DEF At, Kept
  <2>5. \A v \in Workers \ {w} : req'[v] = req[v]
    BY <1>0, <1>c, OthersStay
  <2>6. \/ /\ req'[w].pc = "versionInit" /\ req[w].pc = "version"
           /\ req'[w].kind = req[w].kind /\ req'[w].token = req[w].token
           /\ req'[w].session = req[w].session
        \/ /\ req'[w].pc = "store" /\ req[w].pc = "rotate" /\ req'[w].pair = req[w].pair
        \/ req'[w].pc \notin {"version", "versionInit", "rotate", "store"}
    <3>1. CASE Finish(w)
      BY <1>0, <3>1 DEF Finish, Idle, TInv, TypeOK
    <3>2. CASE \E p \in PC \ {"version", "versionInit", "rotate", "store"} : Goto(w, p)
      BY <1>0, <3>2 DEF Goto, TInv, TypeOK, Request
    <3>3. CASE Rotate(w)
      BY <1>0, <3>3 DEF Rotate, At, Goto, TInv, TypeOK, Request
    <3>4. CASE RevokeScan(w)
      BY <1>0, <3>4 DEF RevokeScan, TInv, TypeOK, Request
    <3>5. CASE VersionGet(w)
      BY <1>0, <1>c, <3>5 DEF VersionGet, At, Goto, TInv, TypeOK, Request
    <3>6. QED
      BY <1>c, <3>1, <3>2, <3>3, <3>4, <3>5 DEF Continue, Store, RevokeDelete,
         LogoutBlacklist, ResetCurrent, ResetWrite, Increment, ResetConsume, ChangeWrite,
         ForceWrite, Fault, AfterRevoke, Answer, PC
  <2>7. active' \subseteq AllIssued
    BY <1>1, <2>3 DEF SessionsOf, At
  <2>8. \A v \in Workers :
           \/ req'[v] = req[v]
           \/ /\ req'[v].pc = "versionInit" /\ req[v].pc = "version"
              /\ req'[v].kind = req[v].kind /\ req'[v].token = req[v].token
              /\ req'[v].session = req[v].session
           \/ /\ req'[v].pc = "store" /\ req[v].pc = "rotate" /\ req'[v].pair = req[v].pair
           \/ req'[v].pc \notin {"version", "versionInit", "rotate", "store"}
    BY <2>5, <2>6
  <2>9. QED
    BY <1>2, <2>1, <2>2, <2>4, <2>7, <2>8
<1>d. ASSUME req' = req, slipped' = slipped, active' \subseteq active,
             \A t \in AllIssued : tokens'[t].session = tokens[t].session
      PROVE  Kept(S, R, B)' /\ slipped \subseteq slipped'
  BY <1>1, <1>2, <1>d
<1>e. CASE OAuthSignIn
  <2>1. PICK t \in Tokens :
            /\ tokens' = [tokens EXCEPT ![t] = [access |-> "live", version |-> 0, session |-> t]]
            /\ Issued(t) => tokens[t].session = t
            /\ UNCHANGED <<req, active, slipped, ended>>
    BY <1>e, OAuthStep
  <2>2. \A u \in AllIssued : tokens'[u].session = tokens[u].session
    BY <1>0, <2>1 DEF AllIssued, TInv, TypeOK
  <2>3. QED
    BY <1>d, <2>1, <2>2
<1>f. CASE Second \/ UNCHANGED vars \/ (\E h \in ResetTokens : ForgotPassword(h) \/ ExpireReset(h))
           \/ \E t \in Tokens : ExpireAccess(t) \/ ExpireRefresh(t)
  <2>1. req' = req /\ slipped' = slipped /\ active' \subseteq active
    BY <1>f DEF Second, vars, ForgotPassword, ExpireReset, ExpireAccess, ExpireRefresh, store,
       history, sessions
  <2>2. \A t \in Tokens : tokens'[t].session = tokens[t].session
    BY <1>0, <1>f DEF Second, vars, ForgotPassword, ExpireReset, ExpireAccess, ExpireRefresh,
       TInv, TypeOK, Pair
  <2>3. QED
    BY <1>1, <1>d, <2>1, <2>2
<1>g. QED
  BY <1>0, <1>a, <1>b, <1>c, <1>e, <1>f, SignsStep DEF Next, Continue

(* The sessions that answered requests have ended, and those whose deletion  *)
(* is done while the answer is still to come.                              *)
Past(w) == req[w].pc \in {"blacklist", "increment", "consume"}
Gone == ended \cup UNION {req[w].before : w \in {v \in Workers : Past(v)}}

EndInv ==
    /\ SessionsOf
    /\ Kept(Gone, Gone, active)
    /\ \A w \in Workers : At(w, "revoke") => Kept(req[w].before, Tokens, active \ req[w].found)

LEMMA GoneIssued == SessionsOf => Gone \subseteq AllIssued
  BY DEF SessionsOf, Gone

(* How Gone grows: by what a request has just deleted.                     *)
LEMMA GoneStep ==
  ASSUME SessionsOf, [Next]_vars
  PROVE  \/ Gone' \subseteq Gone
         \/ \E w \in Workers :
               At(w, "revoke") /\ RevokeDelete(w) /\ Gone' \subseteq Gone \cup req[w].before
<1>0. TInv /\ TInv' /\ \A v \in Workers : req[v] \in Request /\ Assigned(req[v])
  BY NextTInv DEF SessionsOf, TInv, TypeOK
<1>1. ASSUME NEW w \in Workers, \A v \in Workers \ {w} : req'[v] = req[v],
             ended' \subseteq ended \cup req[w].before,
             Past(w)' => req'[w].before = req[w].before
      PROVE  Gone' \subseteq Gone \cup req[w].before
  BY <1>1 DEF Gone, Past
<1>2. ASSUME NEW w \in Workers, \A v \in Workers \ {w} : req'[v] = req[v],
             ended' = ended \/ (Past(w) /\ ended' \subseteq ended \cup req[w].before),
             Past(w)' => Past(w) /\ req'[w].before = req[w].before
      PROVE  Gone' \subseteq Gone
  BY <1>2 DEF Gone, Past
<1>3. ASSUME NEW w \in Workers, Arrive(w)
      PROVE  Gone' \subseteq Gone
  <2>1. PICK r : Arrived(w, r)
    BY <1>0, <1>3, ArriveStep
  <2>2. ended' = ended /\ req'[w] = r /\ r.pc \notin {"blacklist", "increment", "consume"}
    BY <1>0, <2>1 DEF Arrived, TInv, TypeOK
  <2>3. \A v \in Workers \ {w} : req'[v] = req[v]
    BY <1>0, <1>3, OthersStay
  <2>4. QED
    BY <1>2, <2>2, <2>3 DEF Past
<1>4. ASSUME NEW w \in Workers, RevokeDelete(w)
      PROVE  At(w, "revoke") /\ Gone' \subseteq Gone \cup req[w].before
  <2>1. ended' \subseteq ended \cup req[w].before
    BY <1>4 DEF RevokeDelete, AfterRevoke, Answer, Ends, history, sessions
  <2>2. Past(w)' => req'[w].before = req[w].before
    <3>1. CASE \E p \in PC : Goto(w, p)
      BY <1>0, <3>1 DEF Goto, TInv, TypeOK, Request
    <3>2. CASE Finish(w)
      BY <1>0, <3>2 DEF Finish, Idle, Past, TInv, TypeOK
    <3>3. QED
      BY <1>4, <3>1, <3>2 DEF RevokeDelete, AfterRevoke, Answer, PC
  <2>3. \A v \in Workers \ {w} : req'[v] = req[v]
    BY <1>0, <1>4, OthersStay DEF Continue
  <2>4. QED
    BY <1>1, <1>4, <2>1, <2>2, <2>3 DEF RevokeDelete
<1>5. ASSUME NEW w \in Workers, Continue(w) \/ Fault(w), ~RevokeDelete(w)
      PROVE  Gone' \subseteq Gone
  <2>1. \A v \in Workers \ {w} : req'[v] = req[v]
    BY <1>0, <1>5, OthersStay
  <2>2. CASE Answer(w) /\ Past(w)
    <3>1. ended' \subseteq ended \cup req[w].before /\ ~Past(w)'
      BY <1>0, <2>2 DEF Answer, Ends, Finish, Idle, Past, TInv, TypeOK
    <3>2. QED
      BY <1>2, <2>1, <2>2, <3>1
  <2>3. CASE Increment(w) /\ req[w].kind = "reset"
    <3>1. ended' = ended /\ Past(w) /\ req'[w].before = req[w].before
      BY <1>0, <2>3 DEF Increment, At, Goto, Past, history, sessions, TInv, TypeOK, Request
    <3>2. QED
      BY <1>2, <2>1, <3>1
  <2>4. CASE ended' = ended /\ req'[w].pc \notin {"blacklist", "increment", "consume"}
    BY <1>2, <2>1, <2>4 DEF Past
  <2>5. CASE VersionGet(w) \/ VersionInit(w) \/ Rotate(w) \/ Store(w) \/ RevokeScan(w)
    <3>1. ended' = ended
      BY <2>5 DEF VersionGet, VersionInit, Rotate, Store, RevokeScan, Signed, history, sessions
    <3>2. CASE \E p \in {"versionInit", "store"} : Goto(w, p)
      BY <1>0, <2>4, <3>1, <3>2 DEF Goto, TInv, TypeOK, Request
    <3>3. CASE \E t \in Tokens : Signed(w, t)
      BY <1>0, <2>4, <3>1, <3>3 DEF Signed, TInv, TypeOK, Request
    <3>4. CASE Finish(w)
      BY <1>0, <2>4, <3>1, <3>4 DEF Finish, Idle, TInv, TypeOK
    <3>5. CASE RevokeScan(w)
      BY <1>0, <2>4, <3>1, <3>5 DEF RevokeScan, TInv, TypeOK, Request
    <3>6. QED
      BY <2>5, <3>2, <3>3, <3>4, <3>5 DEF VersionGet, VersionInit, Rotate, Store
  <2>6. CASE ResetCurrent(w) \/ ResetWrite(w) \/ ChangeWrite(w) \/ ForceWrite(w) \/ Fault(w)
    <3>1. ended' = ended
      BY <2>6 DEF ResetCurrent, ResetWrite, ChangeWrite, ForceWrite, Fault, history, sessions
    <3>2. CASE \E p \in {"resetWrite", "scan"} : Goto(w, p)
      BY <1>0, <2>4, <3>1, <3>2 DEF Goto, TInv, TypeOK, Request
    <3>3. CASE Finish(w)
      BY <1>0, <2>4, <3>1, <3>3 DEF Finish, Idle, TInv, TypeOK
    <3>4. QED
      BY <2>6, <3>2, <3>3 DEF ResetCurrent, ResetWrite, ChangeWrite, ForceWrite, Fault
  <2>7. CASE LogoutBlacklist(w) \/ ResetConsume(w) \/ (Increment(w) /\ req[w].kind # "reset")
    BY <2>2, <2>7 DEF LogoutBlacklist, ResetConsume, Increment, At, Past
  <2>8. QED
    BY <1>5, <2>3, <2>5, <2>6, <2>7 DEF Continue
<1>6. CASE Second \/ OAuthSignIn \/ UNCHANGED vars
           \/ (\E h \in ResetTokens : ForgotPassword(h) \/ ExpireReset(h))
           \/ \E t \in Tokens : ExpireAccess(t) \/ ExpireRefresh(t)
  <2>1. req' = req /\ ended' = ended
    BY <1>6 DEF Second, OAuthSignIn, vars, ForgotPassword, ExpireReset, ExpireAccess,
       ExpireRefresh, history, sessions
  <2>2. QED
    BY <2>1 DEF Gone, Past
<1>7. QED
  BY <1>3, <1>4, <1>5, <1>6 DEF Next

LEMMA InitEnd == Init => EndInv
<1> SUFFICES ASSUME Init
             PROVE  EndInv
  OBVIOUS
<1>1. active = {} /\ ended = {} /\ \A w \in Workers : req[w].pc = "idle"
  BY DEF Init, Idle
<1>2. QED
  BY <1>1, InitSessions DEF EndInv, Kept, Signers, At

LEMMA NextEnd == EndInv /\ [Next]_vars => EndInv'
<1> SUFFICES ASSUME EndInv, [Next]_vars
             PROVE  EndInv'
  OBVIOUS
<1>0. /\ SessionsOf /\ SessionsOf' /\ TInv /\ TInv'
      /\ \A v \in Workers : req[v] \in Request /\ Assigned(req[v]) /\ req[v].before \subseteq Tokens
  BY NextSessions DEF EndInv, SessionsOf, TInv, TypeOK, AllIssued
<1>1. Gone \subseteq AllIssued /\ Kept(Gone, Gone, active)
  BY <1>0, GoneIssued DEF EndInv
<1>2. Kept(Gone, Gone, active)'
  <2>1. ASSUME Gone' \subseteq Gone
        PROVE  Kept(Gone, Gone, active)'
    <3>1. PICK S, A, B : S = Gone /\ A = active /\ B = active'
      OBVIOUS
    <3>2. Kept(S, S, A) /\ B \subseteq A \cup (active' \ active)
      BY <1>1, <3>1
    <3>3. Kept(S, S, B)'
      BY <1>0, <1>1, <3>1, <3>2, KeptStep
    <3>4. QED
      BY <2>1, <3>1, <3>3 DEF Kept
  <2>2. ASSUME NEW w \in Workers, At(w, "revoke"), RevokeDelete(w),
               Gone' \subseteq Gone \cup req[w].before
        PROVE  Kept(Gone, Gone, active)'
    <3>1. PICK S, A : S = Gone \cup req[w].before /\ A = active \ req[w].found
      OBVIOUS
    <3>2. Kept(req[w].before, Tokens, active \ req[w].found)
      BY <2>2 DEF EndInv
    <3>3. \A v \in Signers : req[v].kind = "refresh" => req[v].token \in slipped
      BY <1>0, <3>2 DEF Kept, SessionsOf, AllIssued, Signers
    <3>4. Kept(S, S, A)
      BY <1>1, <3>1, <3>2, <3>3 DEF Kept
    <3>5. active' = A /\ Revoking /\ S \subseteq AllIssued
      BY <1>0, <1>1, <2>2, <3>1 DEF RevokeDelete, Revoking, SessionsOf
    <3>6. Kept(S, S, A)'
      BY <1>0, <3>1, <3>4, <3>5, KeptStep
    <3>7. QED
      BY <2>2, <3>1, <3>5, <3>6 DEF Kept
  <2>3. QED
    BY <1>0, <2>1, <2>2, GoneStep
<1>3. ASSUME NEW w \in Workers, At(w, "revoke")'
      PROVE  Kept(req[w].before, Tokens, active \ req[w].found)'
  <2>1. CASE At(w, "revoke") /\ req'[w] = req[w]
    <3>1. PICK S, A, B : /\ S = req[w].before /\ A = active \ req[w].found
                         /\ B = active' \ req[w].found
      OBVIOUS
    <3>2. Kept(S, Tokens, A) /\ B \subseteq A \cup (active' \ active)
      BY <2>1, <3>1 DEF EndInv
    <3>3. S \subseteq AllIssued /\ S \subseteq Tokens /\ A \subseteq active /\ Revoking
      BY <1>0, <2>1, <3>1 DEF SessionsOf, Revoking
    <3>4. Kept(S, Tokens, B)'
      BY <1>0, <3>2, <3>3, KeptStep
    <3>5. QED
      BY <2>1, <3>1, <3>4
  <2>2. CASE RevokeScan(w)
    <3>1. /\ req' = [req EXCEPT ![w].pc = "revoke", ![w].found = active]
          /\ slipped' = slipped \cup UnderWay /\ tokens' = tokens /\ active' = active
      BY <2>2 DEF RevokeScan, store
    <3>2. /\ req'[w].pc = "revoke" /\ req'[w].found = active
          /\ \A v \in Workers \ {w} : req'[v] = req[v]
      BY <1>0, <3>1 DEF TInv, TypeOK
    <3>3. \A v \in Workers : req[v].kind = "refresh" => req[v].token \in slipped'
      BY <3>1 DEF UnderWay
    <3>4. \A v \in Workers : req[v].pc \in {"rotate", "store"} => req[v].pair \in slipped'
      BY <3>1 DEF UnderWay
    <3>5. QED
      BY <3>1, <3>2, <3>3, <3>4 DEF Kept, Signers
  <2>3. (At(w, "revoke") /\ req'[w] = req[w]) \/ RevokeScan(w)
    <3>1. ASSUME NEW v \in Workers, Arrive(v)
          PROVE  v # w
      <4>1. PICK r : Arrived(v, r)
        BY <1>0, <3>1, ArriveStep
      <4>2. QED
        BY <1>0, <1>3, <4>1 DEF Arrived, At, TInv, TypeOK
    <3>2. ASSUME Continue(w) \/ Fault(w), ~RevokeScan(w)
          PROVE  FALSE
      <4>1. CASE \E p \in PC \ {"revoke"} : Goto(w, p)
        BY <1>0, <1>3, <4>1 DEF Goto, At, TInv, TypeOK, Request
      <4>2. CASE Finish(w)
        BY <1>0, <1>3, <4>2 DEF Finish, Idle, At, TInv, TypeOK
      <4>3. CASE \E t \in Tokens : Signed(w, t)
        BY <1>0, <1>3, <4>3 DEF Signed, At, TInv, TypeOK, Request
      <4>4. QED
        BY <3>2, <4>1, <4>2, <4>3 DEF Continue, VersionGet, VersionInit, Rotate, Store,
           RevokeDelete, LogoutBlacklist, ResetCurrent, ResetWrite, Increment, ResetConsume,
           ChangeWrite, ForceWrite, Fault, AfterRevoke, Answer, PC
    <3>3. ASSUME NEW v \in Workers, Arrive(v) \/ Continue(v) \/ Fault(v), v # w
          PROVE  At(w, "revoke") /\ req'[w] = req[w]
      BY <1>0, <1>3, <3>3, OthersStay DEF At
    <3>4. CASE req' = req
      BY <1>3, <3>4 DEF At
    <3>5. QED
      BY <3>1, <3>2, <3>3, <3>4 DEF Next, OAuthSignIn, Second, vars, ForgotPassword, ExpireReset,
         ExpireAccess, ExpireRefresh
  <2>4. QED
    BY <2>1, <2>2, <2>3
<1>4. QED
  BY <1>0, <1>2, <1>3 DEF EndInv

(* When a logout, a reset, a change or a forced reset has been answered, the  *)
(* sessions it revokes have no refresh token left, whatever refreshes and   *)
(* logins overlapped the deletion, except the tokens the overlap itself or  *)
(* a second signature within a second accounts for.                        *)
THEOREM RevokedEnd == Spec => []RevokedSessionsEnd
<1>1. Spec => []EndInv
  BY InitEnd, NextEnd, PTL DEF Spec
<1>2. EndInv => RevokedSessionsEnd
  BY DEF EndInv, Kept, Gone, RevokedSessionsEnd
<1>3. QED
  BY <1>1, <1>2, PTL
=============================================================================
