--------------------------- MODULE MCAuthSessions ---------------------------
(* Instances of AuthSessions for TLC. *)
EXTENDS AuthSessions, TLC

CONSTANTS w1, w2, t1, t2, h1, x

OneWorker == {w1}
TwoWorkers == {w1, w2}
TwoPairs == {t1, t2}
OneReset == {h1}
OnePassword == {x}

EveryCall == AllCalls
ChangeCalls == {"login", "change"}

(* A behaviour is about the requests of a signed-in client beside an          *)
(* administrator, or about sign-in and renewal beside resets.  An account  *)
(* without tv has its first requests one at a time, and no OAuth.          *)
VARIABLES scene, fresh

Scenes ==
    [signedIn |-> {"login", "oauth", "refresh", "logout", "change", "force"},
     resets |-> {"login", "oauth", "refresh", "reset", "force"}]

AuthMCInit ==
    /\ Init /\ fresh = (tv = 0)
    /\ scene \in DOMAIN Scenes
AuthMCNext ==
    /\ Next /\ UNCHANGED <<scene, fresh>>
    /\ \A w \in Workers : req'[w].kind \in Scenes[scene] \cup {NONE}
    /\ scene = "signedIn" => resets' = resets
    /\ fresh => /\ \A t \in Tokens : Issued(t)' => tokens'[t].version # 0
                /\ Cardinality({w \in Workers : req'[w].pc # "idle"}) < 2
AuthMCSpec == AuthMCInit /\ [][AuthMCNext]_<<vars, scene, fresh>>

Symmetry ==
    Permutations(Workers) \cup Permutations(Tokens) \cup Permutations(ResetTokens)
        \cup Permutations(Passwords)
=============================================================================
