--------------------------- MODULE MCRegistration ---------------------------
(* Instances of Registration for TLC.  A behaviour is of one scene: links   *)
(* (three of them, no invitations, no accounts of an administrator) or      *)
(* accounts (every way to make one, with one link that does not expire).    *)
EXTENDS Registration, TLC

CONSTANTS w1, w2, e1, e2, a1, a2, l1, l2, l3, i1, i2, r1, user, o1

VARIABLE scene

TwoWorkers == {w1, w2}
TwoEmails == {e1, e2}
TwoAccounts == {a1, a2}
ThreeLinks == {l1, l2, l3}
TwoInvites == {i1, i2}
OneRole == {r1}
OneIdentity == {o1}

LinkScene ==
    /\ \A i \in Invites : invite'[i].state = "unborn"
    /\ \A a \in Accounts : /\ account'[a].from # "admin"
                           /\ Kept(a) => account'[a].profile = account[a].profile

AccountScene ==
    /\ alive \subseteq alive'
    /\ Cardinality({l \in Links : owner'[l] # NONE}) + Cardinality(Senders') <= 1
    /\ \A w \in Workers : req'[w].pc \notin {"resendCurrent", "verifyCurrent"}

(* Links are interchangeable: they are issued in one order. *)
InOrder ==
    /\ owner'[l2] # NONE => owner'[l1] # NONE
    /\ owner'[l3] # NONE => owner'[l2] # NONE

SceneInit == Init /\ scene \in {"links", "accounts"}
SceneNext ==
    /\ Next
    /\ InOrder
    /\ IF scene = "links" THEN LinkScene ELSE AccountScene
    /\ UNCHANGED scene
SceneSpec == SceneInit /\ [][SceneNext]_<<vars, scene>>

Symmetry ==
    Permutations(Workers) \cup Permutations(Accounts) \cup Permutations(Emails)
        \cup Permutations(Invites)
=============================================================================
