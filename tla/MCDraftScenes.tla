---------------------------- MODULE MCDraftScenes ----------------------------
(* DraftLifecycle for TLC, a behaviour being of one scene: the history of a  *)
(* page (no proposals), the review of a proposal (one document; no revert,  *)
(* unlock or upload), or every endpoint with one request at a time.        *)
EXTENDS MCDraftLifecycle

VARIABLE scene

InHistory ==
    /\ \A q \in Proposals : proposals'[q].status = "unborn"
    /\ \A w \in Workers : req'[w].status = NONE
                          /\ req'[w].pc \notin {"deleteWrite", "proposeInsert"}
InReview ==
    /\ Cardinality({d \in Documents : docs'[d].row # "unborn"}) <= 1
    /\ \A w \in Workers : req'[w].status = NONE
                          /\ req'[w].pc \notin {"revertPick", "unlockWrite", "uploadInsert"}
Alone ==
    /\ Cardinality({d \in Documents : docs'[d].row # "unborn"}) <= 2
    /\ Cardinality({w \in Workers : req'[w] # Idle}) <= 1

SceneInit == Init /\ scene \in {"history", "review", "alone"}
SceneNext ==
    /\ Next
    /\ CASE scene = "history" -> InHistory
         [] scene = "review" -> InReview
         [] scene = "alone" -> Alone
    /\ UNCHANGED scene
SceneSpec == SceneInit /\ [][SceneNext]_<<vars, scene>>
=============================================================================
