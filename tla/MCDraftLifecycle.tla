-------------------------- MODULE MCDraftLifecycle --------------------------
(* Instances of DraftLifecycle for TLC. *)
EXTENDS DraftLifecycle, TLC

CONSTANTS w1, w2, p1, q1, d1, d2, d3, a

OneWorker == {w1}
TwoWorkers == {w1, w2}
OnePage == {p1}
OneProposal == {q1}
OneDocument == {d1}
ThreeDocuments == {d1, d2, d3}
OnePhrase == {a}

EveryCall == AllCalls

Symmetry ==
    Permutations(Workers) \cup Permutations(Pages) \cup Permutations(Proposals)
        \cup Permutations(Documents) \cup Permutations(Phrases)
=============================================================================
