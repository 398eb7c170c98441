---------------------------- MODULE MCRequestGate ----------------------------
(* Instances of RequestGate for TLC. *)
EXTENDS RequestGate, TLC

CONSTANTS w1, w2, p1, p2, k1, d1, d2

TwoWorkers == {w1, w2}
TwoProcesses == {p1, p2}
OneKey == {k1}
TwoPayloads == {d1, d2}

Symmetry ==
    Permutations(Workers) \cup Permutations(Processes) \cup Permutations(Payloads)
=============================================================================
