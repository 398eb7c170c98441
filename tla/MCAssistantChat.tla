--------------------------- MODULE MCAssistantChat ---------------------------
(* Instances of AssistantChat for TLC: at most ChatBudget turns, or one     *)
(* more in the behaviours in which nothing goes wrong within a turn, the     *)
(* model calls no tool and all messages are of one moment (so that the      *)
(* queries may return them in any order).                                  *)
EXTENDS AssistantChat, TLC

CONSTANTS w1, w2, u1, u2, v1, v2, ChatBudget

VARIABLES
    turnsLeft,   \* turns that may still begin
    quiet        \* whether nothing goes wrong within a turn

OneTalker == {w1}
TwoTalkers == {w1, w2}
OneCandidate == {u1}
TwoCandidates == {u1, u2}
OneConversation == {v1}
TwoConversations == {v1, v2}

ChatMCInit ==
    /\ ChatInit
    /\ quiet \in BOOLEAN /\ turnsLeft = IF quiet THEN ChatBudget + 1 ELSE ChatBudget
ChatMCNext ==
    /\ \/ turnsLeft > 0 /\ ChatArrive /\ turnsLeft' = turnsLeft - 1
       \/ ChatStep /\ UNCHANGED turnsLeft
    /\ quiet => /\ cutOff' = {} /\ unsure' = {} /\ now' = 0
                /\ \A w \in Talkers : talk'[w].calls = 0
    /\ UNCHANGED quiet
ChatMCSpec == ChatMCInit /\ [][ChatMCNext]_<<chatVars, turnsLeft, quiet>>

ChatSymmetry == Permutations(Talkers) \cup Permutations(Candidates)
                    \cup Permutations(Conversations)
=============================================================================
