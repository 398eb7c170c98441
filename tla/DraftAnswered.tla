---------------------------- MODULE DraftAnswered ----------------------------
(***************************************************************************)
(* DraftLifecycle where requests are answered: every statement is, and a   *)
(* behaviour is one with faults or one without.                            *)
(***************************************************************************)
EXTENDS DraftLifecycle

VARIABLE faulty

AnsweredInit == Init /\ faulty \in BOOLEAN
AnsweredNext ==
    /\ \/ \E w \in Workers : Arrive(w) \/ Continue(w) \/ (faulty /\ Fault(w))
       \/ DeleteSpace
    /\ UNCHANGED faulty
AnsweredSpec ==
    AnsweredInit /\ [][AnsweredNext]_<<vars, faulty>> /\ Fairness

(* FinalizedIsRecorded, where no process dies and no statement fails: a     *)
(* fault between the link and the snapshot leaves the page unrecorded.     *)
CalmFinalizedIsRecorded == faulty \/ FinalizedIsRecorded
=============================================================================
