----------------------------- MODULE DraftLedger -----------------------------
(***************************************************************************)
(* What the drafts subsystem promises about its records, with every        *)
(* operation atomic: an official document keeps the text it was published  *)
(* with, the history attests a document at most once and with that text,   *)
(* and a proposal is decided once, an acceptance leaving a milestone on its *)
(* page.  DraftLifecycle implements it whatever the requests in flight and *)
(* whichever of them fail half way.                                        *)
(***************************************************************************)
CONSTANTS Pages, Proposals, Documents, Texts, NONE

VARIABLES
    published,   \* document -> whether it exists, and the text it shows
    attested,    \* the finalized snapshots of the history
    milestones,  \* the pages with an ordinary snapshot in their history
    decision     \* proposal -> its page, and where the review stands

ledger == <<published, attested, milestones, decision>>

Init ==
    /\ published = [d \in Documents |-> [row |-> "unborn", content |-> NONE]]
    /\ attested = {}
    /\ milestones = {}
    /\ decision = [q \in Proposals |-> [status |-> "unborn", page |-> NONE]]

Publish(d, c) ==
    /\ published[d].row = "unborn"
    /\ published' = [published EXCEPT ![d] = [row |-> "live", content |-> c]]
    /\ UNCHANGED <<attested, milestones, decision>>

Withdraw(d) ==
    /\ published[d].row = "live"
    /\ published' = [published EXCEPT ![d].row = "gone"]
    /\ UNCHANGED <<attested, milestones, decision>>

Attest(p, d) ==
    /\ published[d].row # "unborn"
    /\ \A s \in attested : s.doc # d
    /\ attested' = attested \cup {[page |-> p, doc |-> d, content |-> published[d].content]}
    /\ UNCHANGED <<published, milestones, decision>>

Milestone(p) ==
    /\ milestones' = milestones \cup {p}
    /\ UNCHANGED <<published, attested, decision>>

Propose(q, p) ==
    /\ decision[q].status = "unborn"
    /\ decision' = [decision EXCEPT ![q] = [status |-> "PENDING", page |-> p]]
    /\ UNCHANGED <<published, attested, milestones>>

Accept(q) ==
    /\ decision[q].status = "PENDING"
    /\ decision' = [decision EXCEPT ![q].status = "ACCEPTED"]
    /\ milestones' = milestones \cup {decision[q].page}
    /\ UNCHANGED <<published, attested>>

Reject(q) ==
    /\ decision[q].status = "PENDING"
    /\ decision' = [decision EXCEPT ![q].status = "REJECTED"]
    /\ UNCHANGED <<published, attested, milestones>>

Clear ==
    /\ attested' = {} /\ milestones' = {}
    /\ decision' = [q \in Proposals |->
                       IF decision[q].status = "unborn" THEN decision[q]
                       ELSE [decision[q] EXCEPT !.status = "gone"]]
    /\ UNCHANGED published

Next ==
    \/ \E d \in Documents : (\E c \in {NONE} \cup Texts : Publish(d, c)) \/ Withdraw(d)
    \/ \E p \in Pages : \/ \E d \in Documents : Attest(p, d)
                        \/ \E q \in Proposals : Propose(q, p)
                        \/ Milestone(p)
    \/ \E q \in Proposals : Accept(q) \/ Reject(q)
    \/ Clear

Spec == Init /\ [][Next]_ledger
=============================================================================
