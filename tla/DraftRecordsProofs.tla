------------------------- MODULE DraftRecordsProofs -------------------------
(***************************************************************************)
(* What the records of the drafts services keep true, for every number of  *)
(* requests, pages, proposals and documents: the lineage of the finalized  *)
(* snapshots, the review of a proposal, the document limit, and the         *)
(* refinement of DraftLedger.                                              *)
(***************************************************************************)
EXTENDS DraftLifecycleProofs, DraftAnswered, FiniteSetTheorems

-----------------------------------------------------------------------------
(* Lineage.                                                                *)

LineageInv == TInv /\ PublisherInv /\ SnapshotMatchesDocument /\ DocumentRecordedOnce

(* What all steps but the insert and the snapshot of finalize have in       *)
(* common: no finalized snapshot is added, a document that exists keeps its *)
(* content, no request becomes a publisher.                                *)
LineageFrame ==
    /\ \A v \in versions' : v \in versions \/ ~v.final
    /\ \A d \in Documents : docs[d].row # "unborn" =>
           docs'[d].row # "unborn" /\ docs'[d].content = docs[d].content
    /\ \A u \in Workers : req'[u].pc \in PublisherPCs =>
           /\ req[u].pc \in PublisherPCs
           /\ req'[u].doc = req[u].doc /\ req'[u].content = req[u].content

LEMMA PublisherTypes ==
  ASSUME TInv
  PROVE  /\ \A u \in Workers : req[u].pc \in PublisherPCs =>
                req[u].doc \in Documents /\ req[u].page \in Pages /\ req[u].content \in Content
         /\ \A v \in versions : v.doc # NONE => v.doc \in Documents
<1>1. ASSUME NEW u \in Workers, req[u].pc \in PublisherPCs
      PROVE  req[u].doc \in Documents /\ req[u].page \in Pages /\ req[u].content \in Content
  BY <1>1 DEF TInv, LocalsOK, Assigned, PublisherPCs, PagePCs, ContentPCs
<1>2. \A v \in versions : v.doc # NONE => v.doc \in Documents
  BY DEF TInv, TypeOK, Version
<1>3. QED
  BY <1>1, <1>2

LEMMA FrameLineage == LineageInv /\ TInv' /\ LineageFrame => LineageInv'
<1> SUFFICES ASSUME LineageInv, TInv', LineageFrame
             PROVE  LineageInv'
  OBVIOUS
<1>1. PublisherInv'
  BY PublisherTypes DEF LineageInv, PublisherInv, LineageFrame
<1>2. SnapshotMatchesDocument'
  BY PublisherTypes DEF LineageInv, SnapshotMatchesDocument, LineageFrame
<1>3. DocumentRecordedOnce'
  BY DEF LineageInv, DocumentRecordedOnce, LineageFrame
<1>4. QED
  BY <1>1, <1>2, <1>3 DEF LineageInv

(* A request of which one pc is set keeps the rest of its locals.          *)
LEMMA PublisherFrame ==
  ASSUME TInv, NEW w \in Workers,
         \/ req' = req
         \/ Finish(w)
         \/ \E r : r.pc \notin PublisherPCs /\ req' = [req EXCEPT ![w] = r]
  PROVE  \A u \in Workers : req'[u].pc \in PublisherPCs =>
             /\ req[u].pc \in PublisherPCs
             /\ req'[u].doc = req[u].doc /\ req'[u].content = req[u].content
  BY DEF TInv, TypeOK, Finish, Idle, PublisherPCs

(* A request that arrives is idle before, and waits for its first write     *)
(* after; only a reject writes at once.                                    *)
ArrivalPCs == {"createSnapshot", "updateWrite", "revertPick", "finalizeQuota", "unlockWrite",
               "deleteWrite", "proposeInsert", "acceptClaim", "uploadInsert", "deleteDocument"}

LEMMA ArriveStep ==
  ASSUME NEW w \in Workers, Arrive(w)
  PROVE  /\ \/ req' = req
            \/ \E r : r.pc \in ArrivalPCs /\ req' = [req EXCEPT ![w] = r]
         /\ At(w, "idle")
         /\ versions' = versions /\ docs' = docs
         /\ proposals' = proposals \/ \E q \in Proposals : RejectProposal(w, q)
<1>1. \/ req' = req
      \/ \E r : r.pc \in ArrivalPCs /\ req' = [req EXCEPT ![w] = r]
  <2> DEFINE To(r) == r.pc \in ArrivalPCs /\ req' = [req EXCEPT ![w] = r]
  <2>1. ASSUME NEW p \in Pages, NEW c \in {NONE} \cup Content, NEW d \in {NONE} \cup Documents,
               CreateInsert(w, p, c, d)
        PROVE  req' = req \/ \E r : To(r)
    <3>1. [Idle EXCEPT !.pc = "createSnapshot", !.page = p, !.content = c].pc \in ArrivalPCs
      BY DEF Idle, ArrivalPCs
    <3>2. QED
      BY <2>1, <3>1 DEF CreateInsert
  <2>2. ASSUME NEW p \in Pages, NEW c \in {NONE} \cup Content, NEW s \in {NONE} \cup Status,
               UpdateRead(w, p, c, s)
        PROVE  \E r : To(r)
    <3> DEFINE r == [Idle EXCEPT !.pc = "updateWrite", !.page = p, !.seen = pages[p].status,
                                 !.content = c, !.status = s]
    <3>1. r.pc \in ArrivalPCs
      BY DEF Idle, ArrivalPCs
    <3>2. QED
      BY <2>2, <3>1 DEF UpdateRead
  <2>3. ASSUME NEW pc \in {"revertPick", "unlockWrite", "deleteWrite", "proposeInsert"},
               NEW p \in Pages, req' = [req EXCEPT ![w] = [Idle EXCEPT !.pc = pc, !.page = p]]
        PROVE  \E r : To(r)
    <3>1. [Idle EXCEPT !.pc = pc, !.page = p].pc \in ArrivalPCs
      BY DEF Idle, ArrivalPCs
    <3>2. QED
      BY <2>3, <3>1
  <2>4. ASSUME NEW p \in Pages, FinalizeRead(w, p)
        PROVE  \E r : To(r)
    <3>1. [Idle EXCEPT !.pc = "finalizeQuota", !.page = p,
                       !.content = pages[p].content].pc \in ArrivalPCs
      BY DEF Idle, ArrivalPCs
    <3>2. QED
      BY <2>4, <3>1 DEF FinalizeRead
  <2>5. ASSUME NEW q \in Proposals, AcceptBegin(w, q)
        PROVE  \E r : To(r)
    <3>1. [Idle EXCEPT !.pc = "acceptClaim", !.prop = q].pc \in ArrivalPCs
      BY DEF Idle, ArrivalPCs
    <3>2. QED
      BY <2>5, <3>1 DEF AcceptBegin
  <2>6. ASSUME UploadQuota(w)
        PROVE  \E r : To(r)
    <3>1. [Idle EXCEPT !.pc = "uploadInsert"].pc \in ArrivalPCs
      BY DEF Idle, ArrivalPCs
    <3>2. QED
      BY <2>6, <3>1 DEF UploadQuota
  <2>7. ASSUME NEW d \in Documents, DeleteDocumentRead(w, d)
        PROVE  \E r : To(r)
    <3>1. [Idle EXCEPT !.pc = "deleteDocument", !.doc = d].pc \in ArrivalPCs
      BY DEF Idle, ArrivalPCs
    <3>2. QED
      BY <2>7, <3>1 DEF DeleteDocumentRead
  <2>8. QED
    BY <2>1, <2>2, <2>3, <2>4, <2>5, <2>6, <2>7
    DEF Arrive, SoftDeleteRead, RevertRead, UnlockRead, ProposeRead, RejectProposal
<1>2. /\ At(w, "idle") /\ versions' = versions /\ docs' = docs
      /\ proposals' = proposals \/ \E q \in Proposals : RejectProposal(w, q)
  BY DEF Arrive, Accepts, CreateInsert, UpdateRead, SoftDeleteRead, RevertRead, FinalizeRead,
     UnlockRead, ProposeRead, AcceptBegin, RejectProposal, UploadQuota, DeleteDocumentRead
<1>3. QED
  BY <1>1, <1>2

LEMMA ArriveFrame ==
  ASSUME TInv, NEW w \in Workers, Arrive(w)
  PROVE  LineageFrame
<1>1. \A pc \in ArrivalPCs : pc \notin PublisherPCs
  BY DEF ArrivalPCs, PublisherPCs
<1>2. QED
  BY <1>1, ArriveStep, PublisherFrame DEF LineageFrame

(* The steps that go on, but the insert and the snapshot of finalize.      *)
LEMMA ContinueFrame ==
  ASSUME TInv, NEW w \in Workers, Continue(w), ~FinalizeDocument(w), ~FinalizeSnapshot(w)
  PROVE  LineageFrame
<1>1. ASSUME NEW pc, pc \notin PublisherPCs, Goto(w, pc)
      PROVE  \A u \in Workers : req'[u].pc \in PublisherPCs => req'[u] = req[u]
  BY <1>1 DEF Goto, TInv, TypeOK, Request
<1>2. CASE CreateSnapshot(w) \/ UpdateSnapshot(w) \/ RevertSnapshot(w)
  BY <1>2, PublisherFrame
  DEF CreateSnapshot, UpdateSnapshot, RevertSnapshot, MilestoneOf, LineageFrame
<1>3. CASE UpdateWrite(w) \/ RevertWrite(w) \/ UnlockWrite(w) \/ SoftDeleteWrite(w)
  BY <1>1, <1>3, PublisherFrame
  DEF UpdateWrite, RevertWrite, UnlockWrite, SoftDeleteWrite, LineageFrame, PublisherPCs
<1>4. CASE RevertPick(w) \/ AcceptClaim(w) \/ AcceptSnapshot(w) \/ AcceptRead(w)
  <2>1. \A u \in Workers : req'[u].pc \in PublisherPCs => req'[u] = req[u]
    BY <1>4 DEF RevertPick, AcceptClaim, AcceptSnapshot, AcceptRead, Finish, Idle, TInv, TypeOK,
       Request, PublisherPCs
  <2>2. QED
    BY <1>4, <2>1 DEF RevertPick, AcceptClaim, AcceptSnapshot, AcceptRead, LineageFrame
<1>5. CASE FinalizeQuota(w) \/ ProposeInsert(w) \/ WriteRejected(w)
  BY <1>1, <1>5, PublisherFrame
  DEF FinalizeQuota, ProposeInsert, WriteRejected, LineageFrame, PublisherPCs
<1>6. CASE FinalizeLink(w)
  BY <1>6 DEF FinalizeLink, At, Goto, TInv, TypeOK, Request, LineageFrame, PublisherPCs
<1>7. CASE AcceptCommit(w)
  BY <1>7, PublisherFrame DEF AcceptCommit, MilestoneOf, LineageFrame
<1>8. CASE UploadInsert(w) \/ DeleteDocument(w)
  BY <1>8, PublisherFrame DEF UploadInsert, DeleteDocument, TInv, TypeOK, DocRow, LineageFrame
<1>9. QED
  BY <1>2, <1>3, <1>4, <1>5, <1>6, <1>7, <1>8 DEF Continue

(* finalize inserts a document that no snapshot and no handler names.      *)
LEMMA FinalizeDocumentLineage ==
  ASSUME LineageInv, TInv', NEW w \in Workers, FinalizeDocument(w)
  PROVE  LineageInv'
<1>1. PICK d \in Documents :
         /\ docs[d].row = "unborn"
         /\ docs' = [docs EXCEPT ![d] = [row |-> "live", content |-> req[w].content]]
         /\ req' = [req EXCEPT ![w].pc = "finalizeLink", ![w].doc = d]
  BY DEF FinalizeDocument
<1>2. /\ docs'[d].row = "live" /\ docs'[d].content = req[w].content
      /\ \A x \in Documents : x # d => docs'[x] = docs[x]
  BY <1>1 DEF LineageInv, TInv, TypeOK
<1>3. /\ req'[w].doc = d /\ req'[w].content = req[w].content
      /\ \A u \in Workers : u # w => req'[u] = req[u]
  BY <1>1 DEF LineageInv, TInv, TypeOK, Request
<1>4. \A u \in Workers : req[u].pc \in PublisherPCs => req[u].doc # d
  BY <1>1 DEF LineageInv, PublisherInv
<1>5. \A v \in versions : v.final => v.doc # d
  BY <1>1 DEF LineageInv, SnapshotMatchesDocument
<1>6. PublisherInv'
  <2>1. ASSUME NEW u \in Workers, req'[u].pc \in PublisherPCs, u # w
        PROVE  /\ req[u].pc \in PublisherPCs /\ req'[u].doc = req[u].doc
               /\ req[u].doc \in Documents /\ req[u].doc # d
    BY <1>3, <1>4, <2>1, PublisherTypes DEF LineageInv
  <2>2. \A u \in Workers : req'[u].pc \in PublisherPCs =>
           docs'[req'[u].doc].row # "unborn" /\ docs'[req'[u].doc].content = req'[u].content
    BY <1>2, <1>3, <2>1 DEF LineageInv, PublisherInv
  <2>3. \A u \in Workers : req'[u].pc \in PublisherPCs =>
           \A v \in versions' : v.final => v.doc # req'[u].doc
    <3>1. versions' = versions
      BY DEF FinalizeDocument
    <3>2. QED
      BY <1>3, <1>5, <2>1, <3>1 DEF LineageInv, PublisherInv
  <2>4. \A u, x \in Workers :
           req'[u].pc \in PublisherPCs /\ req'[x].pc \in PublisherPCs /\ x # u =>
               req'[x].doc # req'[u].doc
    BY <1>3, <2>1 DEF LineageInv, PublisherInv
  <2>5. QED
    BY <2>2, <2>3, <2>4 DEF PublisherInv
<1>7. SnapshotMatchesDocument' /\ DocumentRecordedOnce'
  BY <1>2, <1>5, PublisherTypes
  DEF LineageInv, SnapshotMatchesDocument, DocumentRecordedOnce, FinalizeDocument
<1>8. QED
  BY <1>6, <1>7 DEF LineageInv

(* The snapshot records that document, and the handler gives it up.        *)
LEMMA FinalizeSnapshotLineage ==
  ASSUME LineageInv, TInv', NEW w \in Workers, FinalizeSnapshot(w)
  PROVE  LineageInv'
<1> DEFINE d == req[w].doc
           s == FinalizedOf(req[w].page, req[w].content, d)
<1>1. /\ req[w].pc \in PublisherPCs /\ versions' = versions \cup {s} /\ docs' = docs
      /\ d \in Documents
  BY PublisherTypes DEF FinalizeSnapshot, At, PublisherPCs, LineageInv
<1>2. s.doc = d /\ s.final /\ s.content = req[w].content
  BY DEF FinalizedOf
<1>3. docs[d].row # "unborn" /\ docs[d].content = s.content
  BY <1>1, <1>2 DEF LineageInv, PublisherInv
<1>4. \A v \in versions : v.final => v.doc # d
  BY <1>1 DEF LineageInv, PublisherInv
<1>5. \A u \in Workers : req'[u].pc \in PublisherPCs => u # w /\ req'[u] = req[u]
  BY DEF FinalizeSnapshot, Finish, Idle, PublisherPCs, LineageInv, TInv, TypeOK
<1>6. \A u \in Workers : u # w /\ req[u].pc \in PublisherPCs => req[u].doc # d
  BY <1>1 DEF LineageInv, PublisherInv
<1> HIDE DEF s, d
<1>7. d # NONE
  BY <1>1, NoneAssumption
<1>8. PublisherInv'
  BY <1>1, <1>2, <1>5, <1>6 DEF LineageInv, PublisherInv
<1>9. SnapshotMatchesDocument' /\ DocumentRecordedOnce'
  BY <1>1, <1>2, <1>3, <1>4, <1>7 DEF LineageInv, SnapshotMatchesDocument, DocumentRecordedOnce
<1>10. QED
  BY <1>8, <1>9 DEF LineageInv

LEMMA NextLineage == LineageInv /\ [Next]_vars => LineageInv'
<1> SUFFICES ASSUME LineageInv, [Next]_vars
             PROVE  LineageInv'
  OBVIOUS
<1>1. TInv /\ TInv'
  BY NextTInv DEF LineageInv
<1>2. ASSUME NEW w \in Workers, Arrive(w)
      PROVE  LineageInv'
  BY <1>1, <1>2, ArriveFrame, FrameLineage
<1>3. ASSUME NEW w \in Workers, Continue(w)
      PROVE  LineageInv'
  BY <1>1, <1>3, ContinueFrame, FrameLineage, FinalizeDocumentLineage, FinalizeSnapshotLineage
<1>4. ASSUME NEW w \in Workers, Fault(w)
      PROVE  LineageInv'
  <2>1. LineageFrame
    BY <1>1, <1>4, PublisherFrame DEF Fault, LineageFrame
  <2>2. QED
    BY <1>1, <2>1, FrameLineage
<1>5. CASE DeleteSpace
  <2>1. LineageFrame
    BY <1>1, <1>5, PublisherFrame DEF DeleteSpace, LineageFrame
  <2>2. QED
    BY <1>1, <2>1, FrameLineage
<1>6. CASE UNCHANGED vars
  <2>1. LineageFrame
    BY <1>1, <1>6, PublisherFrame DEF vars, LineageFrame
  <2>2. QED
    BY <1>1, <2>1, FrameLineage
<1>7. QED
  BY <1>2, <1>3, <1>4, <1>5, <1>6 DEF Next

LEMMA InitLineage == Init => LineageInv
<1> SUFFICES ASSUME Init
             PROVE  LineageInv
  OBVIOUS
<1>1. PublisherInv
  BY DEF Init, PublisherInv, PublisherPCs, Idle
<1>2. SnapshotMatchesDocument /\ DocumentRecordedOnce
  BY DEF Init, SnapshotMatchesDocument, DocumentRecordedOnce
<1>3. QED
  BY <1>1, <1>2, InitTInv DEF LineageInv

LEMMA LineageInvariant == Spec => []LineageInv
  BY InitLineage, NextLineage, PTL DEF Spec

(* A finalized snapshot of the history shows the text of the PDF it names,  *)
(* however many saves, reverts, unlocks, finalizes and failures run between *)
(* the awaits of finalize.                                                 *)
THEOREM SnapshotsMatchDocuments == Spec => []SnapshotMatchesDocument
<1>1. LineageInv => SnapshotMatchesDocument
  BY DEF LineageInv
<1>2. QED
  BY <1>1, LineageInvariant, PTL

(* No two finalizations record the same document.                          *)
THEOREM DocumentsRecordedOnce == Spec => []DocumentRecordedOnce
<1>1. LineageInv => DocumentRecordedOnce
  BY DEF LineageInv
<1>2. QED
  BY <1>1, LineageInvariant, PTL

-----------------------------------------------------------------------------
(* Review.                                                                 *)

ReviewInv == TInv /\ HolderInv /\ AcceptedHasMilestone

(* What all steps but those of a proposal's review have in common.         *)
ReviewFrame ==
    /\ versions \subseteq versions'
    /\ proposals' = proposals
    /\ \A u \in Workers : req'[u].pc \in HolderPCs =>
           /\ req[u].pc \in HolderPCs
           /\ req'[u].prop = req[u].prop /\ req'[u].page = req[u].page

LEMMA HolderTypes ==
  ASSUME TInv
  PROVE  /\ \A u \in Workers : req[u].pc \in HolderPCs => req[u].prop \in Proposals
         /\ \A q \in Proposals : Holders(q) = {} =>
               \A u \in Workers : req[u].pc \in HolderPCs => req[u].prop # q
  BY DEF TInv, LocalsOK, Assigned, ReviewPCs, HolderPCs, Holders

LEMMA FrameReview == ReviewInv /\ TInv' /\ ReviewFrame => ReviewInv'
<1> SUFFICES ASSUME ReviewInv, TInv', ReviewFrame
             PROVE  ReviewInv'
  OBVIOUS
<1>1. HolderInv'
  BY HolderTypes DEF ReviewInv, HolderInv, ReviewFrame
<1>2. AcceptedHasMilestone'
  BY DEF ReviewInv, AcceptedHasMilestone, ReviewFrame
<1>3. QED
  BY <1>1, <1>2 DEF ReviewInv

LEMMA HolderFrame ==
  ASSUME TInv, NEW w \in Workers,
         \/ req' = req
         \/ Finish(w)
         \/ \E r : r.pc \notin HolderPCs /\ req' = [req EXCEPT ![w] = r]
         \/ \E pc : pc \notin HolderPCs /\ Goto(w, pc)
  PROVE  \A u \in Workers : req'[u].pc \in HolderPCs => req'[u] = req[u]
  BY DEF TInv, TypeOK, Request, Finish, Goto, Idle, HolderPCs

LEMMA ArriveReview ==
  ASSUME TInv, NEW w \in Workers, Arrive(w)
  PROVE  ReviewFrame \/ \E q \in Proposals : RejectProposal(w, q)
<1>1. \A pc \in ArrivalPCs : pc \notin HolderPCs
  BY DEF ArrivalPCs, HolderPCs
<1>2. QED
  BY <1>1, ArriveStep, HolderFrame DEF ReviewFrame

LEMMA ContinueReview ==
  ASSUME TInv, NEW w \in Workers, Continue(w), ~ProposeInsert(w), ~AcceptClaim(w),
         ~AcceptCommit(w)
  PROVE  ReviewFrame
<1>1. CASE CreateSnapshot(w) \/ UpdateSnapshot(w) \/ RevertSnapshot(w) \/ FinalizeSnapshot(w)
  BY <1>1, HolderFrame
  DEF CreateSnapshot, UpdateSnapshot, RevertSnapshot, FinalizeSnapshot, ReviewFrame
<1>2. CASE UpdateWrite(w) \/ RevertWrite(w) \/ FinalizeLink(w) \/ FinalizeQuota(w)
  <2>1. \A u \in Workers : req'[u].pc \in HolderPCs => req'[u] = req[u]
    BY <1>2, HolderFrame DEF UpdateWrite, RevertWrite, FinalizeLink, FinalizeQuota, HolderPCs
  <2>2. QED
    BY <1>2, <2>1 DEF UpdateWrite, RevertWrite, FinalizeLink, FinalizeQuota, ReviewFrame
<1>3. CASE UnlockWrite(w) \/ SoftDeleteWrite(w) \/ UploadInsert(w) \/ DeleteDocument(w)
           \/ WriteRejected(w)
  BY <1>3, HolderFrame
  DEF UnlockWrite, SoftDeleteWrite, UploadInsert, DeleteDocument, WriteRejected, ReviewFrame
<1>4. CASE RevertPick(w) \/ FinalizeDocument(w)
  <2>1. \A u \in Workers : req'[u].pc \in HolderPCs => req'[u] = req[u]
    BY <1>4 DEF RevertPick, FinalizeDocument, Finish, Idle, TInv, TypeOK, Request, HolderPCs
  <2>2. QED
    BY <1>4, <2>1 DEF RevertPick, FinalizeDocument, ReviewFrame
<1>5. CASE AcceptSnapshot(w) \/ AcceptRead(w)
  BY <1>5 DEF AcceptSnapshot, AcceptRead, At, Finish, Idle, TInv, TypeOK, Request, HolderPCs,
     ReviewFrame
<1>6. QED
  BY <1>1, <1>2, <1>3, <1>4, <1>5 DEF Continue

LEMMA ProposeReview ==
  ASSUME ReviewInv, NEW w \in Workers, ProposeInsert(w)
  PROVE  HolderInv' /\ AcceptedHasMilestone'
<1>1. PICK q \in Proposals, row \in ProposalRow :
         /\ proposals[q].status = "unborn" /\ row.status = "PENDING"
         /\ proposals' = [proposals EXCEPT ![q] = row]
  <2>1. req[w].page \in Pages
    BY DEF ProposeInsert, At, ReviewInv, TInv, LocalsOK, Assigned, PagePCs
  <2>2. QED
    BY <2>1 DEF ProposeInsert, ProposalRow
<1>2. \A x \in Proposals : proposals[x].status # "unborn" => proposals'[x] = proposals[x]
  BY <1>1 DEF ReviewInv, TInv, TypeOK
<1>3. \A u \in Workers : req'[u].pc \in HolderPCs => req'[u] = req[u]
  BY HolderFrame DEF ProposeInsert, ReviewInv
<1>4. HolderInv'
  BY <1>2, <1>3, HolderTypes DEF ReviewInv, HolderInv
<1>5. AcceptedHasMilestone'
  <2>1. versions' = versions
    BY DEF ProposeInsert
  <2>2. \A x \in Proposals : proposals'[x].status = "ACCEPTED" => proposals'[x] = proposals[x]
    BY <1>1 DEF ReviewInv, TInv, TypeOK
  <2>3. QED
    BY <2>1, <2>2 DEF ReviewInv, AcceptedHasMilestone
<1>6. QED
  BY <1>4, <1>5

LEMMA ClaimReview ==
  ASSUME ReviewInv, NEW w \in Workers, AcceptClaim(w)
  PROVE  HolderInv' /\ AcceptedHasMilestone'
<1> DEFINE q == req[w].prop
<1>1. q \in Proposals /\ versions' = versions /\ proposals' = proposals
  BY DEF AcceptClaim, At, ReviewInv, TInv, LocalsOK, Assigned, ReviewPCs
<1>2. AcceptedHasMilestone'
  BY <1>1 DEF ReviewInv, AcceptedHasMilestone
<1>3. CASE proposals[q].status = "PENDING"
  <2>1. /\ req'[w].prop = q /\ req'[w].page = proposals[q].page
        /\ \A u \in Workers : u # w => req'[u] = req[u]
    BY <1>3 DEF AcceptClaim, ReviewInv, TInv, TypeOK, Request
  <2>2. \A u \in Workers : req[u].pc \in HolderPCs => req[u].prop # q
    BY <1>1, HolderTypes DEF AcceptClaim, ReviewInv
  <2>3. HolderInv'
    BY <1>1, <1>3, <2>1, <2>2 DEF ReviewInv, HolderInv
  <2>4. QED
    BY <1>2, <2>3
<1>4. CASE proposals[q].status # "PENDING"
  <2>1. \A u \in Workers : req'[u].pc \in HolderPCs => req'[u] = req[u]
    BY <1>4, HolderFrame DEF AcceptClaim, ReviewInv
  <2>2. HolderInv'
    BY <1>1, <2>1 DEF ReviewInv, HolderInv
  <2>3. QED
    BY <1>2, <2>2
<1>5. QED
  BY <1>3, <1>4

LEMMA CommitReview ==
  ASSUME ReviewInv, NEW w \in Workers, AcceptCommit(w)
  PROVE  HolderInv' /\ AcceptedHasMilestone'
<1> DEFINE q == req[w].prop
           m == MilestoneOf(req[w].page, req[w].base)
<1>1. /\ q \in Proposals /\ req[w].pc \in HolderPCs
      /\ proposals[q].page = req[w].page
      /\ versions' = versions \cup {m}
  BY HolderTypes DEF AcceptCommit, At, ReviewInv, HolderInv, HolderPCs
<1>2. /\ \A x \in Proposals : x # q => proposals'[x] = proposals[x]
      /\ proposals'[q].page = proposals[q].page
  BY <1>1 DEF AcceptCommit, ReviewInv, TInv, TypeOK, ProposalRow
<1>3. \A u \in Workers : req'[u].pc \in HolderPCs => u # w /\ req'[u] = req[u]
  BY DEF AcceptCommit, Finish, Idle, HolderPCs, ReviewInv, TInv, TypeOK
<1>4. \A u \in Workers : u # w /\ req[u].pc \in HolderPCs => req[u].prop # q
  BY <1>1 DEF ReviewInv, HolderInv
<1>5. HolderInv'
  BY <1>2, <1>3, <1>4, HolderTypes DEF ReviewInv, HolderInv
<1>6. m.page = proposals'[q].page /\ ~m.final
  BY <1>1, <1>2 DEF MilestoneOf
<1>7. AcceptedHasMilestone'
  BY <1>1, <1>2, <1>6 DEF ReviewInv, AcceptedHasMilestone
<1>8. QED
  BY <1>5, <1>7

LEMMA RejectReview ==
  ASSUME ReviewInv, NEW w \in Workers, NEW q \in Proposals, RejectProposal(w, q)
  PROVE  HolderInv' /\ AcceptedHasMilestone'
<1>1. /\ \A x \in Proposals : x # q => proposals'[x] = proposals[x]
      /\ proposals'[q].status = "REJECTED" /\ req' = req /\ versions' = versions
  BY DEF RejectProposal, ReviewInv, TInv, TypeOK, ProposalRow
<1>2. \A u \in Workers : req[u].pc \in HolderPCs => req[u].prop # q
  BY HolderTypes DEF RejectProposal, ReviewInv
<1>3. QED
  BY <1>1, <1>2, HolderTypes DEF ReviewInv, HolderInv, AcceptedHasMilestone

LEMMA NextReview == ReviewInv /\ [Next]_vars => ReviewInv'
<1> SUFFICES ASSUME ReviewInv, [Next]_vars
             PROVE  ReviewInv'
  OBVIOUS
<1>1. TInv /\ TInv'
  BY NextTInv DEF ReviewInv
<1>2. ASSUME NEW w \in Workers, Arrive(w)
      PROVE  ReviewInv'
  BY <1>1, <1>2, ArriveReview, FrameReview, RejectReview DEF ReviewInv
<1>3. ASSUME NEW w \in Workers, Continue(w)
      PROVE  ReviewInv'
  BY <1>1, <1>3, ContinueReview, FrameReview, ProposeReview, ClaimReview, CommitReview
  DEF ReviewInv
<1>4. ASSUME NEW w \in Workers, Fault(w)
      PROVE  ReviewInv'
  <2>1. ReviewFrame
    BY <1>1, <1>4, HolderFrame DEF Fault, ReviewFrame
  <2>2. QED
    BY <1>1, <2>1, FrameReview
<1>5. CASE DeleteSpace
  <2>1. \A q \in Proposals : proposals'[q].status \in {"unborn", "gone"}
    BY <1>1, <1>5 DEF DeleteSpace, TInv, TypeOK, ProposalRow
  <2>2. \A u \in Workers : req[u].pc \notin HolderPCs
    BY <1>1, <1>5, HolderTypes DEF DeleteSpace
  <2>3. req' = req
    BY <1>5 DEF DeleteSpace
  <2>4. QED
    BY <1>1, <2>1, <2>2, <2>3 DEF ReviewInv, HolderInv, AcceptedHasMilestone
<1>6. CASE UNCHANGED vars
  <2>1. ReviewFrame
    BY <1>1, <1>6, HolderFrame DEF vars, ReviewFrame
  <2>2. QED
    BY <1>1, <2>1, FrameReview
<1>7. QED
  BY <1>2, <1>3, <1>4, <1>5, <1>6 DEF Next

LEMMA InitReview == Init => ReviewInv
<1> SUFFICES ASSUME Init
             PROVE  ReviewInv
  OBVIOUS
<1>1. HolderInv /\ AcceptedHasMilestone
  BY DEF Init, HolderInv, HolderPCs, Idle, AcceptedHasMilestone
<1>2. QED
  BY <1>1, InitTInv DEF ReviewInv

LEMMA ReviewInvariant == Spec => []ReviewInv
  BY InitReview, NextReview, PTL DEF Spec

(* An accepted proposal left a milestone on its page to roll back to.      *)
THEOREM AcceptedHaveMilestones == Spec => []AcceptedHasMilestone
<1>1. ReviewInv => AcceptedHasMilestone
  BY DEF ReviewInv
<1>2. QED
  BY <1>1, ReviewInvariant, PTL

Decided == \A q \in Proposals : proposals[q].status \in {"ACCEPTED", "REJECTED"} =>
               proposals'[q].status \in {proposals[q].status, "gone"}

LEMMA DecidedStep == ReviewInv /\ [Next]_vars => [Decided]_proposals
<1> SUFFICES ASSUME ReviewInv, [Next]_vars
             PROVE  Decided \/ proposals' = proposals
  BY DEF vars
<1>1. TInv
  BY DEF ReviewInv
<1>2. ASSUME NEW w \in Workers, AcceptCommit(w)
      PROVE  Decided
  <2>1. req[w].prop \in Proposals /\ proposals[req[w].prop].status = "PENDING"
    BY <1>1, <1>2, HolderTypes DEF AcceptCommit, At, ReviewInv, HolderInv, HolderPCs
  <2>2. QED
    BY <1>1, <1>2, <2>1 DEF AcceptCommit, Decided, TInv, TypeOK, ProposalRow
<1>3. ASSUME NEW w \in Workers, NEW q \in Proposals, RejectProposal(w, q)
      PROVE  Decided
  BY <1>1, <1>3 DEF RejectProposal, Decided, TInv, TypeOK, ProposalRow
<1>4. ASSUME NEW w \in Workers, ProposeInsert(w)
      PROVE  Decided
  BY <1>1, <1>4 DEF ProposeInsert, Decided, TInv, TypeOK, ProposalRow
<1>5. CASE DeleteSpace
  BY <1>1, <1>5 DEF DeleteSpace, Decided, TInv, TypeOK, ProposalRow
<1>6. ASSUME NEW w \in Workers, AcceptClaim(w)
      PROVE  proposals' = proposals
  BY <1>6 DEF AcceptClaim
<1>7. ASSUME NEW w \in Workers, Arrive(w)
      PROVE  Decided \/ proposals' = proposals
  BY <1>1, <1>3, <1>7, ArriveReview DEF ReviewFrame
<1>8. ASSUME NEW w \in Workers, Continue(w)
      PROVE  Decided \/ proposals' = proposals
  BY <1>1, <1>2, <1>4, <1>6, <1>8, ContinueReview DEF ReviewFrame
<1>9. QED
  BY <1>5, <1>7, <1>8 DEF Next, Fault, vars

(* A decision on a proposal stands: no race of accept with accept or with   *)
(* reject takes it back.                                                   *)
THEOREM ProposalsDecidedOnce == Spec => DecidedOnce
<1>1. ReviewInv /\ [Next]_vars =>
        [\A q \in Proposals : proposals[q].status \in {"ACCEPTED", "REJECTED"} =>
            proposals'[q].status \in {proposals[q].status, "gone"}]_proposals
  BY DecidedStep DEF Decided
<1>2. QED
  BY <1>1, ReviewInvariant, PTL DEF Spec, DecidedOnce

-----------------------------------------------------------------------------
(* How far the unlocked check of the document limit can be overshot, for    *)
(* every limit and every number of requests.                               *)

(* The requests that passed the check and have not inserted.               *)
InsertPCs == {"finalizeDocument", "uploadInsert"}
Inserters == {w \in Workers : req[w].pc \in InsertPCs}

(* A document and a request still to insert one count alike: the last check *)
(* that passed saw fewer than the limit, and at most every request passed.  *)
QuotaInv ==
    TInv /\ Cardinality(LiveDocs) + Cardinality(Inserters)
                <= MaxDocuments + Cardinality(Workers) - 1

LEMMA Counts ==
  /\ IsFiniteSet(LiveDocs) /\ IsFiniteSet(Inserters)
  /\ Cardinality(LiveDocs) \in Nat /\ Cardinality(Inserters) \in Nat
  /\ Cardinality(Workers) \in Nat /\ Cardinality(Inserters) <= Cardinality(Workers)
<1>1. LiveDocs \subseteq Documents /\ Inserters \subseteq Workers
  BY DEF LiveDocs, Inserters
<1>2. QED
  BY <1>1, WorkersAssumption, DocumentsAssumption, FS_Subset, FS_CardinalityType

LEMMA CountsNext ==
  /\ IsFiniteSet(LiveDocs') /\ IsFiniteSet(Inserters')
  /\ Cardinality(LiveDocs') \in Nat /\ Cardinality(Inserters') \in Nat
  /\ Cardinality(Inserters') <= Cardinality(Workers)
<1>1. LiveDocs' \subseteq Documents /\ Inserters' \subseteq Workers
  BY DEF LiveDocs, Inserters
<1>2. QED
  BY <1>1, WorkersAssumption, DocumentsAssumption, FS_Subset, FS_CardinalityType

(* Steps that neither insert a document nor pass the check.                *)
QuotaFrame == LiveDocs' \subseteq LiveDocs /\ Inserters' \subseteq Inserters

LEMMA FrameQuota == QuotaInv /\ TInv' /\ QuotaFrame => QuotaInv'
<1> SUFFICES ASSUME QuotaInv, TInv', QuotaFrame
             PROVE  QuotaInv'
  OBVIOUS
<1>1. /\ Cardinality(LiveDocs') <= Cardinality(LiveDocs)
      /\ Cardinality(Inserters') <= Cardinality(Inserters)
  BY Counts, FS_Subset DEF QuotaFrame
<1>2. MaxDocuments \in Nat
  BY LimitAssumption
<1>3. QED
  BY <1>1, <1>2, Counts, CountsNext DEF QuotaInv

(* The check that passes.                                                  *)
LEMMA CheckQuota ==
  ASSUME QuotaInv, TInv', QuotaLeft, docs' = docs
  PROVE  QuotaInv'
<1>1. Cardinality(LiveDocs') = Cardinality(LiveDocs) /\ Cardinality(LiveDocs) < MaxDocuments
  BY DEF LiveDocs, QuotaLeft
<1>2. QED
  BY <1>1, Counts, CountsNext, LimitAssumption DEF QuotaInv

(* The insert.                                                             *)
LEMMA InsertQuota ==
  ASSUME QuotaInv, TInv', NEW w \in Inserters, NEW d \in Documents,
         LiveDocs' \subseteq LiveDocs \cup {d}, Inserters' \subseteq Inserters \ {w}
  PROVE  QuotaInv'
<1>1. Cardinality(LiveDocs') <= Cardinality(LiveDocs) + 1
  <2>1. /\ IsFiniteSet(LiveDocs \cup {d})
        /\ Cardinality(LiveDocs \cup {d}) \in {Cardinality(LiveDocs), Cardinality(LiveDocs) + 1}
    BY Counts, FS_AddElement
  <2>2. QED
    BY <2>1, Counts, CountsNext, FS_Subset
<1>2. Cardinality(Inserters') <= Cardinality(Inserters) - 1
  <2>1. IsFiniteSet(Inserters \ {w}) /\ Cardinality(Inserters \ {w}) = Cardinality(Inserters) - 1
    BY Counts, FS_RemoveElement
  <2>2. QED
    BY <2>1, Counts, CountsNext, FS_Subset
<1>3. QED
  BY <1>1, <1>2, Counts, CountsNext, LimitAssumption DEF QuotaInv

-----------------------------------------------------------------------------
LEMMA InserterFrame ==
  ASSUME TInv, NEW w \in Workers,
         \/ req' = req
         \/ Finish(w)
         \/ \E r : r.pc \notin InsertPCs /\ req' = [req EXCEPT ![w] = r]
         \/ \E pc : pc \notin InsertPCs /\ Goto(w, pc)
  PROVE  Inserters' \subseteq Inserters
  BY DEF TInv, TypeOK, Request, Finish, Goto, Idle, InsertPCs, Inserters

LEMMA ArriveQuota ==
  ASSUME QuotaInv, TInv', NEW w \in Workers, Arrive(w)
  PROVE  QuotaInv'
<1>1. docs' = docs
  BY ArriveStep
<1>2. CASE UploadQuota(w)
  BY <1>1, <1>2, CheckQuota DEF UploadQuota
<1>3. CASE ~UploadQuota(w)
  <2>1. \/ req' = req
        \/ \E r : r.pc \notin InsertPCs /\ req' = [req EXCEPT ![w] = r]
    <3>1. ASSUME NEW r, r.pc = "uploadInsert", req' = [req EXCEPT ![w] = r]
          PROVE  FALSE
      <4>1. req'[w].pc = "uploadInsert" /\ req[w].pc = "idle"
        BY <3>1, ArriveStep DEF QuotaInv, TInv, TypeOK, At
      <4>2. ASSUME NEW p \in Pages, NEW c \in {NONE} \cup Content,
                   \/ \E d \in {NONE} \cup Documents : CreateInsert(w, p, c, d)
                   \/ \E t \in {NONE} \cup Status : UpdateRead(w, p, c, t)
            PROVE  FALSE
        <5>1. \/ req' = req
              \/ req' = [req EXCEPT ![w] = [Idle EXCEPT !.pc = "createSnapshot", !.page = p,
                                                       !.content = c]]
              \/ \E t : req' = [req EXCEPT ![w] = [Idle EXCEPT
                     !.pc = "updateWrite", !.page = p, !.seen = pages[p].status,
                     !.content = c, !.status = t]]
          BY <4>2 DEF CreateInsert, UpdateRead
        <5>2. QED
          BY <4>1, <5>1 DEF Idle, QuotaInv, TInv, TypeOK
      <4>3. CASE \E p \in Pages : SoftDeleteRead(w, p) \/ RevertRead(w, p)
                                    \/ FinalizeRead(w, p) \/ UnlockRead(w, p)
                                    \/ ProposeRead(w, p)
        BY <4>1, <4>3 DEF SoftDeleteRead, RevertRead, FinalizeRead, UnlockRead, ProposeRead,
           Idle, QuotaInv, TInv, TypeOK
      <4>4. CASE \/ \E q \in Proposals : AcceptBegin(w, q) \/ RejectProposal(w, q)
                 \/ \E d \in Documents : DeleteDocumentRead(w, d)
        BY <4>1, <4>4 DEF AcceptBegin, RejectProposal, DeleteDocumentRead, Idle, QuotaInv, TInv,
           TypeOK
      <4>5. QED
        BY <1>3, <4>2, <4>3, <4>4 DEF Arrive
    <3>2. QED
      BY <3>1, ArriveStep DEF ArrivalPCs, InsertPCs
  <2>2. QuotaFrame
    BY <1>1, <2>1, InserterFrame DEF QuotaFrame, LiveDocs, QuotaInv
  <2>3. QED
    BY <2>2, FrameQuota
<1>4. QED
  BY <1>2, <1>3

LEMMA InsertersInsert ==
  ASSUME QuotaInv, TInv', NEW w \in Workers, FinalizeDocument(w) \/ UploadInsert(w)
  PROVE  QuotaInv'
<1>1. PICK d \in Documents : \A x \in Documents : x # d => docs'[x] = docs[x]
  BY DEF FinalizeDocument, UploadInsert, QuotaInv, TInv, TypeOK
<1>2. LiveDocs' \subseteq LiveDocs \cup {d}
  BY <1>1 DEF LiveDocs
<1>3. w \in Inserters
  BY DEF FinalizeDocument, UploadInsert, At, Inserters, InsertPCs
<1>4. Inserters' \subseteq Inserters \ {w}
  BY DEF FinalizeDocument, UploadInsert, Finish, Idle, Inserters, InsertPCs, QuotaInv, TInv,
     TypeOK, Request
<1>5. QED
  BY <1>2, <1>3, <1>4, InsertQuota

LEMMA ContinueQuota ==
  ASSUME QuotaInv, TInv', NEW w \in Workers, Continue(w)
  PROVE  QuotaInv'
<1>1. CASE FinalizeDocument(w) \/ UploadInsert(w)
  BY <1>1, InsertersInsert
<1>2. CASE FinalizeQuota(w)
  <2>1. CASE QuotaLeft
    BY <1>2, <2>1, CheckQuota DEF FinalizeQuota
  <2>2. CASE ~QuotaLeft
    <3>1. QuotaFrame
      BY <1>2, <2>2, InserterFrame DEF FinalizeQuota, QuotaFrame, LiveDocs, QuotaInv
    <3>2. QED
      BY <3>1, FrameQuota
  <2>3. QED
    BY <2>1, <2>2
<1>3. CASE ~FinalizeDocument(w) /\ ~UploadInsert(w) /\ ~FinalizeQuota(w)
  <2>1. LiveDocs' \subseteq LiveDocs
    <3>1. CASE DeleteDocument(w)
      BY <3>1 DEF DeleteDocument, LiveDocs, QuotaInv, TInv, TypeOK, DocRow
    <3>2. CASE docs' = docs
      BY <3>2 DEF LiveDocs
    <3>3. QED
      BY <1>3, <3>1, <3>2 DEF Continue, CreateSnapshot, UpdateWrite, UpdateSnapshot,
         SoftDeleteWrite, RevertPick, RevertWrite, RevertSnapshot, FinalizeLink,
         FinalizeSnapshot, UnlockWrite, ProposeInsert, AcceptClaim, AcceptSnapshot, AcceptRead,
         AcceptCommit, WriteRejected
  <2>2. Inserters' \subseteq Inserters
    <3>1. CASE CreateSnapshot(w) \/ UpdateSnapshot(w) \/ RevertSnapshot(w)
               \/ FinalizeSnapshot(w) \/ UnlockWrite(w) \/ SoftDeleteWrite(w)
               \/ ProposeInsert(w) \/ AcceptCommit(w) \/ DeleteDocument(w) \/ WriteRejected(w)
      BY <3>1, InserterFrame
      DEF CreateSnapshot, UpdateSnapshot, RevertSnapshot, FinalizeSnapshot, UnlockWrite,
          SoftDeleteWrite, ProposeInsert, AcceptCommit, DeleteDocument, WriteRejected, QuotaInv
    <3>2. CASE UpdateWrite(w) \/ RevertWrite(w) \/ FinalizeLink(w)
      <4>1. Finish(w) \/ Goto(w, "updateSnapshot") \/ Goto(w, "revertSnapshot")
              \/ Goto(w, "finalizeSnapshot")
        BY <3>2 DEF UpdateWrite, RevertWrite, FinalizeLink
      <4>2. QED
        BY <4>1, InserterFrame DEF InsertPCs, QuotaInv
    <3>3. CASE RevertPick(w) \/ AcceptClaim(w) \/ AcceptSnapshot(w) \/ AcceptRead(w)
      BY <3>3 DEF RevertPick, AcceptClaim, AcceptSnapshot, AcceptRead, Finish, Idle, Inserters,
         InsertPCs, QuotaInv, TInv, TypeOK, Request
    <3>4. QED
      BY <1>3, <3>1, <3>2, <3>3 DEF Continue
  <2>3. QED
    BY <2>1, <2>2, FrameQuota DEF QuotaFrame
<1>4. QED
  BY <1>1, <1>2, <1>3

LEMMA NextQuota == QuotaInv /\ [Next]_vars => QuotaInv'
<1> SUFFICES ASSUME QuotaInv, [Next]_vars
             PROVE  QuotaInv'
  OBVIOUS
<1>1. TInv /\ TInv'
  BY NextTInv DEF QuotaInv
<1>2. ASSUME NEW w \in Workers, Fault(w)
      PROVE  QuotaInv'
  <2>1. QuotaFrame
    BY <1>1, <1>2, InserterFrame DEF Fault, QuotaFrame, LiveDocs
  <2>2. QED
    BY <1>1, <2>1, FrameQuota
<1>3. CASE DeleteSpace \/ UNCHANGED vars
  <2>1. QuotaFrame
    BY <1>3 DEF DeleteSpace, vars, QuotaFrame, LiveDocs, Inserters
  <2>2. QED
    BY <1>1, <2>1, FrameQuota
<1>4. QED
  BY <1>1, <1>2, <1>3, ArriveQuota, ContinueQuota DEF Next

LEMMA InitQuota == Init => QuotaInv
<1> SUFFICES ASSUME Init
             PROVE  QuotaInv
  OBVIOUS
<1>1. LiveDocs = {} /\ Inserters = {}
  BY DEF Init, LiveDocs, Inserters, InsertPCs, Idle
<1>2. Cardinality(Workers) >= 1
  <2>1. Cardinality(Workers) # 0
    BY WorkersAssumption, FS_EmptySet
  <2>2. QED
    BY <2>1, Counts
<1>3. Cardinality({}) = 0
  BY FS_EmptySet
<1>4. QED
  BY <1>1, <1>2, <1>3, Counts, LimitAssumption, InitTInv DEF QuotaInv

(* finalize and upload check the limit and insert in separate statements:   *)
(* the user's documents still never exceed the limit by more than the other *)
(* requests in flight.                                                     *)
THEOREM OvershootBounded == Spec => []QuotaOvershootBounded
<1>1. QuotaInv => QuotaOvershootBounded
  <2> SUFFICES ASSUME QuotaInv
               PROVE  QuotaOvershootBounded
    OBVIOUS
  <2>1. QED
    BY Counts, LimitAssumption DEF QuotaInv, QuotaOvershootBounded
<1>2. QED
  BY <1>1, InitQuota, NextQuota, PTL DEF Spec

-----------------------------------------------------------------------------
(* DraftLifecycle implements DraftLedger.                                   *)

(* The refinement mapping, part by part.                                   *)
Attested == {[page |-> v.page, doc |-> v.doc, content |-> v.content] :
                v \in {x \in versions : x.final}}
MilestonePages == {v.page : v \in {x \in versions : ~x.final}}
Decision == [q \in Proposals |-> [status |-> proposals[q].status, page |-> proposals[q].page]]

RecordsInv == LineageInv /\ ReviewInv

LEMMA RecordsInvariant == Spec => []RecordsInv
  BY LineageInvariant, ReviewInvariant, PTL DEF RecordsInv

LEMMA LedgerStutters ==
  ASSUME versions' = versions, docs' = docs, proposals' = proposals
  PROVE  UNCHANGED Ledger!ledger
  BY DEF Ledger!ledger

(* A milestone snapshot on its own.                                        *)
LEMMA MilestoneRefines ==
  ASSUME NEW p \in Pages, NEW c, versions' = versions \cup {MilestoneOf(p, c)},
         docs' = docs, proposals' = proposals
  PROVE  Ledger!Next
<1>1. MilestoneOf(p, c).page = p /\ ~MilestoneOf(p, c).final
  BY DEF MilestoneOf
<1>2. Attested' = Attested
  BY <1>1 DEF Attested
<1>3. MilestonePages' = MilestonePages \cup {p}
  BY <1>1 DEF MilestonePages
<1>4. Ledger!Milestone(p)
  BY <1>2, <1>3 DEF Ledger!Milestone, Attested, MilestonePages
<1>5. QED
  BY <1>4 DEF Ledger!Next

LEMMA SnapshotRefines ==
  ASSUME RecordsInv, NEW w \in Workers,
         CreateSnapshot(w) \/ UpdateSnapshot(w) \/ RevertSnapshot(w)
  PROVE  [Ledger!Next]_(Ledger!ledger)
<1>1. req[w].page \in Pages
  BY DEF CreateSnapshot, UpdateSnapshot, RevertSnapshot, At, RecordsInv, LineageInv, TInv,
     LocalsOK, Assigned, PagePCs
<1>2. CASE versions' = versions \cup {MilestoneOf(req[w].page, req[w].content)}
  BY <1>1, <1>2, MilestoneRefines DEF CreateSnapshot, UpdateSnapshot, RevertSnapshot
<1>3. CASE versions' = versions
  BY <1>3, LedgerStutters DEF CreateSnapshot, UpdateSnapshot, RevertSnapshot
<1>4. QED
  BY <1>2, <1>3 DEF CreateSnapshot, UpdateSnapshot, RevertSnapshot

(* The insert of finalize publishes the text the handler holds.            *)
LEMMA DocumentRefines ==
  ASSUME RecordsInv, NEW w \in Workers,
         FinalizeDocument(w) \/ UploadInsert(w) \/ DeleteDocument(w)
  PROVE  Ledger!Next
<1>1. CASE FinalizeDocument(w)
  <2>1. PICK d \in Documents :
           /\ docs[d].row = "unborn"
           /\ docs' = [docs EXCEPT ![d] = [row |-> "live", content |-> req[w].content]]
    BY <1>1 DEF FinalizeDocument
  <2>2. req[w].content \in Content
    BY <1>1 DEF FinalizeDocument, At, RecordsInv, LineageInv, TInv, LocalsOK, Assigned,
       ContentPCs
  <2>3. Ledger!Publish(d, req[w].content)
    BY <1>1, <2>1 DEF FinalizeDocument, Ledger!Publish
  <2>4. QED
    BY <2>2, <2>3 DEF Ledger!Next
<1>2. CASE UploadInsert(w)
  <2>1. PICK d \in Documents :
           docs[d].row = "unborn" /\ docs' = [docs EXCEPT ![d].row = "live"]
    BY <1>2 DEF UploadInsert
  <2>2. docs[d] \in DocRow
    BY DEF RecordsInv, LineageInv, TInv, TypeOK
  <2>3. docs' = [docs EXCEPT ![d] = [row |-> "live", content |-> docs[d].content]]
    <3>1. [docs[d] EXCEPT !.row = "live"] = [row |-> "live", content |-> docs[d].content]
      BY <2>2 DEF DocRow
    <3>2. QED
      BY <2>1, <3>1
  <2>4. Ledger!Publish(d, docs[d].content)
    BY <1>2, <2>1, <2>3 DEF UploadInsert, Ledger!Publish
  <2>5. QED
    BY <2>2, <2>4 DEF Ledger!Next, DocRow
<1>3. CASE DeleteDocument(w)
  <2>1. req[w].doc \in Documents
    BY <1>3 DEF DeleteDocument, At, RecordsInv, LineageInv, TInv, LocalsOK, Assigned
  <2>2. Ledger!Withdraw(req[w].doc)
    BY <1>3 DEF DeleteDocument, Ledger!Withdraw
  <2>3. QED
    BY <2>1, <2>2 DEF Ledger!Next
<1>4. QED
  BY <1>1, <1>2, <1>3

(* The snapshot of finalize attests the document, for the first time.      *)
LEMMA FinalizeSnapshotRefines ==
  ASSUME RecordsInv, NEW w \in Workers, FinalizeSnapshot(w)
  PROVE  Ledger!Next
<1>1. PICK p \in Pages, d \in Documents : p = req[w].page /\ d = req[w].doc
  BY PublisherTypes DEF FinalizeSnapshot, At, PublisherPCs, RecordsInv, LineageInv
<1> DEFINE c == req[w].content
           s == FinalizedOf(p, c, d)
<1>2. docs[d].row # "unborn" /\ docs[d].content = c
  BY <1>1 DEF RecordsInv, LineageInv, PublisherInv, FinalizeSnapshot, At, PublisherPCs
<1>3. \A v \in versions : v.final => v.doc # d
  BY <1>1 DEF RecordsInv, LineageInv, PublisherInv, FinalizeSnapshot, At, PublisherPCs
<1>4. s.page = p /\ s.doc = d /\ s.content = c /\ s.final
  BY DEF FinalizedOf
<1>5. versions' = versions \cup {s} /\ docs' = docs /\ proposals' = proposals
  BY <1>1 DEF FinalizeSnapshot
<1>6. Attested' = Attested \cup {[page |-> p, doc |-> d, content |-> docs[d].content]}
  <2> HIDE DEF s
  <2>1. QED
    BY <1>2, <1>4, <1>5 DEF Attested
<1>7. MilestonePages' = MilestonePages
  <2> HIDE DEF s
  <2>1. QED
    BY <1>4, <1>5 DEF MilestonePages
<1>8. \A a \in Attested : a.doc # d
  BY <1>3 DEF Attested
<1>9. Ledger!Attest(p, d)
  BY <1>2, <1>5, <1>6, <1>7, <1>8 DEF Ledger!Attest, Attested, MilestonePages
<1>10. QED
  BY <1>9 DEF Ledger!Next

LEMMA ProposeRefines ==
  ASSUME RecordsInv, NEW w \in Workers, ProposeInsert(w)
  PROVE  Ledger!Next
<1>1. PICK p \in Pages : p = req[w].page
  BY DEF ProposeInsert, At, RecordsInv, LineageInv, TInv, LocalsOK, Assigned, PagePCs
<1>2. PICK q \in Proposals, o \in Phrases, s \in Phrases :
         /\ proposals[q].status = "unborn"
         /\ proposals' = [proposals EXCEPT ![q] =
                [status |-> "PENDING", page |-> p, original |-> o, suggested |-> s]]
  BY <1>1 DEF ProposeInsert
<1>3. Decision[q].status = "unborn"
  BY <1>2 DEF Decision
<1>4. Decision' = [Decision EXCEPT ![q] = [status |-> "PENDING", page |-> p]]
  BY <1>2 DEF Decision, RecordsInv, LineageInv, TInv, TypeOK
<1>5. Ledger!Propose(q, p)
  BY <1>3, <1>4 DEF Ledger!Propose, Decision, ProposeInsert
<1>6. QED
  BY <1>5 DEF Ledger!Next

(* The commit of accept decides the proposal and leaves the milestone.     *)
LEMMA AcceptRefines ==
  ASSUME RecordsInv, NEW w \in Workers, AcceptCommit(w)
  PROVE  Ledger!Next
<1> DEFINE p == req[w].page
           m == MilestoneOf(p, req[w].base)
<1>1. PICK q \in Proposals :
         q = req[w].prop /\ proposals[q].status = "PENDING" /\ proposals[q].page = p
  BY HolderTypes DEF AcceptCommit, At, RecordsInv, ReviewInv, HolderInv, HolderPCs
<1>2. /\ versions' = versions \cup {m} /\ docs' = docs
      /\ proposals' = [proposals EXCEPT ![q].status = "ACCEPTED"]
  BY <1>1 DEF AcceptCommit
<1>3. m.page = p /\ ~m.final
  BY DEF MilestoneOf
<1>4. Attested' = Attested
  <2> HIDE DEF m
  <2>1. QED
    BY <1>2, <1>3 DEF Attested
<1>5. MilestonePages' = MilestonePages \cup {p}
  <2> HIDE DEF m
  <2>1. QED
    BY <1>2, <1>3 DEF MilestonePages
<1>6. Decision[q].status = "PENDING" /\ Decision[q].page = p
  BY <1>1 DEF Decision
<1>7. Decision' = [Decision EXCEPT ![q].status = "ACCEPTED"]
  BY <1>1, <1>2 DEF Decision, RecordsInv, LineageInv, TInv, TypeOK, ProposalRow
<1>8. Ledger!Accept(q)
  BY <1>2, <1>4, <1>5, <1>6, <1>7 DEF Ledger!Accept, Attested, MilestonePages, Decision
<1>9. QED
  BY <1>8 DEF Ledger!Next

LEMMA RejectRefines ==
  ASSUME RecordsInv, NEW w \in Workers, NEW q \in Proposals, RejectProposal(w, q)
  PROVE  Ledger!Next
<1>1. Decision[q].status = "PENDING"
  BY DEF RejectProposal, Decision
<1>2. Decision' = [Decision EXCEPT ![q].status = "REJECTED"]
  BY DEF RejectProposal, Decision, RecordsInv, LineageInv, TInv, TypeOK, ProposalRow
<1>3. Ledger!Reject(q)
  BY <1>1, <1>2 DEF Ledger!Reject, Decision, RejectProposal
<1>4. QED
  BY <1>3 DEF Ledger!Next

LEMMA DeleteSpaceRefines ==
  ASSUME RecordsInv, DeleteSpace
  PROVE  Ledger!Next
<1>1. Attested' = {} /\ MilestonePages' = {}
  BY DEF DeleteSpace, Attested, MilestonePages
<1>2. \A q \in Proposals : proposals[q] \in ProposalRow
  BY DEF RecordsInv, LineageInv, TInv, TypeOK
<1>3. Decision' = [q \in Proposals |-> IF Decision[q].status = "unborn" THEN Decision[q]
                                       ELSE [Decision[q] EXCEPT !.status = "gone"]]
  BY <1>2 DEF DeleteSpace, Decision, ProposalRow
<1>4. Ledger!Clear
  BY <1>1, <1>3 DEF Ledger!Clear, Attested, MilestonePages, Decision, DeleteSpace
<1>5. QED
  BY <1>4 DEF Ledger!Next

LEMMA StepRefines == RecordsInv /\ [Next]_vars => [Ledger!Next]_(Ledger!ledger)
<1> SUFFICES ASSUME RecordsInv, [Next]_vars
             PROVE  [Ledger!Next]_(Ledger!ledger)
  OBVIOUS
<1>1. ASSUME NEW w \in Workers, Arrive(w)
      PROVE  [Ledger!Next]_(Ledger!ledger)
  BY <1>1, ArriveStep, RejectRefines, LedgerStutters
<1>2. ASSUME NEW w \in Workers, Continue(w)
      PROVE  [Ledger!Next]_(Ledger!ledger)
  <2>1. CASE versions' = versions /\ docs' = docs /\ proposals' = proposals
    BY <2>1, LedgerStutters
  <2>2. CASE ~(versions' = versions /\ docs' = docs /\ proposals' = proposals)
    BY <1>2, <2>2, SnapshotRefines, DocumentRefines, FinalizeSnapshotRefines, ProposeRefines,
       AcceptRefines
    DEF Continue, UpdateWrite, SoftDeleteWrite, RevertPick, RevertWrite, FinalizeQuota,
        FinalizeLink, UnlockWrite, AcceptClaim, AcceptSnapshot, AcceptRead, WriteRejected
  <2>3. QED
    BY <2>1, <2>2
<1>3. ASSUME NEW w \in Workers, Fault(w)
      PROVE  [Ledger!Next]_(Ledger!ledger)
  BY <1>3, LedgerStutters DEF Fault
<1>4. CASE UNCHANGED vars
  BY <1>4, LedgerStutters DEF vars
<1>5. QED
  BY <1>1, <1>2, <1>3, <1>4, DeleteSpaceRefines DEF Next

LEMMA InitRefines == Init => Ledger!Init
  BY DEF Init, Ledger!Init

(* The handlers, statement by statement and whatever fails between two of   *)
(* them, keep the promises of the ledger: publish once, attest once and with *)
(* the published text, decide once and leave a milestone.                  *)
THEOREM ImplementsLedger == Spec => LedgerSpec
  BY InitRefines, StepRefines, RecordsInvariant, PTL DEF Spec, LedgerSpec, Ledger!Spec

-----------------------------------------------------------------------------
(* What a step does to a page.  A save looked at the row before: it was not *)
(* FINALIZED then.                                                         *)

UpdateInv ==
    \A w \in Workers : req[w].pc = "updateWrite" =>
        /\ req[w].seen # "FINALIZED"
        /\ "patchStatus" \notin Calls => req[w].status = NONE

LEMMA UpdateStep == TInv /\ UpdateInv /\ [Next]_vars => UpdateInv'
<1> SUFFICES ASSUME TInv, UpdateInv, [Next]_vars
             PROVE  UpdateInv'
  OBVIOUS
<1>1. ASSUME NEW w \in Workers, req'[w].pc # "updateWrite",
             \A u \in Workers : u # w => req'[u] = req[u]
      PROVE  UpdateInv'
  BY <1>1 DEF UpdateInv
<1>2. CASE req' = req
  BY <1>2 DEF UpdateInv
<1>3. ASSUME NEW w \in Workers, NEW r, r.pc # "updateWrite", req' = [req EXCEPT ![w] = r]
      PROVE  UpdateInv'
  BY <1>1, <1>3 DEF TInv, TypeOK
<1>4. ASSUME NEW w \in Workers, Continue(w)
      PROVE  UpdateInv'
  <2>1. req'[w].pc # "updateWrite" /\ \A u \in Workers : u # w => req'[u] = req[u]
    <3>1. CASE CreateSnapshot(w) \/ UpdateSnapshot(w) \/ RevertSnapshot(w) \/ FinalizeSnapshot(w)
               \/ UnlockWrite(w) \/ SoftDeleteWrite(w) \/ ProposeInsert(w) \/ AcceptCommit(w)
               \/ UploadInsert(w) \/ DeleteDocument(w) \/ WriteRejected(w)
      <4>1. Finish(w)
        BY <3>1 DEF CreateSnapshot, UpdateSnapshot, RevertSnapshot, FinalizeSnapshot, UnlockWrite,
           SoftDeleteWrite, ProposeInsert, AcceptCommit, UploadInsert, DeleteDocument, WriteRejected
      <4>2. QED
        BY <4>1 DEF Finish, Idle, TInv, TypeOK
    <3>2. CASE UpdateWrite(w) \/ RevertWrite(w) \/ FinalizeQuota(w) \/ FinalizeLink(w)
      BY <3>2 DEF UpdateWrite, RevertWrite, FinalizeQuota, FinalizeLink, Goto, Finish, Idle, TInv,
         TypeOK, Request
    <3>3. CASE RevertPick(w) \/ FinalizeDocument(w)
      BY <3>3 DEF RevertPick, FinalizeDocument, Finish, Idle, TInv, TypeOK, Request
    <3>4. CASE AcceptClaim(w) \/ AcceptSnapshot(w) \/ AcceptRead(w)
      BY <3>4 DEF AcceptClaim, AcceptSnapshot, AcceptRead, Finish, Idle, TInv, TypeOK, Request
    <3>5. QED
      BY <1>4, <3>1, <3>2, <3>3, <3>4 DEF Continue
  <2>2. QED
    BY <1>1, <2>1
<1>5. ASSUME NEW w \in Workers, NEW p \in Pages, NEW c \in {NONE} \cup Content,
             NEW s \in {NONE} \cup Status, UpdateRead(w, p, c, s)
      PROVE  UpdateInv'
  <2> DEFINE r == [Idle EXCEPT !.pc = "updateWrite", !.page = p, !.seen = pages[p].status,
                               !.content = c, !.status = s]
  <2>1. r.seen = pages[p].status /\ r.status = s
    BY DEF Idle
  <2>2. /\ req' = [req EXCEPT ![w] = r] /\ pages[p].status # "FINALIZED"
        /\ s = NONE \/ "patchStatus" \in Calls
    BY <1>5 DEF UpdateRead, UpdateAllowed, Accepts
  <2> HIDE DEF r
  <2>3. req'[w] = r /\ \A u \in Workers : u # w => req'[u] = req[u]
    BY <2>2 DEF TInv, TypeOK
  <2>4. QED
    BY <2>1, <2>2, <2>3 DEF UpdateInv
<1>6. ASSUME NEW w \in Workers, Arrive(w)
      PROVE  UpdateInv'
  <2>1. ASSUME NEW p \in Pages, NEW c \in {NONE} \cup Content, NEW d \in {NONE} \cup Documents,
               CreateInsert(w, p, c, d)
        PROVE  UpdateInv'
    BY <1>2, <1>3, <2>1 DEF CreateInsert, Idle
  <2>2. ASSUME NEW p \in Pages, SoftDeleteRead(w, p) \/ RevertRead(w, p) \/ FinalizeRead(w, p)
                                \/ UnlockRead(w, p) \/ ProposeRead(w, p)
        PROVE  UpdateInv'
    BY <1>3, <2>2 DEF SoftDeleteRead, RevertRead, FinalizeRead, UnlockRead, ProposeRead, Idle
  <2>3. ASSUME NEW q \in Proposals, AcceptBegin(w, q) \/ RejectProposal(w, q)
        PROVE  UpdateInv'
    BY <1>2, <1>3, <2>3 DEF AcceptBegin, RejectProposal, Idle
  <2>4. CASE UploadQuota(w)
    BY <1>3, <2>4 DEF UploadQuota, Idle
  <2>5. ASSUME NEW d \in Documents, DeleteDocumentRead(w, d)
        PROVE  UpdateInv'
    BY <1>3, <2>5 DEF DeleteDocumentRead, Idle
  <2>6. QED
    BY <1>5, <1>6, <2>1, <2>2, <2>3, <2>4, <2>5 DEF Arrive
<1>7. ASSUME NEW w \in Workers, Fault(w)
      PROVE  UpdateInv'
  BY <1>3, <1>7 DEF Fault, Finish, Idle
<1>8. QED
  BY <1>2, <1>4, <1>6, <1>7 DEF Next, DeleteSpace, vars

(* A page keeps its row; or it begins or is taken up again; or a save       *)
(* writes it; or it is linked, trashed, dropped, or loses its document.    *)
Kept(p) == pages'[p] = pages[p]
Reopened(p) == pages'[p].status \in {"DRAFT", "IN_PROGRESS"}
Saved(p) ==
    \E w \in Workers : /\ UpdateWrite(w) /\ req[w].page = p
                       /\ pages'[p].row = pages[p].row /\ pages'[p].doc = pages[p].doc
                       /\ pages'[p].status = UpdatedStatus(w)
Linked(p) ==
    \E w \in Workers : /\ FinalizeLink(w) /\ req[w].page = p
                       /\ pages'[p].content = pages[p].content /\ pages'[p].doc = req[w].doc
Trashed(p) ==
    /\ Stored(p)
    /\ \A f \in {"status", "content", "doc"} : pages'[p][f] = pages[p][f]
Dropped(p) == pages'[p].row = "gone" /\ pages'[p].content = pages[p].content
Unlinked(p) == pages'[p].doc = NONE /\ pages'[p].content = pages[p].content

LEMMA PageStep ==
  ASSUME TInv, [Next]_vars, NEW p \in Pages
  PROVE  \/ Kept(p) \/ Reopened(p) \/ Saved(p) \/ Linked(p) \/ Trashed(p) \/ Dropped(p)
         \/ Unlinked(p)
<1> USE DEF TInv, TypeOK
<1>1. CASE pages' = pages
  BY <1>1 DEF Kept
<1>2. ASSUME NEW w \in Workers, NEW q \in Pages, NEW c \in {NONE} \cup Content,
             NEW d \in {NONE} \cup Documents, CreateInsert(w, q, c, d)
      PROVE  Kept(p) \/ Reopened(p)
  <2> DEFINE new == [row |-> "live", status |-> "DRAFT", doc |-> d,
                     content |-> IF c = NONE THEN {} ELSE c]
  <2>1. pages' = [pages EXCEPT ![q] = new] /\ new.status = "DRAFT"
    BY <1>2 DEF CreateInsert
  <2> HIDE DEF new
  <2>2. QED
    BY <2>1 DEF Kept, Reopened
<1>3. ASSUME NEW w \in Workers, UpdateWrite(w)
      PROVE  Kept(p) \/ Saved(p)
  <2>1. req[w].page = p => /\ pages'[p].row = pages[p].row /\ pages'[p].doc = pages[p].doc
                           /\ pages'[p].status = UpdatedStatus(w)
    BY <1>3 DEF UpdateWrite, PageRow
  <2>2. req[w].page # p => pages'[p] = pages[p]
    BY <1>3 DEF UpdateWrite
  <2>3. QED
    BY <1>3, <2>1, <2>2 DEF Kept, Saved
<1>4. ASSUME NEW w \in Workers, RevertWrite(w) \/ UnlockWrite(w) \/ AcceptCommit(w)
      PROVE  Kept(p) \/ Reopened(p)
  BY <1>4 DEF RevertWrite, UnlockWrite, AcceptCommit, PageRow, Kept, Reopened
<1>5. ASSUME NEW w \in Workers, FinalizeLink(w)
      PROVE  Kept(p) \/ Linked(p)
  <2>1. req[w].page = p => pages'[p].content = pages[p].content /\ pages'[p].doc = req[w].doc
    BY <1>5 DEF FinalizeLink, PageRow
  <2>2. req[w].page # p => pages'[p] = pages[p]
    BY <1>5 DEF FinalizeLink
  <2>3. QED
    BY <1>5, <2>1, <2>2 DEF Kept, Linked
<1>6. ASSUME NEW w \in Workers, SoftDeleteWrite(w)
      PROVE  Kept(p) \/ Trashed(p)
  <2>1. req[w].page = p =>
           Stored(p) /\ \A f \in {"status", "content", "doc"} : pages'[p][f] = pages[p][f]
    BY <1>6 DEF SoftDeleteWrite, PageRow
  <2>2. req[w].page # p => pages'[p] = pages[p]
    BY <1>6 DEF SoftDeleteWrite
  <2>3. QED
    BY <2>1, <2>2 DEF Kept, Trashed
<1>7. CASE DeleteSpace
  BY <1>7 DEF DeleteSpace, PageRow, Kept, Dropped
<1>8. ASSUME NEW w \in Workers, DeleteDocument(w)
      PROVE  Kept(p) \/ Unlinked(p)
  BY <1>8 DEF DeleteDocument, PageRow, Kept, Unlinked
<1>9. ASSUME NEW w \in Workers, Arrive(w)
      PROVE  pages' = pages \/ Kept(p) \/ Reopened(p)
  BY <1>2, <1>9
  DEF Arrive, UpdateRead, SoftDeleteRead, RevertRead, FinalizeRead, UnlockRead, ProposeRead,
      AcceptBegin, RejectProposal, UploadQuota, DeleteDocumentRead
<1>10. ASSUME NEW w \in Workers, Continue(w)
       PROVE  pages' = pages \/ Kept(p) \/ Reopened(p) \/ Saved(p) \/ Linked(p) \/ Trashed(p)
              \/ Unlinked(p)
  <2>1. \/ pages' = pages \/ UpdateWrite(w) \/ RevertWrite(w) \/ UnlockWrite(w)
        \/ AcceptCommit(w) \/ FinalizeLink(w) \/ SoftDeleteWrite(w) \/ DeleteDocument(w)
    BY <1>10
    DEF Continue, CreateSnapshot, UpdateSnapshot, RevertPick, RevertSnapshot, FinalizeQuota,
        FinalizeDocument, FinalizeSnapshot, ProposeInsert, AcceptClaim, AcceptSnapshot,
        AcceptRead, UploadInsert, WriteRejected
  <2>2. QED
    BY <1>3, <1>4, <1>5, <1>6, <1>8, <2>1
<1>11. QED
  BY <1>1, <1>7, <1>9, <1>10 DEF Next, Fault, vars

(* FINALIZED is read-only but for a save that looked before.               *)
THEOREM FinalizedReadOnly == Spec => FinalizedIsReadOnly
<1> DEFINE Respected ==
        \A p \in Pages : pages[p].status = "FINALIZED" /\ pages'[p].status = "FINALIZED"
                        /\ pages'[p].content # pages[p].content
            => \E w \in Workers : At(w, "updateWrite") /\ ~At(w, "updateWrite")'
                                  /\ req[w].page = p /\ req[w].seen # "FINALIZED"
<1>1. Init => TInv /\ UpdateInv
  <2>1. Init => \A w \in Workers : req[w].pc = "idle"
    BY DEF Init, Idle
  <2>2. QED
    BY <2>1, InitTInv DEF UpdateInv
<1>2. TInv /\ UpdateInv /\ [Next]_vars => TInv' /\ UpdateInv'
  BY NextTInv, UpdateStep
<1>3. TInv /\ UpdateInv /\ [Next]_vars => [Respected]_vars
  <2> SUFFICES ASSUME TInv, UpdateInv, [Next]_vars, NEW p \in Pages,
                      pages'[p].status = "FINALIZED", pages'[p].content # pages[p].content
               PROVE  \E w \in Workers : At(w, "updateWrite") /\ ~At(w, "updateWrite")'
                                         /\ req[w].page = p /\ req[w].seen # "FINALIZED"
    OBVIOUS
  <2>1. Saved(p)
    BY PageStep DEF Kept, Reopened, Linked, Trashed, Dropped, Unlinked
  <2>2. PICK w \in Workers : UpdateWrite(w) /\ req[w].page = p
    BY <2>1 DEF Saved
  <2>3. At(w, "updateWrite") /\ (Goto(w, "updateSnapshot") \/ Finish(w))
    BY <2>2 DEF UpdateWrite
  <2>4. req'[w].pc \in {"updateSnapshot", "idle"}
    BY <2>3 DEF Goto, Finish, Idle, TInv, TypeOK, Request
  <2>5. QED
    BY <2>2, <2>3, <2>4 DEF UpdateInv, At
<1>4. QED
  BY <1>1, <1>2, <1>3, PTL DEF Spec, FinalizedIsReadOnly

-----------------------------------------------------------------------------
(* Without faults and without a save that sets the status, the document of  *)
(* a FINALIZED page is in its history or about to be.                      *)

Final(p) == Stored(p) /\ pages[p].status = "FINALIZED" /\ pages[p].doc # NONE
Recorded(p, d) == \E v \in versions : v.page = p /\ v.final /\ v.doc = d
Recording(p, d) ==
    \E w \in Workers : req[w].pc = "finalizeSnapshot" /\ req[w].page = p /\ req[w].doc = d

RecordInv == \A p \in Pages : Final(p) =>
                 Recorded(p, pages[p].doc) \/ Recording(p, pages[p].doc)

CalmInv == TInv /\ UpdateInv /\ (faulty \/ RecordInv)

(* A page that is FINALIZED after a step was so before, with its document,  *)
(* unless the step is its finalize.                                        *)
LEMMA FinalStep ==
  ASSUME TInv, UpdateInv, "patchStatus" \notin Calls, [Next]_vars, NEW p \in Pages, Final(p)'
  PROVE  (Final(p) /\ pages'[p].doc = pages[p].doc) \/ Linked(p)
<1>1. CASE Kept(p)
  BY <1>1 DEF Kept, Final, Stored
<1>2. CASE Saved(p)
  <2>1. PICK w \in Workers : /\ UpdateWrite(w) /\ req[w].page = p
                             /\ pages'[p].row = pages[p].row /\ pages'[p].doc = pages[p].doc
                             /\ pages'[p].status = UpdatedStatus(w)
    BY <1>2 DEF Saved
  <2>2. req[w].status = NONE
    BY <2>1 DEF UpdateInv, UpdateWrite, At
  <2>3. pages'[p].status = "FINALIZED" => pages[p].status = "FINALIZED"
    BY <2>1, <2>2 DEF UpdatedStatus
  <2>4. QED
    BY <2>1, <2>3 DEF Final, Stored
<1>3. CASE Trashed(p)
  BY <1>3 DEF Trashed, Final, Stored
<1>4. ~Reopened(p) /\ ~Dropped(p) /\ ~Unlinked(p)
  BY DEF Reopened, Dropped, Unlinked, Final, Stored
<1>5. QED
  BY <1>1, <1>2, <1>3, <1>4, PageStep

CalmNext == (\E w \in Workers : Arrive(w) \/ Continue(w)) \/ DeleteSpace

(* The history only grows while there are pages, and a finalize at its      *)
(* snapshot stays there until it takes it.                                 *)
LEMMA HistoryStep ==
  ASSUME TInv, CalmNext, NEW p \in Pages, NEW d \in Documents, Stored(p)'
  PROVE  /\ Recorded(p, d) => Recorded(p, d)'
         /\ Recording(p, d) => (Recording(p, d) \/ Recorded(p, d))'
<1> USE DEF TInv, TypeOK
<1>1. ASSUME versions \subseteq versions'
      PROVE  Recorded(p, d) => Recorded(p, d)'
  BY <1>1 DEF Recorded
<1>2. ~DeleteSpace
  BY DEF DeleteSpace, Stored, PageRow
<1>3. PICK w \in Workers : Arrive(w) \/ Continue(w)
  BY <1>2 DEF CalmNext
<1>4. CASE Arrive(w)
  <2>1. versions' = versions /\ req[w].pc = "idle" /\ \A u \in Workers : u # w => req'[u] = req[u]
    BY <1>4, ArriveStep DEF At
  <2>2. QED
    BY <1>1, <2>1 DEF Recording
<1>5. CASE Continue(w)
  <2>1. /\ versions \subseteq versions'
        /\ \A u \in Workers : u # w => req'[u] = req[u]
    <3>1. CASE CreateSnapshot(w) \/ UpdateSnapshot(w) \/ RevertSnapshot(w) \/ FinalizeSnapshot(w)
               \/ UnlockWrite(w) \/ SoftDeleteWrite(w) \/ ProposeInsert(w) \/ AcceptCommit(w)
               \/ UploadInsert(w) \/ DeleteDocument(w) \/ WriteRejected(w)
      BY <3>1 DEF CreateSnapshot, UpdateSnapshot, RevertSnapshot, FinalizeSnapshot, UnlockWrite,
         SoftDeleteWrite, ProposeInsert, AcceptCommit, UploadInsert, DeleteDocument, WriteRejected,
         Finish
    <3>2. CASE UpdateWrite(w) \/ RevertWrite(w) \/ FinalizeQuota(w) \/ FinalizeLink(w)
      BY <3>2 DEF UpdateWrite, RevertWrite, FinalizeQuota, FinalizeLink, Goto, Finish
    <3>3. CASE RevertPick(w) \/ FinalizeDocument(w)
      BY <3>3 DEF RevertPick, FinalizeDocument, Finish
    <3>4. CASE AcceptClaim(w) \/ AcceptSnapshot(w) \/ AcceptRead(w)
      BY <3>4 DEF AcceptClaim, AcceptSnapshot, AcceptRead, Finish
    <3>5. QED
      BY <1>5, <3>1, <3>2, <3>3, <3>4 DEF Continue
  <2>2. ASSUME req[w].pc = "finalizeSnapshot", req[w].page = p, req[w].doc = d
        PROVE  Recorded(p, d)'
    <3>1. FinalizeSnapshot(w) \/ WriteRejected(w)
      BY <1>5, <2>2
      DEF Continue, At, CreateSnapshot, UpdateWrite, UpdateSnapshot, SoftDeleteWrite, RevertPick,
          RevertWrite, RevertSnapshot, FinalizeQuota, FinalizeDocument, FinalizeLink, UnlockWrite,
          ProposeInsert, AcceptClaim, AcceptSnapshot, AcceptRead, AcceptCommit, UploadInsert,
          DeleteDocument
    <3>2. ~WriteRejected(w)
      BY <2>2 DEF WriteRejected, Stored
    <3>3. FinalizedOf(p, req[w].content, d) \in versions'
      BY <2>2, <3>1, <3>2 DEF FinalizeSnapshot
    <3>4. QED
      BY <3>3 DEF Recorded, FinalizedOf
  <2>3. QED
    BY <1>1, <2>1, <2>2 DEF Recording
<1>6. QED
  BY <1>3, <1>4, <1>5

LEMMA CalmStep ==
  ASSUME "patchStatus" \notin Calls, CalmInv, [AnsweredNext]_<<vars, faulty>>
  PROVE  CalmInv'
<1>1. [Next]_vars /\ faulty' = faulty
  BY DEF AnsweredNext, Next
<1>2. TInv /\ UpdateInv /\ TInv' /\ UpdateInv'
  BY <1>1, NextTInv, UpdateStep DEF CalmInv
<1>3. ASSUME RecordInv, UNCHANGED vars
      PROVE  RecordInv'
  BY <1>3 DEF vars, RecordInv, Final, Stored, Recorded, Recording
<1>4. ASSUME RecordInv, CalmNext, NEW p \in Pages, Final(p)'
      PROVE  (Recorded(p, pages[p].doc) \/ Recording(p, pages[p].doc))'
  <2>1. CASE Linked(p)
    <3>1. PICK w \in Workers : FinalizeLink(w) /\ req[w].page = p /\ pages'[p].doc = req[w].doc
      BY <2>1 DEF Linked
    <3>2. /\ req'[w].pc = "finalizeSnapshot"
          /\ req'[w].page = req[w].page /\ req'[w].doc = req[w].doc
      BY <1>2, <3>1 DEF FinalizeLink, Goto, TInv, TypeOK, Request
    <3>3. QED
      BY <3>1, <3>2 DEF Recording
  <2>2. CASE Final(p) /\ pages'[p].doc = pages[p].doc
    <3>1. Recorded(p, pages[p].doc) \/ Recording(p, pages[p].doc)
      BY <1>4, <2>2 DEF RecordInv
    <3>2. pages[p].doc \in Documents /\ Stored(p)'
      BY <1>2, <1>4, <2>2 DEF TInv, TypeOK, PageRow, Final
    <3> DEFINE d == pages[p].doc
    <3>3. /\ Recorded(p, pages[p].doc)' <=> \E v \in versions' : v.page = p /\ v.final /\ v.doc = d
          /\ Recording(p, pages[p].doc)' <=>
                \E w \in Workers : req'[w].pc = "finalizeSnapshot" /\ req'[w].page = p
                                   /\ req'[w].doc = d
      BY <2>2 DEF Recorded, Recording
    <3> HIDE DEF d
    <3>4. d \in Documents /\ (Recorded(p, d) \/ Recording(p, d))
      BY <3>1, <3>2 DEF d
    <3>5. ASSUME NEW e \in Documents, Recorded(p, e) \/ Recording(p, e)
          PROVE  \/ \E v \in versions' : v.page = p /\ v.final /\ v.doc = e
                 \/ \E w \in Workers : req'[w].pc = "finalizeSnapshot" /\ req'[w].page = p
                                       /\ req'[w].doc = e
      BY <1>2, <1>4, <3>2, <3>5, HistoryStep DEF Recorded, Recording
    <3>6. QED
      BY <3>3, <3>4, <3>5
  <2>3. QED
    BY <1>1, <1>2, <1>4, <2>1, <2>2, FinalStep
<1>5. faulty \/ CalmNext \/ UNCHANGED vars
  BY DEF AnsweredNext, CalmNext
<1>6. RecordInv /\ CalmNext => RecordInv'
  BY <1>4 DEF RecordInv
<1>7. QED
  BY <1>1, <1>2, <1>3, <1>5, <1>6 DEF CalmInv

(* Where no request breaks off and no save sets the status, the document a  *)
(* FINALIZED page links is in its history once the requests are answered,   *)
(* whatever else ran between the link and the snapshot.                    *)
THEOREM FinalizedRecorded ==
    "patchStatus" \notin Calls => (AnsweredSpec => []CalmFinalizedIsRecorded)
<1> SUFFICES ASSUME "patchStatus" \notin Calls
             PROVE  AnsweredSpec => []CalmFinalizedIsRecorded
  OBVIOUS
<1>1. AnsweredInit => CalmInv
  <2> SUFFICES ASSUME Init
               PROVE  TInv /\ UpdateInv /\ RecordInv
    BY DEF AnsweredInit, CalmInv
  <2>1. (\A w \in Workers : req[w].pc = "idle") /\ \A p \in Pages : pages[p].row = "unborn"
    BY DEF Init, Idle
  <2>2. QED
    BY <2>1, InitTInv DEF UpdateInv, RecordInv, Final, Stored
<1>2. CalmInv /\ [AnsweredNext]_<<vars, faulty>> => CalmInv'
  BY CalmStep
<1>3. CalmInv => CalmFinalizedIsRecorded
  <2> SUFFICES ASSUME RecordInv, \A w \in Workers : At(w, "idle"), NEW p \in Pages, Final(p)
               PROVE  Recorded(p, pages[p].doc)
    BY DEF CalmInv, CalmFinalizedIsRecorded, FinalizedIsRecorded, Final, Recorded
  <2>1. QED
    BY DEF RecordInv, Recording, At
<1>4. QED
  BY <1>1, <1>2, <1>3, PTL DEF AnsweredSpec
-----------------------------------------------------------------------------
(* What RequestsAnswered rests on besides fairness.                        *)

(* The statements a handler may still send, at most.                       *)
StatementsLeft(pc) ==
    CASE pc = "idle" -> 0
      [] pc \in {"updateWrite", "revertWrite", "finalizeLink", "acceptRead"} -> 2
      [] pc \in {"revertPick", "finalizeDocument", "acceptSnapshot"} -> 3
      [] pc \in {"finalizeQuota", "acceptClaim"} -> 4
      [] OTHER -> 1

Advances(w) == StatementsLeft(req'[w].pc) < StatementsLeft(req[w].pc)

(* Every statement brings its handler nearer the end, and no other request  *)
(* sets it back: no handler retries, loops or starts over.                 *)
RequestsAdvance ==
    [][\A w \in Workers : /\ Continue(w) => Advances(w)
                          /\ req'[w] # req[w] => At(w, "idle") \/ Advances(w)]_vars

(* The row of a proposal is locked by one transaction at a time, and what   *)
(* that transaction claimed still stands: whoever waits, waits for it alone. *)
LockHasOneOwner ==
    \A q \in Proposals : \A u, v \in Holders(q) : u = v /\ proposals[q].status = "PENDING"

LEMMA Advance ==
  ASSUME TInv, NEW w \in Workers, Continue(w)
  PROVE  Advances(w) /\ \A u \in Workers \ {w} : req'[u] = req[u]
<1>1. req \in [Workers -> Request] /\ req[w] \in Request /\ \A r \in Request : r.pc \in PC
  BY DEF TInv, TypeOK, Request
<1>2. ASSUME Finish(w), ~At(w, "idle")
      PROVE  Advances(w) /\ \A u \in Workers \ {w} : req'[u] = req[u]
  BY <1>1, <1>2 DEF Finish, Idle, At, Advances, StatementsLeft
<1>3. ASSUME NEW pc, Goto(w, pc), StatementsLeft(pc) < StatementsLeft(req[w].pc)
      PROVE  Advances(w) /\ \A u \in Workers \ {w} : req'[u] = req[u]
  <2>1. req'[w].pc = pc /\ \A u \in Workers \ {w} : req'[u] = req[u]
    BY <1>1, <1>3 DEF Goto, Request
  <2>2. QED
    BY <1>3, <2>1 DEF Advances
<1>4. CASE \/ CreateSnapshot(w) \/ UpdateSnapshot(w) \/ SoftDeleteWrite(w) \/ RevertSnapshot(w)
           \/ FinalizeSnapshot(w) \/ UnlockWrite(w) \/ ProposeInsert(w) \/ AcceptCommit(w)
           \/ UploadInsert(w) \/ DeleteDocument(w)
  BY <1>2, <1>4
  DEF CreateSnapshot, UpdateSnapshot, SoftDeleteWrite, RevertSnapshot, FinalizeSnapshot,
      UnlockWrite, ProposeInsert, AcceptCommit, UploadInsert, DeleteDocument, At
<1>5. CASE WriteRejected(w)
  BY <1>2, <1>5 DEF WriteRejected, At
<1>6. CASE UpdateWrite(w) \/ RevertWrite(w) \/ FinalizeQuota(w) \/ FinalizeLink(w)
  <2>1. /\ StatementsLeft("updateSnapshot") < StatementsLeft("updateWrite")
        /\ StatementsLeft("revertSnapshot") < StatementsLeft("revertWrite")
        /\ StatementsLeft("finalizeDocument") < StatementsLeft("finalizeQuota")
        /\ StatementsLeft("finalizeSnapshot") < StatementsLeft("finalizeLink")
    BY DEF StatementsLeft
  <2>2. QED
    BY <1>2, <1>3, <1>6, <2>1 DEF UpdateWrite, RevertWrite, FinalizeQuota, FinalizeLink, At
<1>7. CASE RevertPick(w) \/ FinalizeDocument(w) \/ AcceptClaim(w) \/ AcceptSnapshot(w)
           \/ AcceptRead(w)
  <2>1. CASE Finish(w)
    BY <1>2, <1>7, <2>1
    DEF RevertPick, FinalizeDocument, AcceptClaim, AcceptSnapshot, AcceptRead, At
  <2>2. CASE ~Finish(w)
    <3>1. /\ \/ At(w, "revertPick") /\ req'[w].pc = "revertWrite"
             \/ At(w, "finalizeDocument") /\ req'[w].pc = "finalizeLink"
             \/ At(w, "acceptClaim") /\ req'[w].pc = "acceptSnapshot"
             \/ At(w, "acceptSnapshot") /\ req'[w].pc = "acceptRead"
             \/ At(w, "acceptRead") /\ req'[w].pc = "acceptCommit"
          /\ \A u \in Workers \ {w} : req'[u] = req[u]
      BY <1>1, <1>7, <2>2
      DEF RevertPick, FinalizeDocument, AcceptClaim, AcceptSnapshot, AcceptRead, At, Request
    <3>2. QED
      BY <3>1 DEF At, Advances, StatementsLeft
  <2>3. QED
    BY <2>1, <2>2
<1>8. QED
  BY <1>4, <1>5, <1>6, <1>7 DEF Continue

(* Each request ends after at most five statements of its own: nothing makes *)
(* it send one again.                                                      *)
THEOREM RequestsGoForward == Spec => RequestsAdvance
<1>1. TInv /\ [Next]_vars =>
        [\A w \in Workers : /\ Continue(w) => Advances(w)
                            /\ req'[w] # req[w] => At(w, "idle") \/ Advances(w)]_vars
  <2> SUFFICES ASSUME TInv, Next, NEW w \in Workers
               PROVE  /\ Continue(w) => Advances(w)
                      /\ req'[w] # req[w] => At(w, "idle") \/ Advances(w)
    OBVIOUS
  <2>1. Continue(w) => Advances(w)
    BY Advance
  <2>2. ASSUME NEW u \in Workers, Arrive(u)
        PROVE  req'[w] # req[w] => At(w, "idle")
    BY <2>2, ArriveStep DEF TInv, TypeOK
  <2>3. ASSUME NEW u \in Workers, Continue(u)
        PROVE  req'[w] # req[w] => Advances(w)
    BY <2>3, Advance
  <2>4. ASSUME NEW u \in Workers, Fault(u)
        PROVE  req'[w] # req[w] => Advances(w)
    BY <2>4 DEF Fault, Finish, Idle, At, TInv, TypeOK, Request, Advances, StatementsLeft
  <2>5. ASSUME DeleteSpace
        PROVE  req' = req
    BY <2>5 DEF DeleteSpace
  <2>6. QED
    BY <2>1, <2>2, <2>3, <2>4, <2>5 DEF Next
<1>2. ReviewInv => TInv
  BY DEF ReviewInv
<1>3. QED
  BY <1>1, <1>2, ReviewInvariant, PTL DEF Spec, RequestsAdvance

(* Two accepts of a proposal never hold its row at once, and nothing decides *)
(* it or takes it away while one does.                                     *)
THEOREM LocksExclude == Spec => []LockHasOneOwner
<1>1. ReviewInv => LockHasOneOwner
  BY DEF ReviewInv, HolderInv, HolderPCs, Holders, LockHasOneOwner
<1>2. QED
  BY <1>1, ReviewInvariant, PTL
=============================================================================
