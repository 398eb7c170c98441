------------------------ MODULE DraftLifecycleProofs ------------------------
(***************************************************************************)
(* Theorems about DraftLifecycle for every number of requests, pages,      *)
(* proposals, documents, every text and every limit.                       *)
(***************************************************************************)
EXTENDS DraftLifecycle, TLAPS

-----------------------------------------------------------------------------
(* The inductive invariant.                                                *)

PagePCs == {"createSnapshot", "updateWrite", "updateSnapshot", "revertPick",
            "revertWrite", "revertSnapshot", "finalizeQuota", "finalizeDocument",
            "finalizeLink", "finalizeSnapshot", "unlockWrite", "deleteWrite",
            "proposeInsert", "acceptSnapshot", "acceptRead", "acceptCommit"}
ContentPCs == {"createSnapshot", "updateSnapshot", "revertWrite", "revertSnapshot",
               "finalizeQuota", "finalizeDocument", "finalizeLink",
               "finalizeSnapshot", "acceptCommit"}
HolderPCs == {"acceptSnapshot", "acceptRead", "acceptCommit"}
ReviewPCs == HolderPCs \cup {"acceptClaim"}
PublisherPCs == {"finalizeLink", "finalizeSnapshot"}

(* The locals a handler has assigned by the time it reaches a statement.   *)
Assigned(r) ==
    /\ r.pc \in PagePCs => r.page \in Pages
    /\ r.pc \in ContentPCs => r.content \in Content
    /\ r.pc \in {"acceptRead", "acceptCommit"} => r.base \in Content
    /\ r.pc \in ReviewPCs => r.prop \in Proposals
    /\ r.pc \in PublisherPCs \cup {"deleteDocument"} => r.doc \in Documents

LocalsOK == \A w \in Workers : Assigned(req[w])

(* A finalize between its insert and its snapshot owns the document: it     *)
(* shows the text the handler holds, and nothing else names it.            *)
PublisherInv ==
    \A w \in Workers : req[w].pc \in PublisherPCs =>
        /\ docs[req[w].doc].row # "unborn"
        /\ docs[req[w].doc].content = req[w].content
        /\ \A v \in versions : v.final => v.doc # req[w].doc
        /\ \A u \in Workers : u # w /\ req[u].pc \in PublisherPCs => req[u].doc # req[w].doc

(* A transaction that claimed a proposal finds it PENDING until it commits, *)
(* and is the only one.                                                    *)
HolderInv ==
    \A w \in Workers : req[w].pc \in HolderPCs =>
        /\ proposals[req[w].prop].status = "PENDING"
        /\ proposals[req[w].prop].page = req[w].page
        /\ \A u \in Workers : u # w /\ req[u].pc \in HolderPCs => req[u].prop # req[w].prop

(* A row that was inserted is complete, and stays known to its handlers.   *)
ProposalsOK ==
    /\ \A q \in Proposals : proposals[q].status # "unborn" =>
          /\ proposals[q].page \in Pages
          /\ proposals[q].original \in Phrases
          /\ proposals[q].suggested \in Phrases
    /\ \A w \in Workers : req[w].pc \in ReviewPCs =>
          proposals[req[w].prop].status # "unborn"

TInv == TypeOK /\ LocalsOK /\ ProposalsOK

-----------------------------------------------------------------------------
(* A step of one request that leaves it with the locals r.                 *)
LEMMA RequestStep ==
  ASSUME TInv, NEW w \in Workers, NEW r \in Request, Assigned(r),
         r.pc \in ReviewPCs => proposals[r.prop].status # "unborn",
         req' = [req EXCEPT ![w] = r],
         pages' \in [Pages -> PageRow],
         versions' \subseteq Version,
         docs' \in [Documents -> DocRow],
         proposals' = proposals
  PROVE  TInv'
<1>1. TypeOK'
  BY DEF TInv, TypeOK
<1>2. LocalsOK'
  BY DEF TInv, TypeOK, LocalsOK
<1>3. ProposalsOK'
  BY DEF TInv, TypeOK, ProposalsOK, ReviewPCs
<1>4. QED
  BY <1>1, <1>2, <1>3 DEF TInv

LEMMA IdleAssigned == Idle \in Request /\ Assigned(Idle) /\ Idle.pc \notin ReviewPCs
  BY DEF Idle, Request, PC, Assigned, ReviewPCs, PagePCs, ContentPCs, HolderPCs, PublisherPCs

LEMMA InitTInv == Init => TInv
<1> SUFFICES ASSUME Init
             PROVE  TInv
  OBVIOUS
<1>1. TypeOK
  BY IdleAssigned DEF Init, TypeOK, PageRow, DocRow, ProposalRow, Status, Content
<1>2. LocalsOK /\ ProposalsOK
  BY IdleAssigned DEF Init, LocalsOK, ProposalsOK, ReviewPCs
<1>3. QED
  BY <1>1, <1>2 DEF TInv

(* A request that ends, with writes that keep the tables well typed.       *)
LEMMA FinishStep ==
  ASSUME TInv, NEW w \in Workers, Finish(w),
         pages' \in [Pages -> PageRow],
         versions' \subseteq Version,
         docs' \in [Documents -> DocRow],
         proposals' = proposals
  PROVE  TInv'
  BY IdleAssigned, RequestStep DEF Finish

LEMMA MilestoneType ==
  ASSUME NEW p \in Pages, NEW c \in Content
  PROVE  MilestoneOf(p, c) \in Version
  BY DEF MilestoneOf, Version

(* A handler arrives, or moves on, without writing a table.                *)
LEMMA MoveStep ==
  ASSUME TInv, NEW w \in Workers, NEW r \in Request, Assigned(r),
         r.pc \in ReviewPCs => proposals[r.prop].status # "unborn",
         req' = [req EXCEPT ![w] = r],
         UNCHANGED <<pages, versions, proposals, docs>>
  PROVE  TInv'
  BY RequestStep DEF TInv, TypeOK

LEMMA EndStep ==
  ASSUME TInv, NEW w \in Workers, Finish(w),
         UNCHANGED <<pages, versions, proposals, docs>>
  PROVE  TInv'
  BY FinishStep DEF TInv, TypeOK

-----------------------------------------------------------------------------
LEMMA CreateTInv ==
  ASSUME TInv, NEW w \in Workers, NEW p \in Pages, NEW c \in {NONE} \cup Content,
         NEW d \in {NONE} \cup Documents, CreateInsert(w, p, c, d)
  PROVE  TInv'
<1> DEFINE r == [Idle EXCEPT !.pc = "createSnapshot", !.page = p, !.content = c]
<1>1. pages' \in [Pages -> PageRow]
  BY DEF CreateInsert, TInv, TypeOK, PageRow, Status, Content
<1>2. CASE c = NONE
  BY <1>1, <1>2 DEF CreateInsert, TInv, TypeOK, LocalsOK, ProposalsOK
<1>3. CASE c # NONE
  <2>1. r \in Request /\ Assigned(r) /\ r.pc \notin ReviewPCs
    BY <1>3 DEF Idle, Request, PC, Assigned, ReviewPCs, PagePCs, ContentPCs, HolderPCs,
       PublisherPCs
  <2>2. QED
    BY <1>1, <1>3, <2>1, RequestStep DEF CreateInsert, TInv, TypeOK
<1>4. QED
  BY <1>2, <1>3

(* The snapshot steps of create, update and revert insert one milestone.   *)
LEMMA MilestoneTInv ==
  ASSUME TInv, NEW w \in Workers,
         CreateSnapshot(w) \/ UpdateSnapshot(w) \/ RevertSnapshot(w)
  PROVE  TInv'
<1>1. req[w].page \in Pages /\ req[w].content \in Content
  BY DEF CreateSnapshot, UpdateSnapshot, RevertSnapshot, At, TInv, LocalsOK, Assigned, PagePCs,
     ContentPCs
<1>2. versions' \subseteq Version
  BY <1>1, MilestoneType DEF CreateSnapshot, UpdateSnapshot, RevertSnapshot, TInv, TypeOK
<1>3. QED
  BY <1>2, FinishStep DEF CreateSnapshot, UpdateSnapshot, RevertSnapshot, TInv, TypeOK

LEMMA UpdateTInv ==
  ASSUME TInv, NEW w \in Workers,
         \/ \E p \in Pages, c \in {NONE} \cup Content, s \in {NONE} \cup Status :
               UpdateRead(w, p, c, s)
         \/ UpdateWrite(w)
  PROVE  TInv'
<1>1. ASSUME NEW p \in Pages, NEW c \in {NONE} \cup Content, NEW s \in {NONE} \cup Status,
             UpdateRead(w, p, c, s)
      PROVE  TInv'
  <2> DEFINE r == [Idle EXCEPT !.pc = "updateWrite", !.page = p, !.seen = pages[p].status,
                               !.content = c, !.status = s]
  <2>1. r \in Request /\ Assigned(r) /\ r.pc \notin ReviewPCs
    BY DEF TInv, TypeOK, PageRow, Idle, Request, PC, Assigned, ReviewPCs, PagePCs, ContentPCs,
       HolderPCs, PublisherPCs
  <2>2. QED
    BY <1>1, <2>1, MoveStep DEF UpdateRead
<1>2. CASE UpdateWrite(w)
  <2> DEFINE r == [req[w] EXCEPT !.pc = "updateSnapshot"]
  <2>1. req[w].page \in Pages /\ req[w] \in Request /\ Assigned(req[w])
    BY <1>2 DEF UpdateWrite, At, TInv, TypeOK, LocalsOK, Assigned, PagePCs
  <2>2. UpdatedStatus(w) \in Status
    BY <2>1 DEF UpdatedStatus, TInv, TypeOK, PageRow, Request, Status
  <2>3. pages' \in [Pages -> PageRow]
    <3>1. (IF req[w].content = NONE THEN pages[req[w].page].content ELSE req[w].content)
             \in Content
      BY <2>1 DEF TInv, TypeOK, PageRow, Request
    <3>2. QED
      BY <1>2, <2>1, <2>2, <3>1 DEF UpdateWrite, TInv, TypeOK, PageRow
  <2>4. CASE req[w].content = NONE
    BY <1>2, <2>3, <2>4, FinishStep DEF UpdateWrite, TInv, TypeOK
  <2>5. CASE req[w].content # NONE
    <3>1. r \in Request /\ Assigned(r) /\ r.pc \notin ReviewPCs
      BY <2>1, <2>5 DEF Request, PC, Assigned, ReviewPCs, PagePCs, ContentPCs, HolderPCs,
         PublisherPCs
    <3>2. req' = [req EXCEPT ![w] = r]
      BY <1>2, <2>5 DEF UpdateWrite, Goto
    <3>3. QED
      BY <1>2, <2>3, <3>1, <3>2, RequestStep DEF UpdateWrite, TInv, TypeOK
  <2>6. QED
    BY <2>4, <2>5
<1>3. QED
  BY <1>1, <1>2

LEMMA RevertTInv ==
  ASSUME TInv, NEW w \in Workers,
         (\E p \in Pages : RevertRead(w, p)) \/ RevertPick(w) \/ RevertWrite(w)
  PROVE  TInv'
<1>1. ASSUME NEW p \in Pages, RevertRead(w, p)
      PROVE  TInv'
  <2> DEFINE r == [Idle EXCEPT !.pc = "revertPick", !.page = p]
  <2>1. r \in Request /\ Assigned(r) /\ r.pc \notin ReviewPCs
    BY DEF Idle, Request, PC, Assigned, ReviewPCs, PagePCs, ContentPCs, HolderPCs, PublisherPCs
  <2>2. QED
    BY <1>1, <2>1, MoveStep DEF RevertRead
<1>2. ASSUME RevertPick(w), NEW v \in versions, v.page = req[w].page,
             req' = [req EXCEPT ![w].pc = "revertWrite", ![w].content = v.content]
      PROVE  TInv'
  <2> DEFINE r == [req[w] EXCEPT !.pc = "revertWrite", !.content = v.content]
  <2>1. v.content \in Content /\ req[w].page \in Pages /\ req[w] \in Request
    BY <1>2 DEF RevertPick, At, TInv, TypeOK, LocalsOK, Assigned, Version, PagePCs
  <2>2. r \in Request /\ Assigned(r) /\ r.pc \notin ReviewPCs
    <3>1. r \in Request
      BY <2>1 DEF Request, PC
    <3>2. QED
      BY <2>1, <3>1 DEF Request, Assigned, ReviewPCs, PagePCs, ContentPCs, HolderPCs,
         PublisherPCs
  <2>3. req' = [req EXCEPT ![w] = r]
    BY <1>2 DEF TInv, TypeOK, Request
  <2>4. QED
    BY <1>2, <2>2, <2>3, MoveStep DEF RevertPick
<1>3. CASE RevertPick(w)
  BY <1>2, <1>3, EndStep DEF RevertPick
<1>4. CASE RevertWrite(w)
  <2> DEFINE r == [req[w] EXCEPT !.pc = "revertSnapshot"]
  <2>1. req[w].page \in Pages /\ req[w].content \in Content /\ req[w] \in Request
    BY <1>4 DEF RevertWrite, At, TInv, TypeOK, LocalsOK, Assigned, PagePCs, ContentPCs
  <2>2. pages' \in [Pages -> PageRow]
    BY <1>4, <2>1 DEF RevertWrite, TInv, TypeOK, PageRow, Status
  <2>3. r \in Request /\ Assigned(r) /\ r.pc \notin ReviewPCs
    BY <2>1 DEF Request, PC, Assigned, ReviewPCs, PagePCs, ContentPCs, HolderPCs, PublisherPCs
  <2>4. req' = [req EXCEPT ![w] = r]
    BY <1>4 DEF RevertWrite, Goto
  <2>5. QED
    BY <1>4, <2>2, <2>3, <2>4, RequestStep DEF RevertWrite, TInv, TypeOK
<1>5. QED
  BY <1>1, <1>3, <1>4

LEMMA FinalizeTInv ==
  ASSUME TInv, NEW w \in Workers,
         \/ \E p \in Pages : FinalizeRead(w, p)
         \/ FinalizeQuota(w) \/ FinalizeDocument(w) \/ FinalizeLink(w) \/ FinalizeSnapshot(w)
  PROVE  TInv'
<1>1. ASSUME NEW p \in Pages, FinalizeRead(w, p)
      PROVE  TInv'
  <2> DEFINE r == [Idle EXCEPT !.pc = "finalizeQuota", !.page = p,
                               !.content = pages[p].content]
  <2>1. pages[p].content \in Content
    BY DEF TInv, TypeOK, PageRow
  <2>2. r \in Request /\ Assigned(r) /\ r.pc \notin ReviewPCs
    BY <2>1 DEF Idle, Request, PC, Assigned, ReviewPCs, PagePCs, ContentPCs, HolderPCs,
       PublisherPCs
  <2>3. QED
    BY <1>1, <2>2, MoveStep DEF FinalizeRead
<1>2. CASE FinalizeQuota(w)
  <2> DEFINE r == [req[w] EXCEPT !.pc = "finalizeDocument"]
  <2>1. req[w].page \in Pages /\ req[w].content \in Content /\ req[w] \in Request
    BY <1>2 DEF FinalizeQuota, At, TInv, TypeOK, LocalsOK, Assigned, PagePCs, ContentPCs
  <2>2. r \in Request /\ Assigned(r) /\ r.pc \notin ReviewPCs
    BY <2>1 DEF Request, PC, Assigned, ReviewPCs, PagePCs, ContentPCs, HolderPCs, PublisherPCs
  <2>3. CASE QuotaLeft
    <3>1. req' = [req EXCEPT ![w] = r]
      BY <1>2, <2>3 DEF FinalizeQuota, Goto
    <3>2. QED
      BY <1>2, <2>2, <3>1, MoveStep DEF FinalizeQuota
  <2>4. QED
    BY <1>2, <2>3, EndStep DEF FinalizeQuota
<1>3. ASSUME FinalizeDocument(w), NEW d \in Documents,
             docs' = [docs EXCEPT ![d] = [row |-> "live", content |-> req[w].content]],
             req' = [req EXCEPT ![w].pc = "finalizeLink", ![w].doc = d]
      PROVE  TInv'
  <2> DEFINE r == [req[w] EXCEPT !.pc = "finalizeLink", !.doc = d]
  <2>1. req[w].page \in Pages /\ req[w].content \in Content /\ req[w] \in Request
    BY <1>3 DEF FinalizeDocument, At, TInv, TypeOK, LocalsOK, Assigned, PagePCs, ContentPCs
  <2>2. r \in Request /\ Assigned(r) /\ r.pc \notin ReviewPCs
    <3>1. r \in Request
      BY <2>1 DEF Request, PC
    <3>2. QED
      BY <2>1, <3>1 DEF Request, Assigned, ReviewPCs, PagePCs, ContentPCs, HolderPCs,
         PublisherPCs
  <2>3. req' = [req EXCEPT ![w] = r]
    BY <1>3 DEF TInv, TypeOK, Request
  <2>4. docs' \in [Documents -> DocRow]
    BY <1>3, <2>1 DEF TInv, TypeOK, DocRow
  <2>5. QED
    BY <1>3, <2>2, <2>3, <2>4, RequestStep DEF FinalizeDocument, TInv, TypeOK
<1>4. CASE FinalizeLink(w)
  <2> DEFINE r == [req[w] EXCEPT !.pc = "finalizeSnapshot"]
  <2>1. /\ req[w].page \in Pages /\ req[w].content \in Content
        /\ req[w].doc \in Documents /\ req[w] \in Request
    BY <1>4 DEF FinalizeLink, At, TInv, TypeOK, LocalsOK, Assigned, PagePCs, ContentPCs,
       PublisherPCs
  <2>2. pages' \in [Pages -> PageRow]
    BY <1>4, <2>1 DEF FinalizeLink, TInv, TypeOK, PageRow, Status
  <2>3. r \in Request /\ Assigned(r) /\ r.pc \notin ReviewPCs
    BY <2>1 DEF Request, PC, Assigned, ReviewPCs, PagePCs, ContentPCs, HolderPCs, PublisherPCs
  <2>4. req' = [req EXCEPT ![w] = r]
    BY <1>4 DEF FinalizeLink, Goto
  <2>5. QED
    BY <1>4, <2>2, <2>3, <2>4, RequestStep DEF FinalizeLink, TInv, TypeOK
<1>5. CASE FinalizeSnapshot(w)
  <2>1. req[w].page \in Pages /\ req[w].content \in Content /\ req[w].doc \in Documents
    BY <1>5 DEF FinalizeSnapshot, At, TInv, LocalsOK, Assigned, PagePCs, ContentPCs,
       PublisherPCs
  <2>2. versions' \subseteq Version
    <3>1. FinalizedOf(req[w].page, req[w].content, req[w].doc) \in Version
      BY <2>1 DEF FinalizedOf, Version
    <3>2. QED
      BY <1>5, <3>1 DEF FinalizeSnapshot, TInv, TypeOK
  <2>3. QED
    BY <1>5, <2>2, FinishStep DEF FinalizeSnapshot, TInv, TypeOK
<1>6. QED
  BY <1>1, <1>2, <1>3, <1>4, <1>5 DEF FinalizeDocument

(* unlock and softDelete: a read, then one field of the page.              *)
LEMMA FlagTInv ==
  ASSUME TInv, NEW w \in Workers,
         \/ \E p \in Pages : UnlockRead(w, p) \/ SoftDeleteRead(w, p) \/ ProposeRead(w, p)
         \/ UnlockWrite(w) \/ SoftDeleteWrite(w)
  PROVE  TInv'
<1>1. ASSUME NEW p \in Pages, NEW pc \in {"unlockWrite", "deleteWrite", "proposeInsert"},
             req' = [req EXCEPT ![w] = [Idle EXCEPT !.pc = pc, !.page = p]],
             UNCHANGED <<pages, versions, proposals, docs>>
      PROVE  TInv'
  <2> DEFINE r == [Idle EXCEPT !.pc = pc, !.page = p]
  <2>1. r \in Request /\ Assigned(r) /\ r.pc \notin ReviewPCs
    BY DEF Idle, Request, PC, Assigned, ReviewPCs, PagePCs, ContentPCs, HolderPCs, PublisherPCs
  <2>2. QED
    BY <1>1, <2>1, MoveStep
<1>2. ASSUME NEW p \in Pages, UnlockRead(w, p) \/ SoftDeleteRead(w, p) \/ ProposeRead(w, p)
      PROVE  TInv'
  BY <1>1, <1>2 DEF UnlockRead, SoftDeleteRead, ProposeRead
<1>3. CASE UnlockWrite(w) \/ SoftDeleteWrite(w)
  <2>1. req[w].page \in Pages
    BY <1>3 DEF UnlockWrite, SoftDeleteWrite, At, TInv, LocalsOK, Assigned, PagePCs
  <2>2. pages' \in [Pages -> PageRow]
    BY <1>3, <2>1 DEF UnlockWrite, SoftDeleteWrite, TInv, TypeOK, PageRow, Status
  <2>3. QED
    BY <1>3, <2>2, FinishStep DEF UnlockWrite, SoftDeleteWrite, TInv, TypeOK
<1>4. QED
  BY <1>2, <1>3

LEMMA ReviewTInv ==
  ASSUME TInv, NEW w \in Workers,
         \/ \E q \in Proposals : AcceptBegin(w, q)
         \/ AcceptClaim(w) \/ AcceptSnapshot(w) \/ AcceptRead(w)
  PROVE  TInv'
<1>1. ASSUME NEW q \in Proposals, AcceptBegin(w, q)
      PROVE  TInv'
  <2> DEFINE r == [Idle EXCEPT !.pc = "acceptClaim", !.prop = q]
  <2>1. r \in Request /\ Assigned(r)
    BY DEF Idle, Request, PC, Assigned, ReviewPCs, PagePCs, ContentPCs, HolderPCs, PublisherPCs
  <2>2. r.prop = q
    BY DEF Idle
  <2>3. QED
    BY <1>1, <2>1, <2>2, MoveStep DEF AcceptBegin
<1>2. CASE AcceptClaim(w)
  <2> DEFINE q == req[w].prop
             r == [req[w] EXCEPT !.pc = "acceptSnapshot", !.page = proposals[q].page]
  <2>1. q \in Proposals /\ req[w] \in Request /\ proposals[q].status # "unborn"
    BY <1>2 DEF AcceptClaim, At, TInv, TypeOK, LocalsOK, ProposalsOK, Assigned, ReviewPCs
  <2>2. proposals[q].page \in Pages
    BY <2>1 DEF TInv, ProposalsOK
  <2>3. r \in Request /\ Assigned(r) /\ r.prop = q
    <3>1. r \in Request /\ r.prop = q
      BY <2>1, <2>2 DEF Request, PC
    <3>2. QED
      BY <2>1, <2>2, <3>1 DEF Request, Assigned, ReviewPCs, PagePCs, ContentPCs, HolderPCs,
         PublisherPCs
  <2>4. CASE proposals[q].status = "PENDING"
    <3>1. req' = [req EXCEPT ![w] = r]
      BY <1>2, <2>1, <2>4 DEF AcceptClaim, TInv, TypeOK, Request
    <3>2. QED
      BY <1>2, <2>1, <2>3, <3>1, MoveStep DEF AcceptClaim
  <2>5. QED
    BY <1>2, <2>4, EndStep DEF AcceptClaim
<1>3. CASE AcceptSnapshot(w)
  <2> DEFINE p == req[w].page
             r == [req[w] EXCEPT !.pc = "acceptRead", !.base = pages[p].content]
  <2>1. /\ p \in Pages /\ req[w] \in Request /\ req[w].prop \in Proposals
        /\ proposals[req[w].prop].status # "unborn"
    BY <1>3 DEF AcceptSnapshot, At, TInv, TypeOK, LocalsOK, ProposalsOK, Assigned, ReviewPCs,
       PagePCs, HolderPCs
  <2>2. pages[p].content \in Content
    BY <2>1 DEF TInv, TypeOK, PageRow
  <2>3. r \in Request /\ Assigned(r) /\ r.prop = req[w].prop
    <3>1. r \in Request /\ r.prop = req[w].prop
      BY <2>1, <2>2 DEF Request, PC
    <3>2. QED
      BY <2>1, <2>2, <3>1 DEF Request, Assigned, ReviewPCs, PagePCs, ContentPCs, HolderPCs,
         PublisherPCs
  <2>4. CASE Live(p)
    <3>1. req' = [req EXCEPT ![w] = r]
      BY <1>3, <2>1, <2>4 DEF AcceptSnapshot, TInv, TypeOK, Request
    <3>2. QED
      BY <1>3, <2>1, <2>3, <3>1, MoveStep DEF AcceptSnapshot
  <2>5. QED
    BY <1>3, <2>4, EndStep DEF AcceptSnapshot
<1>4. CASE AcceptRead(w)
  <2> DEFINE p == req[w].page
             q == req[w].prop
             c == Replaced(pages[p].content, q)
             r == [req[w] EXCEPT !.pc = "acceptCommit", !.content = c]
  <2>1. /\ p \in Pages /\ req[w] \in Request /\ q \in Proposals /\ req[w].base \in Content
        /\ proposals[q].status # "unborn"
    BY <1>4 DEF AcceptRead, At, TInv, TypeOK, LocalsOK, ProposalsOK, Assigned, ReviewPCs,
       PagePCs, HolderPCs
  <2>2. c \in Content
    <3>1. pages[p].content \in SUBSET Phrases
      BY <2>1 DEF TInv, TypeOK, PageRow, Content
    <3>2. proposals[q].suggested \in Phrases
      BY <2>1 DEF TInv, ProposalsOK
    <3>3. QED
      BY <3>1, <3>2 DEF Replaced, Content
  <2>3. r \in Request /\ Assigned(r) /\ r.prop = q
    <3> HIDE DEF c
    <3>1. r \in Request /\ r.prop = q
      BY <2>1, <2>2 DEF Request, PC
    <3>2. QED
      BY <2>1, <2>2, <3>1 DEF Request, Assigned, ReviewPCs, PagePCs, ContentPCs, HolderPCs,
         PublisherPCs
  <2>4. CASE Live(p) /\ Occurs(pages[p].content, q)
    <3>1. req' = [req EXCEPT ![w] = r]
      BY <1>4, <2>1, <2>4 DEF AcceptRead, TInv, TypeOK, Request
    <3>2. QED
      BY <1>4, <2>1, <2>3, <3>1, MoveStep DEF AcceptRead
  <2>5. QED
    BY <1>4, <2>4, EndStep DEF AcceptRead
<1>5. QED
  BY <1>1, <1>2, <1>3, <1>4

(* A step that also writes the proposals: a row that exists keeps its page  *)
(* and its texts, and a request of the review knows a row that exists.     *)
LEMMA ProposalStep ==
  ASSUME TInv, proposals' \in [Proposals -> ProposalRow],
         \A q \in Proposals : proposals[q].status # "unborn" =>
             /\ proposals'[q].status # "unborn"
             /\ proposals'[q].page = proposals[q].page
             /\ proposals'[q].original = proposals[q].original
             /\ proposals'[q].suggested = proposals[q].suggested,
         \A q \in Proposals : proposals'[q] = proposals[q] \/ proposals[q].status # "unborn" \/
             /\ proposals'[q].page \in Pages
             /\ proposals'[q].original \in Phrases
             /\ proposals'[q].suggested \in Phrases,
         req' = req \/ \E w \in Workers : Finish(w),
         pages' \in [Pages -> PageRow],
         versions' \subseteq Version,
         docs' \in [Documents -> DocRow]
  PROVE  TInv'
<1>1. TypeOK'
  BY IdleAssigned DEF TInv, TypeOK, Finish
<1>2. LocalsOK'
  BY IdleAssigned DEF TInv, TypeOK, LocalsOK, Finish
<1>3. \A u \in Workers : req'[u].pc \in ReviewPCs => req'[u] = req[u]
  BY IdleAssigned DEF TInv, TypeOK, Finish
<1>4. \A u \in Workers : req[u].pc \in ReviewPCs => req[u].prop \in Proposals
  BY DEF TInv, LocalsOK, Assigned
<1>5. ProposalsOK'
  BY <1>3, <1>4 DEF TInv, ProposalsOK
<1>6. QED
  BY <1>1, <1>2, <1>5 DEF TInv

LEMMA DecideTInv ==
  ASSUME TInv, NEW w \in Workers,
         \/ ProposeInsert(w) \/ AcceptCommit(w)
         \/ \E q \in Proposals : RejectProposal(w, q)
  PROVE  TInv'
<1>1. CASE ProposeInsert(w)
  <2>1. PICK q \in Proposals, o \in Phrases, s \in Phrases :
           /\ proposals[q].status = "unborn"
           /\ proposals' = [proposals EXCEPT ![q] =
                  [status |-> "PENDING", page |-> req[w].page, original |-> o,
                   suggested |-> s]]
    BY <1>1 DEF ProposeInsert
  <2>2. req[w].page \in Pages
    BY <1>1 DEF ProposeInsert, At, TInv, LocalsOK, Assigned, PagePCs
  <2>3. proposals' \in [Proposals -> ProposalRow]
    BY <2>1, <2>2 DEF TInv, TypeOK, ProposalRow
  <2>4. QED
    BY <1>1, <2>1, <2>2, <2>3, ProposalStep DEF ProposeInsert, TInv, TypeOK
<1>2. CASE AcceptCommit(w)
  <2>1. /\ req[w].page \in Pages /\ req[w].content \in Content
        /\ req[w].base \in Content /\ req[w].prop \in Proposals
        /\ proposals[req[w].prop].status # "unborn"
    BY <1>2 DEF AcceptCommit, At, TInv, LocalsOK, ProposalsOK, Assigned, PagePCs, ContentPCs,
       ReviewPCs, HolderPCs
  <2>2. proposals' \in [Proposals -> ProposalRow]
    BY <1>2, <2>1 DEF AcceptCommit, TInv, TypeOK, ProposalRow
  <2>3. pages' \in [Pages -> PageRow]
    BY <1>2, <2>1 DEF AcceptCommit, TInv, TypeOK, PageRow, Status
  <2>4. versions' \subseteq Version
    BY <1>2, <2>1, MilestoneType DEF AcceptCommit, TInv, TypeOK
  <2>5. \A q \in Proposals : proposals[q].status # "unborn" =>
             /\ proposals'[q].status # "unborn"
             /\ proposals'[q].page = proposals[q].page
             /\ proposals'[q].original = proposals[q].original
             /\ proposals'[q].suggested = proposals[q].suggested
    BY <1>2 DEF AcceptCommit, TInv, TypeOK, ProposalRow
  <2>6. \A q \in Proposals : proposals'[q] = proposals[q] \/ proposals[q].status # "unborn"
    BY <1>2, <2>1 DEF AcceptCommit, TInv, TypeOK
  <2>7. QED
    BY <1>2, <2>2, <2>3, <2>4, <2>5, <2>6, ProposalStep DEF AcceptCommit, TInv, TypeOK
<1>3. ASSUME NEW q \in Proposals, RejectProposal(w, q)
      PROVE  TInv'
  <2>1. proposals' \in [Proposals -> ProposalRow]
    BY <1>3 DEF RejectProposal, TInv, TypeOK, ProposalRow
  <2>2. \A x \in Proposals : proposals[x].status # "unborn" =>
             /\ proposals'[x].status # "unborn"
             /\ proposals'[x].page = proposals[x].page
             /\ proposals'[x].original = proposals[x].original
             /\ proposals'[x].suggested = proposals[x].suggested
    BY <1>3 DEF RejectProposal, TInv, TypeOK, ProposalRow
  <2>3. \A x \in Proposals : proposals'[x] = proposals[x] \/ proposals[x].status # "unborn"
    BY <1>3 DEF RejectProposal, TInv, TypeOK
  <2>4. QED
    BY <1>3, <2>1, <2>2, <2>3, ProposalStep DEF RejectProposal, TInv, TypeOK
<1>4. QED
  BY <1>1, <1>2, <1>3

LEMMA DocumentTInv ==
  ASSUME TInv, NEW w \in Workers,
         \/ UploadQuota(w) \/ UploadInsert(w) \/ DeleteDocument(w)
         \/ \E d \in Documents : DeleteDocumentRead(w, d)
  PROVE  TInv'
<1>1. CASE UploadQuota(w)
  <2> DEFINE r == [Idle EXCEPT !.pc = "uploadInsert"]
  <2>1. r \in Request /\ Assigned(r) /\ r.pc \notin ReviewPCs
    BY DEF Idle, Request, PC, Assigned, ReviewPCs, PagePCs, ContentPCs, HolderPCs, PublisherPCs
  <2>2. QED
    BY <1>1, <2>1, MoveStep DEF UploadQuota
<1>2. CASE UploadInsert(w)
  <2>1. docs' \in [Documents -> DocRow]
    BY <1>2 DEF UploadInsert, TInv, TypeOK, DocRow
  <2>2. QED
    BY <1>2, <2>1, FinishStep DEF UploadInsert, TInv, TypeOK
<1>3. ASSUME NEW d \in Documents, DeleteDocumentRead(w, d)
      PROVE  TInv'
  <2> DEFINE r == [Idle EXCEPT !.pc = "deleteDocument", !.doc = d]
  <2>1. r \in Request /\ Assigned(r) /\ r.pc \notin ReviewPCs
    BY DEF Idle, Request, PC, Assigned, ReviewPCs, PagePCs, ContentPCs, HolderPCs, PublisherPCs
  <2>2. QED
    BY <1>3, <2>1, MoveStep DEF DeleteDocumentRead
<1>4. CASE DeleteDocument(w)
  <2>1. req[w].doc \in Documents
    BY <1>4 DEF DeleteDocument, At, TInv, LocalsOK, Assigned
  <2>2. docs' \in [Documents -> DocRow]
    BY <1>4, <2>1 DEF DeleteDocument, TInv, TypeOK, DocRow
  <2>3. pages' \in [Pages -> PageRow]
    BY <1>4 DEF DeleteDocument, TInv, TypeOK, PageRow
  <2>4. QED
    BY <1>4, <2>2, <2>3, FinishStep DEF DeleteDocument, TInv, TypeOK
<1>5. QED
  BY <1>1, <1>2, <1>3, <1>4

LEMMA DeleteSpaceTInv == TInv /\ DeleteSpace => TInv'
<1> SUFFICES ASSUME TInv, DeleteSpace
             PROVE  TInv'
  OBVIOUS
<1>1. pages' \in [Pages -> PageRow]
  BY DEF DeleteSpace, TInv, TypeOK, PageRow
<1>2. proposals' \in [Proposals -> ProposalRow]
  BY DEF DeleteSpace, TInv, TypeOK, ProposalRow
<1>3. \A x \in Proposals : proposals[x].status # "unborn" =>
             /\ proposals'[x].status # "unborn"
             /\ proposals'[x].page = proposals[x].page
             /\ proposals'[x].original = proposals[x].original
             /\ proposals'[x].suggested = proposals[x].suggested
  BY DEF DeleteSpace, TInv, TypeOK, ProposalRow
<1>4. \A x \in Proposals : proposals'[x] = proposals[x] \/ proposals[x].status # "unborn"
  BY DEF DeleteSpace
<1>5. QED
  BY <1>1, <1>2, <1>3, <1>4, ProposalStep DEF DeleteSpace, TInv, TypeOK

LEMMA NextTInv == TInv /\ [Next]_vars => TInv'
<1> SUFFICES ASSUME TInv, [Next]_vars
             PROVE  TInv'
  OBVIOUS
<1>1. ASSUME NEW w \in Workers, Arrive(w)
      PROVE  TInv'
  BY <1>1, CreateTInv, UpdateTInv, RevertTInv, FinalizeTInv, FlagTInv, ReviewTInv, DecideTInv,
     DocumentTInv DEF Arrive
<1>2. ASSUME NEW w \in Workers, Continue(w)
      PROVE  TInv'
  BY <1>2, MilestoneTInv, UpdateTInv, RevertTInv, FinalizeTInv, FlagTInv, ReviewTInv,
     DecideTInv, DocumentTInv, EndStep DEF Continue, WriteRejected
<1>3. ASSUME NEW w \in Workers, Fault(w)
      PROVE  TInv'
  BY <1>3, EndStep DEF Fault
<1>4. CASE UNCHANGED vars
  BY <1>4 DEF vars, TInv, TypeOK, LocalsOK, ProposalsOK
<1>5. QED
  BY <1>1, <1>2, <1>3, <1>4, DeleteSpaceTInv DEF Next

(* Type correctness, of the tables and of the locals of every handler: no   *)
(* handler of the drafts services reaches a statement with a page, text,   *)
(* proposal or document it has not assigned.                               *)
THEOREM TypeCorrect == Spec => []TypeOK
<1>1. Spec => []TInv
  BY InitTInv, NextTInv, PTL DEF Spec
<1>2. TInv => TypeOK
  BY DEF TInv
<1>3. QED
  BY <1>1, <1>2, PTL
=============================================================================
