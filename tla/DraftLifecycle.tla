--------------------------- MODULE DraftLifecycle ---------------------------
(***************************************************************************)
(* The life of a draft page: auto-save, version history, finalisation into *)
(* an official document, unlock, AI edit proposals, the document quota.    *)
(*                                                                         *)
(* A worker is one request in flight.  A handler runs from one database    *)
(* await to the next, so each action below is one statement the database   *)
(* executes together with the JavaScript up to the next await; between two *)
(* actions of a worker any other worker may run.  Only acceptProposal runs *)
(* inside a transaction: READ COMMITTED, its writes appear at the commit,  *)
(* and until then it holds the row lock of its proposal.                   *)
(*                                                                         *)
(* One user in one workspace.  A page's contentJson is the set of phrases  *)
(* its text holds.  Requests that the code rejects without writing leave   *)
(* every variable unchanged and have no action of their own.               *)
(***************************************************************************)
EXTENDS Integers, FiniteSets

CONSTANTS
    Workers,       \* requests in flight at the same time
    Pages,         \* identifiers of draft_pages rows
    Proposals,     \* identifiers of ai_edit_proposals rows
    Documents,     \* identifiers of documents rows
    Phrases,       \* what a page's text is made of
    MaxDocuments,  \* storage.limits.maxDocuments
    Calls,         \* what clients and the environment do in this instance
    NONE           \* null, undefined

Status == {"DRAFT", "IN_PROGRESS", "FINALIZED", "ARCHIVED"}
Content == SUBSET Phrases
AllCalls == {"create", "update", "patchStatus", "revert", "finalize", "unlock",
             "softDelete", "propose", "accept", "reject", "upload", "deleteDocument",
             "deleteSpace", "fault"}

ASSUME WorkersAssumption == IsFiniteSet(Workers) /\ Workers # {}
ASSUME DocumentsAssumption == IsFiniteSet(Documents)
ASSUME LimitAssumption == MaxDocuments \in Nat \ {0}
ASSUME CallsAssumption == Calls \subseteq AllCalls
ASSUME NoneAssumption ==
    /\ NONE \notin Pages \cup Proposals \cup Documents \cup Phrases \cup Status
    /\ \A c \in Content : c # NONE

VARIABLES
    pages,      \* draft_pages: whether the row is there, status, content, document link
    versions,   \* draft_page_versions
    proposals,  \* ai_edit_proposals
    docs,       \* documents: whether the row is there, the content its PDF shows
    req         \* the locals of each request in flight

vars == <<pages, versions, proposals, docs, req>>

-----------------------------------------------------------------------------
(* Rows.  An identifier is a UUID: used once, and never again after its row *)
(* is gone.  A trashed page is one with deletedAt set.                      *)

PageRow == [row : {"unborn", "live", "trashed", "gone"}, status : Status,
            content : Content, doc : {NONE} \cup Documents]
DocRow == [row : {"unborn", "live", "gone"}, content : {NONE} \cup Content]
ProposalRow == [status : {"unborn", "PENDING", "ACCEPTED", "REJECTED", "gone"},
                page : {NONE} \cup Pages,
                original : {NONE} \cup Phrases, suggested : {NONE} \cup Phrases]
Version == [page : Pages, content : Content, final : BOOLEAN,
            doc : {NONE} \cup Documents]

Live(p) == pages[p].row = "live"                   \* where: { id, userId, deletedAt: null }
Stored(p) == pages[p].row \in {"live", "trashed"}  \* where: { id }
LiveDocs == {d \in Documents : docs[d].row = "live"}

MilestoneOf(p, c) == [page |-> p, content |-> c, final |-> FALSE, doc |-> NONE]
FinalizedOf(p, c, d) == [page |-> p, content |-> c, final |-> TRUE, doc |-> d]

(* replaceProseMirrorText, and the replacedCount = 0 case *)
Occurs(c, q) == proposals[q].original \in c
Replaced(c, q) == (c \ {proposals[q].original}) \cup {proposals[q].suggested}

-----------------------------------------------------------------------------
(* Requests.                                                               *)

PC == {"idle", "createSnapshot", "updateWrite", "updateSnapshot", "revertPick",
       "revertWrite", "revertSnapshot", "finalizeQuota", "finalizeDocument",
       "finalizeLink", "finalizeSnapshot", "unlockWrite", "deleteWrite",
       "proposeInsert", "acceptClaim", "acceptSnapshot", "acceptRead",
       "acceptCommit", "uploadInsert", "deleteDocument"}

Request == [pc : PC,
            page : {NONE} \cup Pages,
            seen : {NONE} \cup Status,       \* page.status as the handler read it
            base : {NONE} \cup Content,      \* page.contentJson as the handler read it
            content : {NONE} \cup Content,   \* the content the handler will write
            status : {NONE} \cup Status,     \* dto.status
            prop : {NONE} \cup Proposals,
            doc : {NONE} \cup Documents]

Idle == [pc |-> "idle", page |-> NONE, seen |-> NONE, base |-> NONE,
         content |-> NONE, status |-> NONE, prop |-> NONE, doc |-> NONE]

At(w, pc) == req[w].pc = pc
Accepts(w, call) == At(w, "idle") /\ call \in Calls
Goto(w, pc) == req' = [req EXCEPT ![w].pc = pc]
Finish(w) == req' = [req EXCEPT ![w] = Idle]

(* The bounds on identifiers: a request that will insert a document or a    *)
(* proposal starts only while a fresh identifier is left for it.            *)
DocInserters == {w \in Workers : req[w].pc \in
                    {"finalizeQuota", "finalizeDocument", "uploadInsert"}}
DocIdsLeft == Cardinality({d \in Documents : docs[d].row = "unborn"})
                  > Cardinality(DocInserters)
ProposalIdsLeft == Cardinality({q \in Proposals : proposals[q].status = "unborn"})
                       > Cardinality({w \in Workers : At(w, "proposeInsert")})

Init ==
    /\ pages = [p \in Pages |-> [row |-> "unborn", status |-> "DRAFT",
                                 content |-> {}, doc |-> NONE]]
    /\ versions = {}
    /\ proposals = [q \in Proposals |-> [status |-> "unborn", page |-> NONE,
                                         original |-> NONE, suggested |-> NONE]]
    /\ docs = [d \in Documents |-> [row |-> "unborn", content |-> NONE]]
    /\ req = [w \in Workers |-> Idle]

-----------------------------------------------------------------------------
(* DraftPagesService.create                                                *)

CreateInsert(w, p, c, d) ==
    /\ Accepts(w, "create") /\ pages[p].row = "unborn"
    /\ d # NONE => docs[d].row = "live"
    /\ pages' = [pages EXCEPT ![p] = [row |-> "live", status |-> "DRAFT", doc |-> d,
                                      content |-> IF c = NONE THEN {} ELSE c]]
    /\ req' = IF c = NONE THEN req
              ELSE [req EXCEPT ![w] = [Idle EXCEPT !.pc = "createSnapshot",
                                                   !.page = p, !.content = c]]
    /\ UNCHANGED <<versions, proposals, docs>>

CreateSnapshot(w) ==
    /\ At(w, "createSnapshot") /\ Stored(req[w].page)
    /\ versions' = versions \cup {MilestoneOf(req[w].page, req[w].content)}
    /\ Finish(w)
    /\ UNCHANGED <<pages, proposals, docs>>

(* DraftPagesService.update: the FINALIZED check is on the row read here,  *)
(* the write is by id and checks nothing.                                  *)

(* Mutant: no FINALIZED check. *)
UpdateAlwaysAllowed(p) == Live(p)

UpdateAllowed(p) == Live(p) /\ pages[p].status # "FINALIZED"

UpdateRead(w, p, c, s) ==
    /\ Accepts(w, IF s = NONE THEN "update" ELSE "patchStatus")
    /\ UpdateAllowed(p)
    /\ c # NONE \/ s # NONE
    /\ req' = [req EXCEPT ![w] = [Idle EXCEPT
                   !.pc = "updateWrite", !.page = p, !.seen = pages[p].status,
                   !.content = c, !.status = s]]
    /\ UNCHANGED <<pages, versions, proposals, docs>>

UpdatedStatus(w) ==
    LET r == req[w] IN
    IF r.status # NONE THEN r.status
    ELSE IF r.content # NONE /\ r.seen = "DRAFT" THEN "IN_PROGRESS"
    ELSE pages[r.page].status

UpdateWrite(w) ==
    LET r == req[w] IN
    /\ At(w, "updateWrite") /\ Stored(r.page)
    /\ pages' = [pages EXCEPT ![r.page].status = UpdatedStatus(w),
                              ![r.page].content = IF r.content = NONE THEN @ ELSE r.content]
    /\ IF r.content = NONE THEN Finish(w) ELSE Goto(w, "updateSnapshot")
    /\ UNCHANGED <<versions, proposals, docs>>

(* A milestone unless the latest version is at most a minute old: whether   *)
(* an existing one is, is left open.                                        *)
UpdateSnapshot(w) ==
    LET r == req[w] IN
    /\ At(w, "updateSnapshot")
    /\ \/ /\ Stored(r.page)
          /\ versions' = versions \cup {MilestoneOf(r.page, r.content)}
       \/ /\ \E v \in versions : v.page = r.page
          /\ UNCHANGED versions
    /\ Finish(w)
    /\ UNCHANGED <<pages, proposals, docs>>

(* DraftPagesService.softDelete *)

SoftDeleteRead(w, p) ==
    /\ Accepts(w, "softDelete") /\ Live(p)
    /\ req' = [req EXCEPT ![w] = [Idle EXCEPT !.pc = "deleteWrite", !.page = p]]
    /\ UNCHANGED <<pages, versions, proposals, docs>>

SoftDeleteWrite(w) ==
    /\ At(w, "deleteWrite") /\ Stored(req[w].page)
    /\ pages' = [pages EXCEPT ![req[w].page].row = "trashed"]
    /\ Finish(w)
    /\ UNCHANGED <<versions, proposals, docs>>

-----------------------------------------------------------------------------
(* DraftVersionsService.revertToVersion                                    *)

RevertRead(w, p) ==
    /\ Accepts(w, "revert") /\ Live(p) /\ pages[p].status # "FINALIZED"
    /\ req' = [req EXCEPT ![w] = [Idle EXCEPT !.pc = "revertPick", !.page = p]]
    /\ UNCHANGED <<pages, versions, proposals, docs>>

RevertPick(w) ==
    /\ At(w, "revertPick")
    /\ \/ \E v \in versions :
             /\ v.page = req[w].page
             /\ req' = [req EXCEPT ![w].pc = "revertWrite", ![w].content = v.content]
       \/ Finish(w)                                    \* VERSION_NOT_FOUND
    /\ UNCHANGED <<pages, versions, proposals, docs>>

RevertWrite(w) ==
    LET r == req[w] IN
    /\ At(w, "revertWrite") /\ Stored(r.page)
    /\ pages' = [pages EXCEPT ![r.page].status = "IN_PROGRESS",
                              ![r.page].content = r.content]
    /\ Goto(w, "revertSnapshot")
    /\ UNCHANGED <<versions, proposals, docs>>

RevertSnapshot(w) ==
    /\ At(w, "revertSnapshot") /\ Stored(req[w].page)
    /\ versions' = versions \cup {MilestoneOf(req[w].page, req[w].content)}
    /\ Finish(w)
    /\ UNCHANGED <<pages, proposals, docs>>

-----------------------------------------------------------------------------
(* DraftExportService.finalize: five awaits, no transaction.  The PDF and   *)
(* the version snapshot show the content of the first read.                 *)

FinalizeRead(w, p) ==
    /\ Accepts(w, "finalize") /\ Live(p) /\ DocIdsLeft
    /\ req' = [req EXCEPT ![w] = [Idle EXCEPT !.pc = "finalizeQuota", !.page = p,
                                              !.content = pages[p].content]]
    /\ UNCHANGED <<pages, versions, proposals, docs>>

(* Mutant: > for >= in the limit check. *)
QuotaLeftOffByOne == Cardinality(LiveDocs) <= MaxDocuments

QuotaLeft == Cardinality(LiveDocs) < MaxDocuments

FinalizeQuota(w) ==
    /\ At(w, "finalizeQuota")
    /\ IF QuotaLeft THEN Goto(w, "finalizeDocument") ELSE Finish(w)
    /\ UNCHANGED <<pages, versions, proposals, docs>>

FinalizeDocument(w) ==
    /\ At(w, "finalizeDocument")
    /\ \E d \in Documents :
          /\ docs[d].row = "unborn"
          /\ docs' = [docs EXCEPT ![d] = [row |-> "live", content |-> req[w].content]]
          /\ req' = [req EXCEPT ![w].pc = "finalizeLink", ![w].doc = d]
    /\ UNCHANGED <<pages, versions, proposals>>

FinalizeLink(w) ==
    LET r == req[w] IN
    /\ At(w, "finalizeLink") /\ Stored(r.page) /\ docs[r.doc].row = "live"
    /\ pages' = [pages EXCEPT ![r.page].status = "FINALIZED", ![r.page].doc = r.doc]
    /\ Goto(w, "finalizeSnapshot")
    /\ UNCHANGED <<versions, proposals, docs>>

(* Mutants: the snapshot reads the page again; it is not marked as finalized. *)
FinalizeSnapshotWith(w, v) ==
    /\ At(w, "finalizeSnapshot") /\ Stored(req[w].page)
    /\ versions' = versions \cup {v}
    /\ Finish(w)
    /\ UNCHANGED <<pages, proposals, docs>>
FinalizeSnapshotRereads(w) ==
    FinalizeSnapshotWith(w, FinalizedOf(req[w].page, pages[req[w].page].content, req[w].doc))
FinalizeSnapshotUnmarked(w) ==
    FinalizeSnapshotWith(w, MilestoneOf(req[w].page, req[w].content))

FinalizeSnapshot(w) ==
    LET r == req[w] IN
    /\ At(w, "finalizeSnapshot") /\ Stored(r.page)
    /\ versions' = versions \cup {FinalizedOf(r.page, r.content, r.doc)}
    /\ Finish(w)
    /\ UNCHANGED <<pages, proposals, docs>>

(* DraftExportService.unlock: of a page in any status *)

UnlockRead(w, p) ==
    /\ Accepts(w, "unlock") /\ Live(p)
    /\ req' = [req EXCEPT ![w] = [Idle EXCEPT !.pc = "unlockWrite", !.page = p]]
    /\ UNCHANGED <<pages, versions, proposals, docs>>

UnlockWrite(w) ==
    /\ At(w, "unlockWrite") /\ Stored(req[w].page)
    /\ pages' = [pages EXCEPT ![req[w].page].status = "IN_PROGRESS"]
    /\ Finish(w)
    /\ UNCHANGED <<versions, proposals, docs>>

-----------------------------------------------------------------------------
(* AiProposalsService                                                      *)

ProposeRead(w, p) ==
    /\ Accepts(w, "propose") /\ Live(p) /\ ProposalIdsLeft
    /\ req' = [req EXCEPT ![w] = [Idle EXCEPT !.pc = "proposeInsert", !.page = p]]
    /\ UNCHANGED <<pages, versions, proposals, docs>>

ProposeInsert(w) ==
    /\ At(w, "proposeInsert") /\ Stored(req[w].page)
    /\ \E q \in Proposals, original, suggested \in Phrases :
          /\ proposals[q].status = "unborn"
          /\ proposals' = [proposals EXCEPT ![q] =
                 [status |-> "PENDING", page |-> req[w].page,
                  original |-> original, suggested |-> suggested]]
    /\ Finish(w)
    /\ UNCHANGED <<pages, versions, docs>>

Holders(q) == {w \in Workers : /\ req[w].prop = q
                               /\ req[w].pc \in {"acceptSnapshot", "acceptRead",
                                                 "acceptCommit"}}

AcceptBegin(w, q) ==
    /\ Accepts(w, "accept") /\ proposals[q].status # "unborn"
    /\ req' = [req EXCEPT ![w] = [Idle EXCEPT !.pc = "acceptClaim", !.prop = q]]
    /\ UNCHANGED <<pages, versions, proposals, docs>>

(* Mutant: a conflict is retried instead of answered. *)
AcceptClaimRetries(w) ==
    /\ At(w, "acceptClaim") /\ Holders(req[w].prop) = {}
    /\ req' = IF proposals[req[w].prop].status = "PENDING"
              THEN [req EXCEPT ![w].pc = "acceptSnapshot",
                               ![w].page = proposals[req[w].prop].page]
              ELSE req
    /\ UNCHANGED <<pages, versions, proposals, docs>>

(* updateMany ... where status PENDING waits for the row lock, then matches *)
(* or does not.                                                             *)
AcceptClaim(w) ==
    LET q == req[w].prop IN
    /\ At(w, "acceptClaim") /\ Holders(q) = {}
    /\ IF proposals[q].status = "PENDING"
       THEN req' = [req EXCEPT ![w].pc = "acceptSnapshot", ![w].page = proposals[q].page]
       ELSE Finish(w)
    /\ UNCHANGED <<pages, versions, proposals, docs>>

(* createSnapshot inside the transaction reads the page on its own account *)
AcceptSnapshot(w) ==
    LET p == req[w].page IN
    /\ At(w, "acceptSnapshot")
    /\ IF Live(p)
       THEN req' = [req EXCEPT ![w].pc = "acceptRead", ![w].base = pages[p].content]
       ELSE Finish(w)
    /\ UNCHANGED <<pages, versions, proposals, docs>>

AcceptRead(w) ==
    LET r == req[w] IN
    /\ At(w, "acceptRead")
    /\ IF Live(r.page) /\ Occurs(pages[r.page].content, r.prop)
       THEN req' = [req EXCEPT ![w].pc = "acceptCommit",
                               ![w].content = Replaced(pages[r.page].content, r.prop)]
       ELSE Finish(w)
    /\ UNCHANGED <<pages, versions, proposals, docs>>

(* Mutant: no snapshot before the change. *)
AcceptCommitBare(w) ==
    LET r == req[w] IN
    /\ At(w, "acceptCommit")
    /\ proposals' = [proposals EXCEPT ![r.prop].status = "ACCEPTED"]
    /\ pages' = [pages EXCEPT ![r.page].status = "IN_PROGRESS",
                              ![r.page].content = r.content]
    /\ Finish(w)
    /\ UNCHANGED <<versions, docs>>

AcceptCommit(w) ==
    LET r == req[w] IN
    /\ At(w, "acceptCommit")
    /\ proposals' = [proposals EXCEPT ![r.prop].status = "ACCEPTED"]
    /\ versions' = versions \cup {MilestoneOf(r.page, r.base)}
    /\ pages' = [pages EXCEPT ![r.page].status = "IN_PROGRESS",
                              ![r.page].content = r.content]
    /\ Finish(w)
    /\ UNCHANGED docs

(* Mutant: accept does not lock the proposal's row until it commits. *)
RejectUnlocked(w, q) ==
    /\ Accepts(w, "reject") /\ proposals[q].status = "PENDING"
    /\ proposals' = [proposals EXCEPT ![q].status = "REJECTED"]
    /\ UNCHANGED <<pages, versions, docs, req>>

RejectProposal(w, q) ==
    /\ Accepts(w, "reject")
    /\ Holders(q) = {} /\ proposals[q].status = "PENDING"
    /\ proposals' = [proposals EXCEPT ![q].status = "REJECTED"]
    /\ UNCHANGED <<pages, versions, docs, req>>

-----------------------------------------------------------------------------
(* DocumentsService: the same quota, and the rows drafts link to           *)

UploadQuota(w) ==
    /\ Accepts(w, "upload") /\ DocIdsLeft /\ QuotaLeft
    /\ req' = [req EXCEPT ![w] = [Idle EXCEPT !.pc = "uploadInsert"]]
    /\ UNCHANGED <<pages, versions, proposals, docs>>

UploadInsert(w) ==
    /\ At(w, "uploadInsert")
    /\ \E d \in Documents :
          /\ docs[d].row = "unborn"
          /\ docs' = [docs EXCEPT ![d].row = "live"]
    /\ Finish(w)
    /\ UNCHANGED <<pages, versions, proposals>>

DeleteDocumentRead(w, d) ==
    /\ Accepts(w, "deleteDocument") /\ docs[d].row = "live"
    /\ req' = [req EXCEPT ![w] = [Idle EXCEPT !.pc = "deleteDocument", !.doc = d]]
    /\ UNCHANGED <<pages, versions, proposals, docs>>

(* draft_pages.document_id is ON DELETE SET NULL *)
DeleteDocument(w) ==
    LET d == req[w].doc IN
    /\ At(w, "deleteDocument") /\ docs[d].row = "live"
    /\ docs' = [docs EXCEPT ![d].row = "gone"]
    /\ pages' = [p \in Pages |-> IF pages[p].doc = d THEN [pages[p] EXCEPT !.doc = NONE]
                                 ELSE pages[p]]
    /\ Finish(w)
    /\ UNCHANGED <<versions, proposals>>

-----------------------------------------------------------------------------
(* DraftSpacesService.delete: the rows below the workspace cascade.  It     *)
(* waits for the row locks an open transaction holds.                       *)
DeleteSpace ==
    /\ "deleteSpace" \in Calls
    /\ \A q \in Proposals : Holders(q) = {}
    /\ pages' = [p \in Pages |-> IF Stored(p) THEN [pages[p] EXCEPT !.row = "gone"]
                                 ELSE pages[p]]
    /\ versions' = {}
    /\ proposals' = [q \in Proposals |->
                        IF proposals[q].status = "unborn" THEN proposals[q]
                        ELSE [proposals[q] EXCEPT !.status = "gone"]]
    /\ UNCHANGED <<docs, req>>

(* A write that addresses a row no longer there: P2025, or a foreign key    *)
(* violation.  The request ends with an error; what it wrote before stays.  *)
WriteRejected(w) ==
    LET r == req[w] IN
    /\ \/ /\ r.pc \in {"createSnapshot", "updateWrite", "updateSnapshot", "revertWrite",
                       "revertSnapshot", "finalizeLink", "finalizeSnapshot",
                       "unlockWrite", "deleteWrite", "proposeInsert"}
          /\ ~Stored(r.page)
       \/ r.pc \in {"finalizeLink", "deleteDocument"} /\ docs[r.doc].row # "live"
    /\ Finish(w)
    /\ UNCHANGED <<pages, versions, proposals, docs>>

(* A statement, the upload or the PDF fails, the transaction times out, or  *)
(* the process dies: the request ends where it is; an open transaction is   *)
(* rolled back.                                                             *)
Fault(w) ==
    /\ "fault" \in Calls /\ ~At(w, "idle")
    /\ Finish(w)
    /\ UNCHANGED <<pages, versions, proposals, docs>>

-----------------------------------------------------------------------------
Arrive(w) ==
    \/ \E p \in Pages :
          \/ \E c \in {NONE} \cup Content, d \in {NONE} \cup Documents :
                CreateInsert(w, p, c, d)
          \/ \E c \in {NONE} \cup Content, s \in {NONE} \cup Status :
                UpdateRead(w, p, c, s)
          \/ SoftDeleteRead(w, p)
          \/ RevertRead(w, p)
          \/ FinalizeRead(w, p)
          \/ UnlockRead(w, p)
          \/ ProposeRead(w, p)
    \/ \E q \in Proposals : AcceptBegin(w, q) \/ RejectProposal(w, q)
    \/ UploadQuota(w)
    \/ \E d \in Documents : DeleteDocumentRead(w, d)

Continue(w) ==
    \/ CreateSnapshot(w)
    \/ UpdateWrite(w) \/ UpdateSnapshot(w)
    \/ SoftDeleteWrite(w)
    \/ RevertPick(w) \/ RevertWrite(w) \/ RevertSnapshot(w)
    \/ FinalizeQuota(w) \/ FinalizeDocument(w) \/ FinalizeLink(w) \/ FinalizeSnapshot(w)
    \/ UnlockWrite(w)
    \/ ProposeInsert(w)
    \/ AcceptClaim(w) \/ AcceptSnapshot(w) \/ AcceptRead(w) \/ AcceptCommit(w)
    \/ UploadInsert(w)
    \/ DeleteDocument(w)
    \/ WriteRejected(w)

Next ==
    \/ \E w \in Workers : Arrive(w) \/ Continue(w) \/ Fault(w)
    \/ DeleteSpace

Spec == Init /\ [][Next]_vars

-----------------------------------------------------------------------------
(* Properties.                                                             *)

TypeOK ==
    /\ pages \in [Pages -> PageRow]
    /\ versions \subseteq Version
    /\ proposals \in [Proposals -> ProposalRow]
    /\ docs \in [Documents -> DocRow]
    /\ req \in [Workers -> Request]

(* Lineage: a finalized snapshot names a document that was inserted, and   *)
(* shows exactly the text that document's PDF was compiled from, whatever   *)
(* was saved between the five awaits of finalize.                          *)
SnapshotMatchesDocument ==
    \A v \in versions : v.final =>
        /\ v.doc # NONE
        /\ docs[v.doc].row # "unborn"
        /\ docs[v.doc].content = v.content

(* Lineage: two finalizations never record the same document, so a document *)
(* belongs to the history of one page and shows one text.                  *)
DocumentRecordedOnce ==
    \A v1, v2 \in versions : v1.final /\ v2.final /\ v1.doc = v2.doc => v1 = v2

(* Accepting leaves something to roll back to: a page with an accepted     *)
(* proposal has a milestone in its history.                                *)
AcceptedHasMilestone ==
    \A q \in Proposals : proposals[q].status = "ACCEPTED" =>
        \E v \in versions : v.page = proposals[q].page /\ ~v.final

(* A proposal is decided once: neither a second accept, nor an accept that *)
(* was waiting while a reject went through, changes the decision.          *)
DecidedOnce ==
    [][\A q \in Proposals : proposals[q].status \in {"ACCEPTED", "REJECTED"} =>
            proposals'[q].status \in {proposals[q].status, "gone"}]_proposals

(* The check of the document limit is not atomic with the insert, but the   *)
(* overshoot is at most one document for each other request in flight.     *)
QuotaOvershootBounded ==
    Cardinality(LiveDocs) <= MaxDocuments + Cardinality(Workers) - 1

(* FINALIZED is read-only: the content of a page that is and stays FINALIZED *)
(* changes only under a save that had looked at it before, when it was not. *)
FinalizedIsReadOnly ==
    [][\A p \in Pages : pages[p].status = "FINALIZED" /\ pages'[p].status = "FINALIZED"
                        /\ pages'[p].content # pages[p].content
            => \E w \in Workers : At(w, "updateWrite") /\ ~At(w, "updateWrite")'
                                  /\ req[w].page = p /\ req[w].seen # "FINALIZED"]_vars

(* Only an explicit unlock takes a page out of FINALIZED.                  *)
OnlyUnlockReleases ==
    [][\A p \in Pages : pages[p].status = "FINALIZED" /\ pages'[p].status # "FINALIZED"
            => \E w \in Workers : At(w, "unlockWrite") /\ req[w].page = p /\ UnlockWrite(w)]_vars

(* When no request is in flight, the document a FINALIZED page links is     *)
(* recorded in the page's history.                                         *)
FinalizedIsRecorded ==
    (\A w \in Workers : At(w, "idle")) =>
        \A p \in Pages :
            Stored(p) /\ pages[p].status = "FINALIZED" /\ pages[p].doc # NONE =>
                \E v \in versions : v.page = p /\ v.final /\ v.doc = pages[p].doc

(* The ledger of the records: finalized snapshots, milestones, decisions.   *)
Ledger == INSTANCE DraftLedger WITH
    Texts <- Content,
    published <- docs,
    attested <- {[page |-> v.page, doc |-> v.doc, content |-> v.content] :
                    v \in {x \in versions : x.final}},
    milestones <- {v.page : v \in {x \in versions : ~x.final}},
    decision <- [q \in Proposals |-> [status |-> proposals[q].status,
                                      page |-> proposals[q].page]]

(* Finalize, review and the fate of a request that dies half way keep the   *)
(* promises of DraftLedger.                                                *)
LedgerSpec == Ledger!Spec

(* Every request is answered: no handler waits for ever, on a row lock or   *)
(* on another handler.                                                     *)
RequestsAnswered == \A w \in Workers : ~At(w, "idle") ~> At(w, "idle")

(* Each statement is answered (Continue), and Postgres grants a row lock to *)
(* its waiters in turn (AcceptClaim).                                      *)
Fairness ==
    \A w \in Workers : WF_vars(Continue(w)) /\ SF_vars(AcceptClaim(w))
=============================================================================
