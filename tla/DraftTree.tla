------------------------------ MODULE DraftTree ------------------------------
(***************************************************************************)
(* The shape of a candidate's workspaces: spaces and their slugs, pages in *)
(* a tree with slugs and positions, tags on pages.                         *)
(*                                                                         *)
(* A worker is one request in flight; each action is one statement the     *)
(* database executes with the JavaScript up to the next await.  One user.  *)
(* Content, status and versions of a page are DraftLifecycle's: whether a  *)
(* page is FINALIZED, which update refuses, is left open, since a request  *)
(* that is refused before it writes leaves no trace.  No handler here     *)
(* writes twice, so a request that dies half way leaves none either.       *)
(***************************************************************************)
EXTENDS Integers, FiniteSets

CONSTANTS
    Clients,     \* requests in flight at the same time
    SpaceIds, PageIds, TagIds,
    Titles,      \* what slugify makes of a title, a name of a space or a tag
    TreeCalls,   \* what clients do in this instance
    NIL          \* null, undefined

AllTreeCalls == {"createSpace", "deleteSpace", "createPage", "rename", "move",
                 "reorder", "trash", "createTag", "deleteTag", "assign", "unassign"}

ASSUME ClientsAssumption == IsFiniteSet(Clients) /\ Clients # {}
ASSUME TreeCallsAssumption == TreeCalls \subseteq AllTreeCalls
ASSUME NilAssumption == NIL \notin SpaceIds \cup PageIds \cup TagIds \cup Titles

VARIABLES
    spaces,   \* draft_spaces: row and slug
    tree,     \* draft_pages: row, space, parent, slug, position
    tags,     \* draft_tags: row, space, name
    labels,   \* draft_page_tags: pairs of a page and a tag
    ask       \* the locals of each request in flight

treeVars == <<spaces, tree, tags, labels, ask>>

-----------------------------------------------------------------------------
(* Rows.  A slug is `base` or `base-n`. *)

Slug == [base : Titles, n : Nat]
SlugOf(t, n) == [base |-> t, n |-> n]

SpaceRow == [row : {"unborn", "live", "gone"}, slug : {NIL} \cup Slug]
LeafRow == [row : {"unborn", "live", "trashed", "gone"}, space : {NIL} \cup SpaceIds,
            parent : {NIL} \cup PageIds, slug : {NIL} \cup Slug, position : Nat]
TagRow == [row : {"unborn", "live", "gone"}, space : {NIL} \cup SpaceIds,
           name : {NIL} \cup Titles]

InSpace(p, s) == tree[p].row = "live" /\ tree[p].space = s   \* deletedAt: null
Kept(p) == tree[p].row \in {"live", "trashed"}               \* the row is there
TagIn(t, s) == tags[t].row = "live" /\ tags[t].space = s
Siblings(s, parent) == {p \in PageIds : InSpace(p, s) /\ tree[p].parent = parent}

-----------------------------------------------------------------------------
(* Requests.                                                               *)

TreePC == {"idle", "spaceSlug", "spaceInsert", "spaceDelete",
           "pageParent", "pagePosition", "pageSlug", "pageInsert",
           "pageFind", "moveParent", "renameSlug", "pageWrite", "trashWrite",
           "tagFind", "tagInsert", "tagPick", "tagDelete", "assignFind", "assignUpsert",
           "unassignFind", "unassignDelete"}

Ask == [pc : TreePC, space : {NIL} \cup SpaceIds, page : {NIL} \cup PageIds,
        parent : {NIL} \cup PageIds, moves : BOOLEAN, title : {NIL} \cup Titles,
        n : Nat, position : Nat, reorders : BOOLEAN, tag : {NIL} \cup TagIds]

Free == [pc |-> "idle", space |-> NIL, page |-> NIL, parent |-> NIL, moves |-> FALSE,
         title |-> NIL, n |-> 0, position |-> 0, reorders |-> FALSE, tag |-> NIL]

On(w, pc) == ask[w].pc = pc
Takes(w, call) == On(w, "idle") /\ call \in TreeCalls
Step(w, pc) == ask' = [ask EXCEPT ![w].pc = pc]
Answer(w) == ask' = [ask EXCEPT ![w] = Free]
Begin(w, r) == ask' = [ask EXCEPT ![w] = r]

TreeInit ==
    /\ spaces = [s \in SpaceIds |-> [row |-> "unborn", slug |-> NIL]]
    /\ tree = [p \in PageIds |-> [row |-> "unborn", space |-> NIL, parent |-> NIL,
                                  slug |-> NIL, position |-> 0]]
    /\ tags = [t \in TagIds |-> [row |-> "unborn", space |-> NIL, name |-> NIL]]
    /\ labels = {}
    /\ ask = [w \in Clients |-> Free]

-----------------------------------------------------------------------------
(* DraftSpacesService.  findBySlug answers 404 for a space that is not      *)
(* there: the requests below start with one that is.                       *)

SpaceLive(s) == spaces[s].row = "live"
SpaceSlugTaken(slug) == \E s \in SpaceIds : SpaceLive(s) /\ spaces[s].slug = slug

CreateSpace(w, t) ==
    /\ Takes(w, "createSpace")
    /\ Begin(w, [Free EXCEPT !.pc = "spaceSlug", !.title = t])
    /\ UNCHANGED <<spaces, tree, tags, labels>>

(* generateUniqueSlug: one query for each candidate, each its own await *)
ProbeSpaceSlug(w) ==
    /\ On(w, "spaceSlug")
    /\ IF SpaceSlugTaken(SlugOf(ask[w].title, ask[w].n))
       THEN ask' = [ask EXCEPT ![w].n = @ + 1]
       ELSE Step(w, "spaceInsert")
    /\ UNCHANGED <<spaces, tree, tags, labels>>

(* @@unique([ownerId, slug]) *)
InsertSpace(w) ==
    LET slug == SlugOf(ask[w].title, ask[w].n) IN
    /\ On(w, "spaceInsert")
    /\ IF SpaceSlugTaken(slug) THEN UNCHANGED spaces
       ELSE \E s \in SpaceIds :
               /\ spaces[s].row = "unborn"
               /\ spaces' = [spaces EXCEPT ![s] = [row |-> "live", slug |-> slug]]
    /\ Answer(w)
    /\ UNCHANGED <<tree, tags, labels>>

FindSpaceToDelete(w, s) ==
    /\ Takes(w, "deleteSpace") /\ SpaceLive(s)
    /\ Begin(w, [Free EXCEPT !.pc = "spaceDelete", !.space = s])
    /\ UNCHANGED <<spaces, tree, tags, labels>>

(* Pages and tags cascade, and with them their labels. *)
RemoveSpace(w) ==
    LET s == ask[w].space IN
    /\ On(w, "spaceDelete") /\ SpaceLive(s)
    /\ spaces' = [spaces EXCEPT ![s].row = "gone"]
    /\ tree' = [p \in PageIds |-> IF tree[p].space = s
                                  THEN [tree[p] EXCEPT !.row = "gone"] ELSE tree[p]]
    /\ tags' = [t \in TagIds |-> IF tags[t].space = s
                                 THEN [tags[t] EXCEPT !.row = "gone"] ELSE tags[t]]
    /\ labels' = {l \in labels : tree[l[1]].space # s /\ tags[l[2]].space # s}
    /\ Answer(w)

-----------------------------------------------------------------------------
(* DraftPagesService.create                                                *)

CreatePage(w, s, parent, t) ==
    /\ Takes(w, "createPage") /\ SpaceLive(s)
    /\ Begin(w, [Free EXCEPT !.pc = IF parent = NIL THEN "pagePosition" ELSE "pageParent",
                             !.space = s, !.parent = parent, !.title = t])
    /\ UNCHANGED <<spaces, tree, tags, labels>>

(* Mutant: the parent may be a page of another workspace. *)
ParentAllowedAnywhere(p, s) == tree[p].row = "live"

ParentAllowed(p, s) == InSpace(p, s)

CheckParent(w) ==
    /\ On(w, "pageParent")
    /\ IF ParentAllowed(ask[w].parent, ask[w].space) THEN Step(w, "pagePosition")
       ELSE Answer(w)
    /\ UNCHANGED <<spaces, tree, tags, labels>>

(* position = that of the last live sibling, plus one *)
PickPosition(w) ==
    LET siblings == Siblings(ask[w].space, ask[w].parent) IN
    /\ On(w, "pagePosition")
    /\ \E last \in siblings \cup {NIL} :
          /\ last = NIL <=> siblings = {}
          /\ \A p \in siblings : tree[p].position <= tree[last].position
          /\ ask' = [ask EXCEPT ![w].pc = "pageSlug",
                       ![w].position = IF last = NIL THEN 0 ELSE tree[last].position + 1]
    /\ UNCHANGED <<spaces, tree, tags, labels>>

PageSlugTaken(s, slug) == \E p \in PageIds : InSpace(p, s) /\ tree[p].slug = slug

(* Mutant: the first candidate is taken without a query. *)
ProbePageSlugUnchecked(w, now, then) ==
    /\ On(w, now)
    /\ Step(w, then)
    /\ UNCHANGED <<spaces, tree, tags, labels>>

ProbePageSlug(w, now, then) ==
    /\ On(w, now)
    /\ IF PageSlugTaken(ask[w].space, SlugOf(ask[w].title, ask[w].n))
       THEN ask' = [ask EXCEPT ![w].n = @ + 1]
       ELSE Step(w, then)
    /\ UNCHANGED <<spaces, tree, tags, labels>>

(* No unique index on the slug of a page; foreign keys on space and parent *)
InsertPage(w) ==
    LET r == ask[w] IN
    /\ On(w, "pageInsert") /\ SpaceLive(r.space)
    /\ r.parent # NIL => Kept(r.parent)
    /\ \E p \in PageIds :
          /\ tree[p].row = "unborn"
          /\ tree' = [tree EXCEPT ![p] =
                 [row |-> "live", space |-> r.space, parent |-> r.parent,
                  slug |-> SlugOf(r.title, r.n), position |-> r.position]]
    /\ Answer(w)
    /\ UNCHANGED <<spaces, tags, labels>>

-----------------------------------------------------------------------------
(* DraftPagesService.update of title, parent and position; softDelete      *)

UpdatePage(w, s, p, moves, parent, t, position) ==
    /\ On(w, "idle") /\ SpaceLive(s)
    /\ \/ moves /\ "move" \in TreeCalls
       \/ t # NIL /\ "rename" \in TreeCalls
       \/ position # NIL /\ "reorder" \in TreeCalls
    /\ moves => "move" \in TreeCalls
    /\ t # NIL => "rename" \in TreeCalls
    /\ position # NIL => "reorder" \in TreeCalls
    /\ Begin(w, [Free EXCEPT !.pc = "pageFind", !.space = s, !.page = p, !.moves = moves,
                             !.parent = parent, !.title = t, !.reorders = position # NIL,
                             !.position = IF position = NIL THEN 0 ELSE position])
    /\ UNCHANGED <<spaces, tree, tags, labels>>

AfterMove(r) == IF r.title = NIL THEN "pageWrite" ELSE "renameSlug"

(* findBySpaceAndId.  A parent that does not change is not looked up. *)
FindPage(w) ==
    LET r == ask[w]
        newParent == r.moves /\ r.parent # NIL /\ r.parent # tree[r.page].parent IN
    /\ On(w, "pageFind")
    /\ IF ~InSpace(r.page, r.space) \/ (newParent /\ r.parent = r.page) THEN Answer(w)
       ELSE Step(w, IF newParent THEN "moveParent" ELSE AfterMove(r))
    /\ UNCHANGED <<spaces, tree, tags, labels>>

CheckNewParent(w) ==
    /\ On(w, "moveParent")
    /\ IF ParentAllowed(ask[w].parent, ask[w].space) THEN Step(w, AfterMove(ask[w]))
       ELSE Answer(w)
    /\ UNCHANGED <<spaces, tree, tags, labels>>

(* Mutant: the slug is made from dto.title, sent or not. *)
WritePageAlwaysSlugs(w) ==
    LET r == ask[w] IN
    /\ On(w, "pageWrite") /\ Kept(r.page)
    /\ r.moves /\ r.parent # NIL => Kept(r.parent)
    /\ tree' = [tree EXCEPT
           ![r.page].parent = IF r.moves THEN r.parent ELSE @,
           ![r.page].slug = SlugOf(r.title, r.n),
           ![r.page].position = IF r.reorders THEN r.position ELSE @]
    /\ Answer(w)
    /\ UNCHANGED <<spaces, tags, labels>>

(* The write is by id, over a page trashed meanwhile too. *)
WritePage(w) ==
    LET r == ask[w] IN
    /\ On(w, "pageWrite") /\ Kept(r.page)
    /\ r.moves /\ r.parent # NIL => Kept(r.parent)
    /\ tree' = [tree EXCEPT
           ![r.page].parent = IF r.moves THEN r.parent ELSE @,
           ![r.page].slug = IF r.title = NIL THEN @ ELSE SlugOf(r.title, r.n),
           ![r.page].position = IF r.reorders THEN r.position ELSE @]
    /\ Answer(w)
    /\ UNCHANGED <<spaces, tags, labels>>

FindPageToTrash(w, p) ==
    /\ Takes(w, "trash") /\ tree[p].row = "live"
    /\ Begin(w, [Free EXCEPT !.pc = "trashWrite", !.page = p])
    /\ UNCHANGED <<spaces, tree, tags, labels>>

(* The children of a trashed page stay as they are. *)
TrashPage(w) ==
    /\ On(w, "trashWrite") /\ Kept(ask[w].page)
    /\ tree' = [tree EXCEPT ![ask[w].page].row = "trashed"]
    /\ Answer(w)
    /\ UNCHANGED <<spaces, tags, labels>>

-----------------------------------------------------------------------------
(* DraftTagsService: every handler begins with findBySlug of the space.    *)

TagCall(w, call, pc, s, p, t, name) ==
    /\ Takes(w, call) /\ SpaceLive(s)
    /\ Begin(w, [Free EXCEPT !.pc = pc, !.space = s, !.page = p, !.tag = t, !.title = name])
    /\ UNCHANGED <<spaces, tree, tags, labels>>

TagNameTaken(s, name) == \E t \in TagIds : TagIn(t, s) /\ tags[t].name = name

FindTagName(w) ==
    /\ On(w, "tagFind")
    /\ IF TagNameTaken(ask[w].space, ask[w].title) THEN Answer(w) ELSE Step(w, "tagInsert")
    /\ UNCHANGED <<spaces, tree, tags, labels>>

(* @@unique([spaceId, name]): the loser of a race is refused here *)
InsertTag(w) ==
    LET r == ask[w] IN
    /\ On(w, "tagInsert") /\ SpaceLive(r.space)
    /\ IF TagNameTaken(r.space, r.title) THEN UNCHANGED tags
       ELSE \E t \in TagIds :
               /\ tags[t].row = "unborn"
               /\ tags' = [tags EXCEPT ![t] =
                              [row |-> "live", space |-> r.space, name |-> r.title]]
    /\ Answer(w)
    /\ UNCHANGED <<spaces, tree, labels>>

FindTag(w) ==
    /\ On(w, "tagPick")
    /\ IF TagIn(ask[w].tag, ask[w].space) THEN Step(w, "tagDelete") ELSE Answer(w)
    /\ UNCHANGED <<spaces, tree, tags, labels>>

DeleteTag(w) ==
    LET t == ask[w].tag IN
    /\ On(w, "tagDelete") /\ tags[t].row = "live"
    /\ tags' = [tags EXCEPT ![t].row = "gone"]
    /\ labels' = {l \in labels : l[2] # t}
    /\ Answer(w)
    /\ UNCHANGED <<spaces, tree>>

(* The page and the tag are read side by side (Promise.all). *)
FindPageAndTag(w) ==
    LET r == ask[w] IN
    /\ On(w, "assignFind")
    /\ IF InSpace(r.page, r.space) /\ TagIn(r.tag, r.space) THEN Step(w, "assignUpsert")
       ELSE Answer(w)
    /\ UNCHANGED <<spaces, tree, tags, labels>>

AssignTag(w) ==
    LET r == ask[w] IN
    /\ On(w, "assignUpsert") /\ Kept(r.page) /\ tags[r.tag].row = "live"
    /\ labels' = labels \cup {<<r.page, r.tag>>}
    /\ Answer(w)
    /\ UNCHANGED <<spaces, tree, tags>>

(* A trashed page is found, too. *)
FindLabelledPage(w) ==
    LET r == ask[w] IN
    /\ On(w, "unassignFind")
    /\ IF Kept(r.page) /\ tree[r.page].space = r.space THEN Step(w, "unassignDelete")
       ELSE Answer(w)
    /\ UNCHANGED <<spaces, tree, tags, labels>>

UnassignTag(w) ==
    LET r == ask[w] IN
    /\ On(w, "unassignDelete")
    /\ labels' = labels \ {<<r.page, r.tag>>}
    /\ Answer(w)
    /\ UNCHANGED <<spaces, tree, tags>>

-----------------------------------------------------------------------------
(* P2025 or a foreign key violation: the row a write needs is gone. *)
TreeWriteRejected(w) ==
    LET r == ask[w] IN
    /\ \/ r.pc \in {"spaceDelete", "pageInsert", "tagInsert"} /\ ~SpaceLive(r.space)
       \/ /\ r.pc \in {"pageInsert", "pageWrite"}
          /\ r.parent # NIL /\ ~Kept(r.parent)
       \/ r.pc \in {"pageWrite", "trashWrite", "assignUpsert"} /\ ~Kept(r.page)
       \/ r.pc \in {"tagDelete", "assignUpsert"} /\ tags[r.tag].row # "live"
    /\ Answer(w)
    /\ UNCHANGED <<spaces, tree, tags, labels>>

(* The bounds on identifiers: an insert needs a fresh one. *)
SpacesLeft == \E s \in SpaceIds : spaces[s].row = "unborn"
PagesLeft == \E p \in PageIds : tree[p].row = "unborn"
TagsLeft == \E t \in TagIds : tags[t].row = "unborn"

OutOfIds(w) ==
    /\ \/ On(w, "spaceInsert") /\ ~SpacesLeft
       \/ On(w, "pageInsert") /\ ~PagesLeft
       \/ On(w, "tagInsert") /\ ~TagsLeft
    /\ Answer(w)
    /\ UNCHANGED <<spaces, tree, tags, labels>>

TreeArrive(w) ==
    \/ \E t \in Titles : SpacesLeft /\ CreateSpace(w, t)
    \/ \E s \in SpaceIds :
          \/ FindSpaceToDelete(w, s)
          \/ \E parent \in {NIL} \cup PageIds, t \in Titles :
                PagesLeft /\ CreatePage(w, s, parent, t)
          \/ \E p \in PageIds, t \in {NIL} \cup Titles :
                \/ UpdatePage(w, s, p, FALSE, NIL, t, NIL)
                \/ UpdatePage(w, s, p, FALSE, NIL, t, 0)
                \/ \E parent \in {NIL} \cup PageIds : UpdatePage(w, s, p, TRUE, parent, t, NIL)
          \/ \E t \in Titles : TagsLeft /\ TagCall(w, "createTag", "tagFind", s, NIL, NIL, t)
          \/ \E t \in TagIds : TagCall(w, "deleteTag", "tagPick", s, NIL, t, NIL)
          \/ \E p \in PageIds, t \in TagIds :
                \/ TagCall(w, "assign", "assignFind", s, p, t, NIL)
                \/ TagCall(w, "unassign", "unassignFind", s, p, t, NIL)
    \/ \E p \in PageIds : FindPageToTrash(w, p)

TreeContinue(w) ==
    \/ ProbeSpaceSlug(w) \/ InsertSpace(w) \/ RemoveSpace(w)
    \/ CheckParent(w) \/ PickPosition(w) \/ ProbePageSlug(w, "pageSlug", "pageInsert")
    \/ InsertPage(w)
    \/ FindPage(w) \/ CheckNewParent(w) \/ ProbePageSlug(w, "renameSlug", "pageWrite")
    \/ WritePage(w) \/ TrashPage(w)
    \/ FindTagName(w) \/ InsertTag(w) \/ FindTag(w) \/ DeleteTag(w)
    \/ FindPageAndTag(w) \/ AssignTag(w) \/ FindLabelledPage(w) \/ UnassignTag(w)
    \/ TreeWriteRejected(w) \/ OutOfIds(w)

TreeNext == \E w \in Clients : TreeArrive(w) \/ TreeContinue(w)

TreeSpec == TreeInit /\ [][TreeNext]_treeVars

-----------------------------------------------------------------------------
(* Properties.                                                             *)

(* Types of the variables. *)
TreeTypeOK ==
    /\ spaces \in [SpaceIds -> SpaceRow]
    /\ tree \in [PageIds -> LeafRow]
    /\ tags \in [TagIds -> TagRow]
    /\ labels \subseteq PageIds \X TagIds
    /\ ask \in [Clients -> Ask]

(* A workspace is closed: a page stored in it lies under a stored page of   *)
(* the same workspace, or under none, and carries only tags of it, whatever *)
(* moves, deletions and assignments overlap.                               *)
WorkspaceClosed ==
    /\ \A p \in PageIds : Kept(p) =>
          /\ SpaceLive(tree[p].space)
          /\ tree[p].parent # NIL =>
                Kept(tree[p].parent) /\ tree[tree[p].parent].space = tree[p].space
    /\ \A l \in labels : Kept(l[1]) /\ TagIn(l[2], tree[l[1]].space)

(* The slug of a page is chosen by queries and written later, so two pages  *)
(* may share one; but never more than there were requests in flight.       *)
SlugOvershootBounded ==
    \A s \in SpaceIds : \A slug \in {tree[p].slug : p \in PageIds} :
        Cardinality({p \in PageIds : InSpace(p, s) /\ tree[p].slug = slug})
            <= Cardinality(Clients)

(* specs/010-personal-drafts-editor/spec.md:32: pages nest, and "the visual *)
(* hierarchy is preserved and easily navigable".  Then no page lies below   *)
(* itself: of any pages one has a parent that is not among them.            *)
HierarchyPreserved ==
    \A ring \in SUBSET PageIds : ring # {} /\ (\A p \in ring : Kept(p)) =>
        \E p \in ring : tree[p].parent \notin ring
=============================================================================
