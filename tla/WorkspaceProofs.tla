--------------------------- MODULE WorkspaceProofs ---------------------------
(***************************************************************************)
(* Theorems about a candidate's workspaces (DraftTree), the templates kept *)
(* in them (DraftTemplates) and the files beside them (StoredFiles), for   *)
(* every number of requests, rows and keys.                                *)
(***************************************************************************)
EXTENDS Workspace, FiniteSetTheorems, TLAPS

-----------------------------------------------------------------------------
(* The tree: types, and the locals a handler has assigned by the time it    *)
(* reaches a statement.                                                    *)

SpacePCs == {"spaceDelete", "pageParent", "pagePosition", "pageSlug", "pageInsert",
             "pageFind", "moveParent", "renameSlug", "pageWrite", "tagFind", "tagInsert",
             "tagPick", "tagDelete", "assignFind", "assignUpsert", "unassignFind",
             "unassignDelete"}
TitlePCs == {"spaceSlug", "spaceInsert", "pageParent", "pagePosition", "pageSlug",
             "pageInsert", "renameSlug", "tagFind", "tagInsert"}
OnePagePCs == {"pageFind", "moveParent", "renameSlug", "pageWrite", "trashWrite", "assignFind",
               "assignUpsert", "unassignFind", "unassignDelete"}
TagPCs == {"tagPick", "tagDelete", "assignFind", "assignUpsert", "unassignFind",
           "unassignDelete"}

AskAssigned(r) ==
    /\ r.pc \in SpacePCs => r.space \in SpaceIds
    /\ r.pc \in TitlePCs => r.title \in Titles
    /\ r.pc \in OnePagePCs => r.page \in PageIds
    /\ r.pc \in TagPCs => r.tag \in TagIds
    /\ r.pc \in {"pageParent", "moveParent"} => r.parent \in PageIds

TreeTypes ==
    /\ TreeTypeOK
    /\ \A w \in Clients : AskAssigned(ask[w])
    /\ \A p \in PageIds : Kept(p) => tree[p].space \in SpaceIds

TreeRows == <<spaces, tree, tags, labels>>
ArrivalPCs == {"spaceSlug", "spaceDelete", "pageParent", "pagePosition", "pageFind",
               "trashWrite", "tagFind", "tagPick", "assignFind", "unassignFind"}

(* A request that arrives has read nothing but its space, or a page.        *)
TreeArrived(w) ==
    /\ UNCHANGED TreeRows
    /\ \E r \in Ask : /\ AskAssigned(r) /\ r.pc \in ArrivalPCs
                      /\ r.pc = "pagePosition" => r.parent = NIL
                      /\ ask' = [ask EXCEPT ![w] = r]

LEMMA TreeArriveStep ==
  ASSUME TreeTypes, NEW w \in Clients, TreeArrive(w)
  PROVE  TreeArrived(w)
<1> USE DEF TreeArrived, TreeRows, ArrivalPCs, SpacePCs, TitlePCs, OnePagePCs, TagPCs
<1>1. ASSUME NEW t \in Titles, CreateSpace(w, t)
      PROVE  TreeArrived(w)
  <2> DEFINE r == [Free EXCEPT !.pc = "spaceSlug", !.title = t]
  <2>1. r \in Ask /\ AskAssigned(r) /\ r.pc = "spaceSlug"
    BY DEF Free, Ask, TreePC, AskAssigned
  <2>2. QED
    BY <1>1, <2>1 DEF CreateSpace, Begin
<1>2. ASSUME NEW s \in SpaceIds, FindSpaceToDelete(w, s)
      PROVE  TreeArrived(w)
  <2> DEFINE r == [Free EXCEPT !.pc = "spaceDelete", !.space = s]
  <2>1. r \in Ask /\ AskAssigned(r) /\ r.pc = "spaceDelete"
    BY DEF Free, Ask, TreePC, AskAssigned
  <2>2. QED
    BY <1>2, <2>1 DEF FindSpaceToDelete, Begin
<1>3. ASSUME NEW s \in SpaceIds, NEW parent \in {NIL} \cup PageIds, NEW t \in Titles,
             CreatePage(w, s, parent, t)
      PROVE  TreeArrived(w)
  <2> DEFINE r == [Free EXCEPT !.pc = IF parent = NIL THEN "pagePosition" ELSE "pageParent",
                               !.space = s, !.parent = parent, !.title = t]
  <2>1. r \in Ask /\ AskAssigned(r) /\ r.pc \in {"pagePosition", "pageParent"}
        /\ (r.pc = "pagePosition" => r.parent = NIL)
    BY DEF Free, Ask, TreePC, AskAssigned
  <2>2. QED
    BY <1>3, <2>1 DEF CreatePage, Begin
<1>4. ASSUME NEW s \in SpaceIds, NEW p \in PageIds, NEW moves \in BOOLEAN,
             NEW parent \in {NIL} \cup PageIds, NEW t \in {NIL} \cup Titles,
             NEW position \in {NIL, 0}, UpdatePage(w, s, p, moves, parent, t, position)
      PROVE  TreeArrived(w)
  <2> DEFINE r == [Free EXCEPT !.pc = "pageFind", !.space = s, !.page = p, !.moves = moves,
                             !.parent = parent, !.title = t, !.reorders = position # NIL,
                             !.position = IF position = NIL THEN 0 ELSE position]
  <2>1. (position # NIL) \in BOOLEAN /\ (IF position = NIL THEN 0 ELSE position) \in Nat
    OBVIOUS
  <2>2. r \in Ask /\ AskAssigned(r) /\ r.pc = "pageFind"
    BY <2>1 DEF Free, Ask, TreePC, AskAssigned
  <2>3. QED
    BY <1>4, <2>2 DEF UpdatePage, Begin
<1>5. ASSUME NEW s \in SpaceIds, NEW p \in {NIL} \cup PageIds, NEW t \in {NIL} \cup TagIds,
             NEW name \in {NIL} \cup Titles, NEW call, NEW pc,
             \/ pc = "tagFind" /\ name \in Titles
             \/ pc = "tagPick" /\ t \in TagIds
             \/ pc \in {"assignFind", "unassignFind"} /\ p \in PageIds /\ t \in TagIds,
             TagCall(w, call, pc, s, p, t, name)
      PROVE  TreeArrived(w)
  <2> DEFINE r == [Free EXCEPT !.pc = pc, !.space = s, !.page = p, !.tag = t, !.title = name]
  <2>1. r \in Ask /\ AskAssigned(r) /\ r.pc = pc
    BY <1>5 DEF Free, Ask, TreePC, AskAssigned
  <2>2. QED
    BY <1>5, <2>1 DEF TagCall, Begin
<1>6. ASSUME NEW p \in PageIds, FindPageToTrash(w, p)
      PROVE  TreeArrived(w)
  <2> DEFINE r == [Free EXCEPT !.pc = "trashWrite", !.page = p]
  <2>1. r \in Ask /\ AskAssigned(r) /\ r.pc = "trashWrite"
    BY DEF Free, Ask, TreePC, AskAssigned
  <2>2. QED
    BY <1>6, <2>1 DEF FindPageToTrash, Begin
<1>7. QED
  <2> HIDE DEF TreeArrived
  <2>1. ASSUME NEW s \in SpaceIds, NEW p \in PageIds, NEW t \in {NIL} \cup Titles,
               \/ UpdatePage(w, s, p, FALSE, NIL, t, NIL)
               \/ UpdatePage(w, s, p, FALSE, NIL, t, 0)
               \/ \E parent \in {NIL} \cup PageIds : UpdatePage(w, s, p, TRUE, parent, t, NIL)
        PROVE  TreeArrived(w)
    BY <1>4, <2>1
  <2>2. ASSUME NEW s \in SpaceIds,
               \/ \E t \in Titles : TagCall(w, "createTag", "tagFind", s, NIL, NIL, t)
               \/ \E t \in TagIds : TagCall(w, "deleteTag", "tagPick", s, NIL, t, NIL)
               \/ \E p \in PageIds, t \in TagIds :
                     \/ TagCall(w, "assign", "assignFind", s, p, t, NIL)
                     \/ TagCall(w, "unassign", "unassignFind", s, p, t, NIL)
        PROVE  TreeArrived(w)
    BY <1>5, <2>2
  <2>3. QED
    BY <1>1, <1>2, <1>3, <1>6, <2>1, <2>2 DEF TreeArrive

(* The locals stay what they are while a request goes on.                  *)
AsksOK == ask \in [Clients -> Ask] /\ \A w \in Clients : AskAssigned(ask[w])

LEMMA AskSteps ==
  ASSUME TreeTypes, NEW w \in Clients,
         \/ Answer(w)
         \/ \E pc \in TreePC : Step(w, pc) /\ AskAssigned([ask[w] EXCEPT !.pc = pc])
         \/ ask' = [ask EXCEPT ![w].n = @ + 1]
  PROVE  AsksOK'
<1>1. ask[w] \in Ask /\ Free \in Ask
  BY DEF TreeTypes, TreeTypeOK, Ask, Free, TreePC
<1>2. ASSUME NEW r \in Ask, AskAssigned(r), ask' = [ask EXCEPT ![w] = r]
      PROVE  AsksOK'
  BY <1>2 DEF TreeTypes, TreeTypeOK, AsksOK
<1>3. CASE Answer(w)
  <2>1. AskAssigned(Free)
    BY DEF Free, AskAssigned, SpacePCs, TitlePCs, OnePagePCs, TagPCs
  <2>2. QED
    BY <1>1, <1>2, <1>3, <2>1 DEF Answer
<1>4. ASSUME NEW pc \in TreePC, Step(w, pc), AskAssigned([ask[w] EXCEPT !.pc = pc])
      PROVE  AsksOK'
  <2>1. [ask[w] EXCEPT !.pc = pc] \in Ask
    BY <1>1 DEF Ask
  <2>2. ask' = [ask EXCEPT ![w] = [ask[w] EXCEPT !.pc = pc]]
    BY <1>4 DEF Step, TreeTypes, TreeTypeOK
  <2>3. QED
    BY <1>2, <1>4, <2>1, <2>2
<1>5. CASE ask' = [ask EXCEPT ![w].n = @ + 1]
  <2> DEFINE r == [ask[w] EXCEPT !.n = @ + 1]
  <2>1. r \in Ask
    BY <1>1 DEF Ask
  <2>2. AskAssigned(r)
    BY <1>1 DEF TreeTypes, AskAssigned, Ask
  <2>3. ask' = [ask EXCEPT ![w] = r]
    BY <1>5 DEF TreeTypes, TreeTypeOK
  <2>4. QED
    BY <1>2, <2>1, <2>2, <2>3
<1>6. QED
  BY <1>3, <1>4, <1>5

LEMMA TreeContinueAsks ==
  ASSUME TreeTypes, NEW w \in Clients, TreeContinue(w)
  PROVE  AsksOK'
<1>1. ask[w] \in Ask /\ AskAssigned(ask[w])
  BY DEF TreeTypes, TreeTypeOK
<1> USE DEF AskAssigned, SpacePCs, TitlePCs, OnePagePCs, TagPCs
<1>2. CASE ProbeSpaceSlug(w)
  BY <1>1, <1>2, AskSteps DEF ProbeSpaceSlug, On, Ask, TreePC
<1>3. CASE \/ InsertSpace(w) \/ RemoveSpace(w) \/ InsertPage(w) \/ WritePage(w)
           \/ TrashPage(w) \/ InsertTag(w) \/ DeleteTag(w) \/ AssignTag(w) \/ UnassignTag(w)
           \/ TreeWriteRejected(w) \/ OutOfIds(w)
  <2>1. Answer(w)
    BY <1>3 DEF InsertSpace, RemoveSpace, InsertPage, WritePage, TrashPage, InsertTag,
       DeleteTag, AssignTag, UnassignTag, TreeWriteRejected, OutOfIds
  <2>2. QED
    BY <2>1, AskSteps
<1>4. CASE CheckParent(w) \/ CheckNewParent(w)
  <2>1. CASE Answer(w)
    BY <2>1, AskSteps
  <2>2. CASE CheckParent(w) /\ Step(w, "pagePosition")
    BY <1>1, <2>2, AskSteps DEF CheckParent, On, Ask, TreePC
  <2>3. CASE CheckNewParent(w) /\ Step(w, AfterMove(ask[w]))
    BY <1>1, <2>3, AskSteps DEF CheckNewParent, AfterMove, On, Ask, TreePC
  <2>4. QED
    BY <1>4, <2>1, <2>2, <2>3 DEF CheckParent, CheckNewParent
<1>5. CASE PickPosition(w)
  <2>1. PICK last \in Siblings(ask[w].space, ask[w].parent) \cup {NIL} :
           /\ last = NIL <=> Siblings(ask[w].space, ask[w].parent) = {}
           /\ ask' = [ask EXCEPT ![w].pc = "pageSlug",
                         ![w].position = IF last = NIL THEN 0 ELSE tree[last].position + 1]
    BY <1>5 DEF PickPosition
  <2> DEFINE position == IF last = NIL THEN 0 ELSE tree[last].position + 1
             r == [ask[w] EXCEPT !.pc = "pageSlug", !.position = position]
  <2>2. position \in Nat
    BY <2>1 DEF Siblings, TreeTypes, TreeTypeOK, LeafRow
  <2>3. ask[w].pc = "pagePosition"
    BY <1>5 DEF PickPosition, On
  <2>4. r \in Ask
    BY <1>1, <2>2 DEF Ask, TreePC
  <2>5. r.pc = "pageSlug" /\ r.space = ask[w].space /\ r.title = ask[w].title
    BY <1>1 DEF Ask
  <2>6. AskAssigned(r)
    BY <1>1, <2>3, <2>5
  <2>7. ask' = [ask EXCEPT ![w] = r]
    BY <2>1 DEF TreeTypes, TreeTypeOK
  <2>8. QED
    BY <2>4, <2>6, <2>7 DEF AsksOK, TreeTypes, TreeTypeOK
<1>6. CASE ProbePageSlug(w, "pageSlug", "pageInsert") \/ ProbePageSlug(w, "renameSlug", "pageWrite")
  <2>1. CASE ask' = [ask EXCEPT ![w].n = @ + 1]
    BY <2>1, AskSteps
  <2>2. CASE On(w, "pageSlug") /\ Step(w, "pageInsert")
    BY <1>1, <2>2, AskSteps DEF On, Ask, TreePC
  <2>3. CASE On(w, "renameSlug") /\ Step(w, "pageWrite")
    BY <1>1, <2>3, AskSteps DEF On, Ask, TreePC
  <2>4. QED
    BY <1>6, <2>1, <2>2, <2>3 DEF ProbePageSlug
<1>7. CASE FindPage(w)
  <2>1. CASE Answer(w)
    BY <2>1, AskSteps
  <2>2. CASE On(w, "pageFind") /\ Step(w, AfterMove(ask[w]))
    BY <1>1, <2>2, AskSteps DEF AfterMove, On, Ask, TreePC
  <2>3. CASE On(w, "pageFind") /\ Step(w, "moveParent") /\ ask[w].parent # NIL
    BY <1>1, <2>3, AskSteps DEF On, Ask, TreePC
  <2>4. QED
    BY <1>7, <2>1, <2>2, <2>3 DEF FindPage
<1>8. CASE FindTagName(w) \/ FindTag(w) \/ FindPageAndTag(w) \/ FindLabelledPage(w)
  <2>1. CASE Answer(w)
    BY <2>1, AskSteps
  <2>2. CASE On(w, "tagFind") /\ Step(w, "tagInsert")
    BY <1>1, <2>2, AskSteps DEF On, Ask, TreePC
  <2>3. CASE On(w, "tagPick") /\ Step(w, "tagDelete")
    BY <1>1, <2>3, AskSteps DEF On, Ask, TreePC
  <2>4. CASE On(w, "assignFind") /\ Step(w, "assignUpsert")
    BY <1>1, <2>4, AskSteps DEF On, Ask, TreePC
  <2>5. CASE On(w, "unassignFind") /\ Step(w, "unassignDelete")
    BY <1>1, <2>5, AskSteps DEF On, Ask, TreePC
  <2>6. QED
    BY <1>8, <2>1, <2>2, <2>3, <2>4, <2>5
    DEF FindTagName, FindTag, FindPageAndTag, FindLabelledPage
<1>9. QED
  BY <1>2, <1>3, <1>4, <1>5, <1>6, <1>7, <1>8 DEF TreeContinue

-----------------------------------------------------------------------------
(* What a check has seen of a page or a tag stays true of it: a row that was *)
(* born keeps its space.                                                   *)
Under(p, s) == tree[p].row # "unborn" /\ tree[p].space = s
Tagged(t, s) == tags[t].row # "unborn" /\ tags[t].space = s

AskFacts(r) ==
    /\ /\ \/ r.pc \in {"pagePosition", "pageSlug", "pageInsert"}
          \/ r.moves /\ r.pc \in {"renameSlug", "pageWrite"}
       /\ r.parent # NIL
       => r.parent \in PageIds /\ Under(r.parent, r.space)
    /\ r.pc \in {"moveParent", "renameSlug", "pageWrite", "assignUpsert"} => Under(r.page, r.space)
    /\ r.pc = "assignUpsert" => Tagged(r.tag, r.space)

TreeInv == TreeTypes /\ (\A w \in Clients : AskFacts(ask[w])) /\ WorkspaceClosed

Settled ==
    /\ \A p \in PageIds : tree[p].row # "unborn" =>
          tree'[p].row # "unborn" /\ tree'[p].space = tree[p].space
    /\ \A t \in TagIds : tags[t].row # "unborn" =>
          tags'[t].row # "unborn" /\ tags'[t].space = tags[t].space

RowsOK ==
    /\ spaces \in [SpaceIds -> SpaceRow] /\ tree \in [PageIds -> LeafRow]
    /\ tags \in [TagIds -> TagRow] /\ labels \subseteq PageIds \X TagIds
    /\ \A p \in PageIds : Kept(p) => tree[p].space \in SpaceIds

TreeWrites(w) ==
    \/ InsertSpace(w) \/ RemoveSpace(w) \/ InsertPage(w) \/ WritePage(w) \/ TrashPage(w)
    \/ InsertTag(w) \/ DeleteTag(w) \/ AssignTag(w) \/ UnassignTag(w)

LEMMA TreeReads ==
  ASSUME NEW w \in Clients, TreeContinue(w), ~TreeWrites(w)
  PROVE  UNCHANGED TreeRows
  BY DEF TreeContinue, TreeWrites, TreeRows, ProbeSpaceSlug, CheckParent, PickPosition,
     ProbePageSlug, FindPage, CheckNewParent, FindTagName, FindTag, FindPageAndTag,
     FindLabelledPage, TreeWriteRejected, OutOfIds

(* The types a write leaves, and what it settles.                          *)
LEMMA TreeWriteRows ==
  ASSUME TreeInv, NEW w \in Clients, TreeWrites(w)
  PROVE  RowsOK' /\ Settled
<1> USE DEF RowsOK, Settled, TreeInv, TreeTypes, TreeTypeOK
<1>1. ask[w] \in Ask /\ AskAssigned(ask[w]) /\ AskFacts(ask[w])
  OBVIOUS
<1>2. \A t \in Titles, n \in Nat : SlugOf(t, n) \in Slug
  BY DEF SlugOf, Slug
<1>3. CASE InsertSpace(w)
  BY <1>1, <1>2, <1>3 DEF InsertSpace, On, AskAssigned, TitlePCs, Ask, SpaceRow, Kept
<1>4. CASE RemoveSpace(w)
  <2> DEFINE s == ask[w].space
  <2>1. /\ spaces' = [spaces EXCEPT ![s].row = "gone"]
        /\ tree' = [p \in PageIds |-> IF tree[p].space = s
                                      THEN [tree[p] EXCEPT !.row = "gone"] ELSE tree[p]]
        /\ tags' = [t \in TagIds |-> IF tags[t].space = s
                                     THEN [tags[t] EXCEPT !.row = "gone"] ELSE tags[t]]
        /\ labels' \subseteq labels
    BY <1>4 DEF RemoveSpace
  <2>2. spaces' \in [SpaceIds -> SpaceRow]
    BY <2>1 DEF SpaceRow
  <2>3. \A p \in PageIds : /\ tree'[p] \in LeafRow /\ tree'[p].space = tree[p].space
                           /\ tree'[p].row \in {tree[p].row, "gone"}
    BY <2>1 DEF LeafRow
  <2>4. \A t \in TagIds : /\ tags'[t] \in TagRow /\ tags'[t].space = tags[t].space
                          /\ tags'[t].row \in {tags[t].row, "gone"}
    BY <2>1 DEF TagRow
  <2>5. tree' \in [PageIds -> LeafRow] /\ tags' \in [TagIds -> TagRow]
    BY <2>1, <2>3, <2>4
  <2>6. QED
    BY <2>1, <2>2, <2>3, <2>4, <2>5 DEF Kept
<1>5. CASE InsertPage(w)
  <2>1. PICK p \in PageIds :
           /\ tree[p].row = "unborn"
           /\ tree' = [tree EXCEPT ![p] =
                 [row |-> "live", space |-> ask[w].space, parent |-> ask[w].parent,
                  slug |-> SlugOf(ask[w].title, ask[w].n), position |-> ask[w].position]]
    BY <1>5 DEF InsertPage
  <2>2. ask[w].space \in SpaceIds /\ ask[w].title \in Titles
    BY <1>1, <1>5 DEF InsertPage, On, AskAssigned, SpacePCs, TitlePCs
  <2>3. [row |-> "live", space |-> ask[w].space, parent |-> ask[w].parent,
         slug |-> SlugOf(ask[w].title, ask[w].n), position |-> ask[w].position] \in LeafRow
    BY <1>1, <1>2, <2>2 DEF LeafRow, Ask
  <2>4. QED
    BY <1>5, <2>1, <2>2, <2>3 DEF InsertPage, Kept
<1>6. CASE WritePage(w)
  <2> DEFINE r == ask[w]
             row == [tree[r.page] EXCEPT
                        !.parent = IF r.moves THEN r.parent ELSE @,
                        !.slug = IF r.title = NIL THEN @ ELSE SlugOf(r.title, r.n),
                        !.position = IF r.reorders THEN r.position ELSE @]
  <2>1. r.page \in PageIds /\ (r.title # NIL => r.title \in Titles)
    BY <1>1, <1>6 DEF WritePage, On, AskAssigned, OnePagePCs, Ask
  <2>2. tree' = [tree EXCEPT ![r.page] = row]
    BY <1>6, <2>1 DEF WritePage
  <2>3. row \in LeafRow /\ row.row = tree[r.page].row /\ row.space = tree[r.page].space
    <3>1. tree[r.page] \in LeafRow
      BY <2>1
    <3>2. /\ (IF r.moves THEN r.parent ELSE tree[r.page].parent) \in {NIL} \cup PageIds
          /\ (IF r.title = NIL THEN tree[r.page].slug ELSE SlugOf(r.title, r.n)) \in {NIL} \cup Slug
          /\ (IF r.reorders THEN r.position ELSE tree[r.page].position) \in Nat
      BY <1>1, <1>2, <2>1, <3>1 DEF LeafRow, Ask
    <3>3. QED
      BY <3>1, <3>2 DEF LeafRow
  <2>4. \A p \in PageIds : tree'[p] \in LeafRow /\ tree'[p].space = tree[p].space
                           /\ tree'[p].row = tree[p].row
    BY <2>1, <2>2, <2>3
  <2>5. tree' \in [PageIds -> LeafRow]
    BY <2>2, <2>4
  <2>6. QED
    BY <1>6, <2>4, <2>5 DEF WritePage, Kept
<1>7. CASE TrashPage(w)
  BY <1>1, <1>7 DEF TrashPage, On, AskAssigned, OnePagePCs, LeafRow, Kept
<1>8. CASE InsertTag(w)
  BY <1>1, <1>8 DEF InsertTag, On, AskAssigned, SpacePCs, TitlePCs, TagRow, Kept
<1>9. CASE DeleteTag(w)
  BY <1>1, <1>9 DEF DeleteTag, On, AskAssigned, TagPCs, TagRow, Kept
<1>10. CASE AssignTag(w)
  BY <1>1, <1>10 DEF AssignTag, On, AskAssigned, OnePagePCs, TagPCs, Kept
<1>11. CASE UnassignTag(w)
  BY <1>1, <1>11 DEF UnassignTag, Kept
<1>12. QED
  BY <1>3, <1>4, <1>5, <1>6, <1>7, <1>8, <1>9, <1>10, <1>11 DEF TreeWrites

(* A write leaves the workspaces closed.                                   *)
LEMMA TreeWriteCloses ==
  ASSUME TreeInv, NEW w \in Clients, TreeWrites(w)
  PROVE  WorkspaceClosed'
<1> USE DEF WorkspaceClosed, Kept, SpaceLive, TagIn, TreeInv, TreeTypes, TreeTypeOK
<1>1. ask[w] \in Ask /\ AskAssigned(ask[w]) /\ AskFacts(ask[w])
  OBVIOUS
<1>2. NIL \notin PageIds
  BY NilAssumption
<1>3. CASE InsertSpace(w)
  BY <1>3 DEF InsertSpace, SpaceRow
<1>4. CASE RemoveSpace(w)
  BY <1>4 DEF RemoveSpace, SpaceRow, LeafRow, TagRow
<1>5. CASE InsertPage(w)
  <2>1. PICK p \in PageIds :
           /\ tree[p].row = "unborn"
           /\ tree' = [tree EXCEPT ![p] =
                 [row |-> "live", space |-> ask[w].space, parent |-> ask[w].parent,
                  slug |-> SlugOf(ask[w].title, ask[w].n), position |-> ask[w].position]]
    BY <1>5 DEF InsertPage
  <2>2. /\ spaces[ask[w].space].row = "live"
        /\ ask[w].parent # NIL => /\ Kept(ask[w].parent) /\ ask[w].parent \in PageIds
                                  /\ tree[ask[w].parent].space = ask[w].space
    BY <1>1, <1>5 DEF InsertPage, On, AskFacts, Under
  <2>3. spaces' = spaces /\ tags' = tags /\ labels' = labels
    BY <1>5 DEF InsertPage
  <2>4. QED
    BY <1>2, <2>1, <2>2, <2>3 DEF LeafRow
<1>6. CASE WritePage(w)
  <2> DEFINE r == ask[w]
  <2>1. r.page \in PageIds
    BY <1>1, <1>6 DEF WritePage, On, AskAssigned, OnePagePCs
  <2>2. /\ \A p \in PageIds : tree'[p].row = tree[p].row /\ tree'[p].space = tree[p].space
        /\ \A p \in PageIds : \/ tree'[p].parent = tree[p].parent
                              \/ p = r.page /\ r.moves /\ tree'[p].parent = r.parent
    <3> DEFINE row == [tree[r.page] EXCEPT
                        !.parent = IF r.moves THEN r.parent ELSE @,
                        !.slug = IF r.title = NIL THEN @ ELSE SlugOf(r.title, r.n),
                        !.position = IF r.reorders THEN r.position ELSE @]
    <3>1. tree' = [tree EXCEPT ![r.page] = row]
      BY <1>6, <2>1 DEF WritePage
    <3>2. /\ row.row = tree[r.page].row /\ row.space = tree[r.page].space
          /\ r.moves => row.parent = r.parent
          /\ ~r.moves => row.parent = tree[r.page].parent
      BY <2>1 DEF LeafRow
    <3> HIDE DEF row
    <3>3. tree'[r.page] = row /\ \A p \in PageIds : p # r.page => tree'[p] = tree[p]
      BY <2>1, <3>1
    <3>4. r.moves \in BOOLEAN
      BY <1>1 DEF Ask
    <3>5. \A p \in PageIds : tree'[p].row = tree[p].row /\ tree'[p].space = tree[p].space
      BY <3>2, <3>3
    <3>6. ASSUME NEW p \in PageIds
          PROVE  \/ tree'[p].parent = tree[p].parent
                 \/ p = r.page /\ r.moves /\ tree'[p].parent = r.parent
      <4>1. CASE p # r.page
        BY <3>3, <4>1
      <4>2. CASE p = r.page /\ r.moves
        BY <3>2, <3>3, <4>2
      <4>3. CASE p = r.page /\ ~r.moves
        BY <3>2, <3>3, <4>3
      <4>4. QED
        BY <4>1, <4>2, <4>3
    <3>7. QED
      BY <3>5, <3>6
  <2>3. r.moves /\ r.parent # NIL =>
           Kept(r.parent) /\ r.parent \in PageIds /\ tree[r.parent].space = tree[r.page].space
    BY <1>1, <1>6 DEF WritePage, On, AskFacts, Under
  <2>4. spaces' = spaces /\ tags' = tags /\ labels' = labels
    BY <1>6 DEF WritePage
  <2>5. QED
    BY <1>2, <2>2, <2>3, <2>4 DEF LeafRow
<1>7. CASE TrashPage(w)
  BY <1>1, <1>2, <1>7 DEF TrashPage, On, AskAssigned, OnePagePCs, LeafRow
<1>8. CASE InsertTag(w)
  BY <1>1, <1>8 DEF InsertTag, TagRow
<1>9. CASE DeleteTag(w)
  BY <1>1, <1>9 DEF DeleteTag, On, AskAssigned, TagPCs, TagRow
<1>10. CASE AssignTag(w)
  BY <1>1, <1>10 DEF AssignTag, On, AskFacts, Under, Tagged
<1>11. CASE UnassignTag(w)
  BY <1>1, <1>11 DEF UnassignTag
<1>12. QED
  BY <1>3, <1>4, <1>5, <1>6, <1>7, <1>8, <1>9, <1>10, <1>11 DEF TreeWrites

-----------------------------------------------------------------------------
(* What requests have seen survives the steps of the others.               *)
LEMMA FactsSettled ==
  ASSUME TreeInv, Settled, NEW r \in Ask, AskAssigned(r), AskFacts(r)
  PROVE  AskFacts(r)'
<1>1. ASSUME NEW p \in PageIds, NEW s, Under(p, s)
      PROVE  Under(p, s)'
  BY <1>1 DEF Settled, Under
<1>2. ASSUME NEW t \in TagIds, NEW s, Tagged(t, s)
      PROVE  Tagged(t, s)'
  BY <1>2 DEF Settled, Tagged
<1>3. QED
  BY <1>1, <1>2 DEF AskFacts, AskAssigned, OnePagePCs, TagPCs

(* The facts a request sees by the step it makes.                          *)
LEMMA TreeContinueFacts ==
  ASSUME TreeInv, NEW w \in Clients, TreeContinue(w), UNCHANGED TreeRows
  PROVE  AskFacts(ask'[w])
<1>1. ask[w] \in Ask /\ AskAssigned(ask[w]) /\ AskFacts(ask[w])
  BY DEF TreeInv, TreeTypes, TreeTypeOK
<1>2. ask \in [Clients -> Ask]
  BY DEF TreeInv, TreeTypes, TreeTypeOK
<1>3. ASSUME NEW pc, Step(w, pc)
      PROVE  /\ ask'[w] = [ask[w] EXCEPT !.pc = pc]
             /\ ask'[w].pc = pc
             /\ ask'[w].space = ask[w].space /\ ask'[w].page = ask[w].page
             /\ ask'[w].parent = ask[w].parent /\ ask'[w].tag = ask[w].tag
             /\ ask'[w].moves = ask[w].moves
  BY <1>1, <1>2, <1>3 DEF Step, Ask
<1>4. CASE Answer(w)
  BY <1>2, <1>4 DEF Answer, Free, AskFacts
<1>5. CASE ProbeSpaceSlug(w) \/ FindTagName(w) \/ FindTag(w) \/ FindLabelledPage(w)
  <2>1. ASSUME NEW pc \in {"spaceInsert", "tagInsert", "tagDelete", "unassignDelete"}, Step(w, pc)
        PROVE  AskFacts(ask'[w])
    BY <1>3, <2>1 DEF AskFacts
  <2>2. CASE On(w, "spaceSlug") /\ ask' = [ask EXCEPT ![w].n = @ + 1]
    BY <1>1, <1>2, <2>2 DEF On, AskFacts, Ask
  <2>3. QED
    BY <1>4, <1>5, <2>1, <2>2 DEF ProbeSpaceSlug, FindTagName, FindTag, FindLabelledPage
<1>6. CASE CheckParent(w)
  <2>1. CASE Step(w, "pagePosition") /\ ParentAllowed(ask[w].parent, ask[w].space)
    BY <1>1, <1>3, <1>6, <2>1
    DEF CheckParent, On, AskAssigned, AskFacts, ParentAllowed, InSpace, Under
  <2>2. QED
    BY <1>4, <1>6, <2>1 DEF CheckParent
<1>7. CASE PickPosition(w)
  <2>1. /\ ask[w].pc = "pagePosition" /\ ask'[w].pc = "pageSlug"
        /\ ask'[w].space = ask[w].space /\ ask'[w].parent = ask[w].parent
        /\ ask'[w].moves = ask[w].moves
    BY <1>1, <1>2, <1>7 DEF PickPosition, On, Ask
  <2>2. QED
    BY <1>1, <2>1 DEF AskFacts
<1>8. CASE ProbePageSlug(w, "pageSlug", "pageInsert") \/ ProbePageSlug(w, "renameSlug", "pageWrite")
  <2>1. CASE ask' = [ask EXCEPT ![w].n = @ + 1]
    <3>1. /\ ask'[w].pc = ask[w].pc /\ ask'[w].space = ask[w].space /\ ask'[w].page = ask[w].page
          /\ ask'[w].parent = ask[w].parent /\ ask'[w].tag = ask[w].tag
          /\ ask'[w].moves = ask[w].moves
      BY <1>1, <1>2, <2>1 DEF Ask
    <3>2. QED
      BY <1>1, <3>1 DEF AskFacts
  <2>2. CASE On(w, "pageSlug") /\ Step(w, "pageInsert")
    <3>1. /\ ask'[w].pc = "pageInsert" /\ ask'[w].space = ask[w].space
          /\ ask'[w].parent = ask[w].parent
      BY <1>3, <2>2
    <3>2. QED
      BY <1>1, <2>2, <3>1 DEF On, AskFacts
  <2>3. CASE On(w, "renameSlug") /\ Step(w, "pageWrite")
    <3>1. /\ ask'[w].pc = "pageWrite" /\ ask'[w].space = ask[w].space
          /\ ask'[w].parent = ask[w].parent /\ ask'[w].page = ask[w].page
          /\ ask'[w].moves = ask[w].moves
      BY <1>3, <2>3
    <3>2. QED
      BY <1>1, <2>3, <3>1 DEF On, AskFacts
  <2>4. QED
    BY <1>8, <2>1, <2>2, <2>3 DEF ProbePageSlug
<1>9. CASE FindPage(w)
  <2> DEFINE r == ask[w]
             newParent == r.moves /\ r.parent # NIL /\ r.parent # tree[r.page].parent
  <2>1. CASE On(w, "pageFind") /\ InSpace(r.page, r.space)
               /\ \/ newParent /\ Step(w, "moveParent")
                  \/ ~newParent /\ Step(w, AfterMove(r))
    <3>1. r.page \in PageIds /\ Under(r.page, r.space) /\ Kept(r.page)
      BY <1>1, <2>1 DEF On, AskAssigned, OnePagePCs, InSpace, Under, Kept
    <3>2. CASE newParent /\ Step(w, "moveParent")
      <4>1. /\ ask'[w].pc = "moveParent" /\ ask'[w].page = r.page
            /\ ask'[w].space = r.space
        BY <1>3, <3>2
      <4>2. QED
        BY <3>1, <4>1 DEF AskFacts
    <3>3. CASE ~newParent /\ Step(w, AfterMove(r))
      <4>1. r.moves /\ r.parent # NIL => r.parent \in PageIds /\ Under(r.parent, r.space)
        <5>1. r.moves /\ r.parent # NIL => r.parent = tree[r.page].parent
          BY <3>3
        <5>2. r.moves /\ r.parent # NIL =>
                 Kept(r.parent) /\ tree[r.parent].space = tree[r.page].space
          BY <3>1, <5>1 DEF TreeInv, WorkspaceClosed
        <5>3. QED
          BY <1>1, <3>1, <5>2 DEF Under, Kept, Ask
      <4>2. /\ ask'[w].pc \in {"renameSlug", "pageWrite"} /\ ask'[w].page = r.page
            /\ ask'[w].space = r.space /\ ask'[w].parent = r.parent /\ ask'[w].moves = r.moves
        BY <1>3, <3>3 DEF AfterMove
      <4>3. QED
        BY <3>1, <4>1, <4>2 DEF AskFacts
    <3>4. QED
      BY <2>1, <3>2, <3>3
  <2>2. QED
    BY <1>4, <1>9, <2>1 DEF FindPage
<1>10. CASE CheckNewParent(w)
  <2>1. CASE Step(w, AfterMove(ask[w])) /\ ParentAllowed(ask[w].parent, ask[w].space)
    BY <1>1, <1>3, <1>10, <2>1
    DEF CheckNewParent, On, AfterMove, AskAssigned, AskFacts, ParentAllowed, InSpace, Under
  <2>2. QED
    BY <1>4, <1>10, <2>1 DEF CheckNewParent
<1>11. CASE FindPageAndTag(w)
  <2>1. CASE Step(w, "assignUpsert") /\ InSpace(ask[w].page, ask[w].space)
               /\ TagIn(ask[w].tag, ask[w].space)
    BY <1>3, <2>1 DEF AskFacts, InSpace, TagIn, Under, Tagged
  <2>2. QED
    BY <1>4, <1>11, <2>1 DEF FindPageAndTag
<1>12. CASE TreeWrites(w) \/ TreeWriteRejected(w) \/ OutOfIds(w)
  BY <1>4, <1>12 DEF TreeWrites, InsertSpace, RemoveSpace, InsertPage, WritePage, TrashPage,
     InsertTag, DeleteTag, AssignTag, UnassignTag, TreeWriteRejected, OutOfIds
<1>13. QED
  BY <1>5, <1>6, <1>7, <1>8, <1>9, <1>10, <1>11, <1>12 DEF TreeContinue, TreeWrites

LEMMA InitTreeInv == TreeInit => TreeInv
  BY NilAssumption DEF TreeInit, TreeInv, TreeTypes, TreeTypeOK, WorkspaceClosed, AskFacts,
     AskAssigned, SpacePCs, TitlePCs, OnePagePCs, TagPCs, Kept, Free, Ask, TreePC, SpaceRow,
     LeafRow, TagRow

(* One step of one request keeps the invariant: the row it writes is closed, *)
(* its own facts are those it has just read, and the others' are settled.  *)
LEMMA NextTreeInv == TreeInv /\ [TreeNext]_treeVars => TreeInv'
<1> SUFFICES ASSUME TreeInv, [TreeNext]_treeVars PROVE TreeInv'
  OBVIOUS
<1>1. TreeTypes /\ ask \in [Clients -> Ask]
      /\ \A w \in Clients : AskAssigned(ask[w]) /\ AskFacts(ask[w])
  BY DEF TreeInv, TreeTypes, TreeTypeOK
<1>2. ASSUME UNCHANGED TreeRows
      PROVE  RowsOK' /\ Settled /\ WorkspaceClosed'
  BY <1>1, <1>2 DEF TreeRows, RowsOK, Settled, WorkspaceClosed, TreeInv, TreeTypes,
     TreeTypeOK, Kept, SpaceLive, TagIn
<1>3. ASSUME RowsOK', AsksOK', WorkspaceClosed', \A v \in Clients : AskFacts(ask[v])'
      PROVE  TreeInv'
  BY <1>3 DEF TreeInv, TreeTypes, TreeTypeOK, RowsOK, AsksOK
<1>4. ASSUME NEW w \in Clients, NEW v \in Clients, v # w, Settled, ask'[v] = ask[v]
      PROVE  AskFacts(ask[v])'
  BY <1>1, <1>4, FactsSettled DEF AskFacts, Under, Tagged
<1>5. ASSUME NEW w \in Clients, TreeArrive(w)
      PROVE  TreeInv'
  <2>1. PICK r \in Ask : /\ AskAssigned(r) /\ r.pc \in ArrivalPCs
                         /\ r.pc = "pagePosition" => r.parent = NIL
                         /\ ask' = [ask EXCEPT ![w] = r]
    BY <1>1, <1>5, TreeArriveStep DEF TreeArrived
  <2>2. UNCHANGED TreeRows
    BY <1>1, <1>5, TreeArriveStep DEF TreeArrived
  <2>3. AsksOK'
    BY <1>1, <2>1 DEF AsksOK
  <2>4. AskFacts(ask[w])'
    BY <1>1, <2>1 DEF AskFacts, ArrivalPCs
  <2>5. \A v \in Clients : AskFacts(ask[v])'
    BY <1>1, <1>2, <1>4, <2>1, <2>2, <2>4
  <2>6. QED
    BY <1>2, <1>3, <2>2, <2>3, <2>5
<1>6. ASSUME NEW w \in Clients, TreeContinue(w)
      PROVE  TreeInv'
  <2>1. AsksOK'
    BY <1>1, <1>6, TreeContinueAsks
  <2>2. \A v \in Clients : v # w => ask'[v] = ask[v]
    BY <1>1, <1>6 DEF TreeContinue, Answer, Step, ProbeSpaceSlug, InsertSpace, RemoveSpace,
       CheckParent, PickPosition, ProbePageSlug, InsertPage, FindPage, CheckNewParent,
       WritePage, TrashPage, FindTagName, InsertTag, FindTag, DeleteTag, FindPageAndTag,
       AssignTag, FindLabelledPage, UnassignTag, TreeWriteRejected, OutOfIds
  <2>3. RowsOK' /\ Settled /\ WorkspaceClosed'
    BY <1>2, <1>6, TreeReads, TreeWriteRows, TreeWriteCloses
  <2>4. AskFacts(ask[w])'
    <3>1. CASE TreeWrites(w)
      <4>1. ask'[w] = Free
        BY <1>1, <3>1 DEF TreeWrites, Answer, InsertSpace, RemoveSpace, InsertPage, WritePage,
           TrashPage, InsertTag, DeleteTag, AssignTag, UnassignTag
      <4>2. QED
        BY <4>1 DEF AskFacts, Free
    <3>2. CASE ~TreeWrites(w)
      <4>1. UNCHANGED TreeRows
        BY <1>6, <3>2, TreeReads
      <4>2. AskFacts(ask'[w])
        BY <1>6, <4>1, TreeContinueFacts
      <4>3. QED
        BY <4>1, <4>2 DEF AskFacts, Under, Tagged, TreeRows
    <3>3. QED
      BY <3>1, <3>2
  <2>5. \A v \in Clients : AskFacts(ask[v])'
    BY <1>4, <2>2, <2>3, <2>4
  <2>6. QED
    BY <1>3, <2>1, <2>3, <2>5
<1>7. CASE UNCHANGED treeVars
  <2>1. UNCHANGED TreeRows /\ ask' = ask
    BY <1>7 DEF treeVars, TreeRows
  <2>2. AsksOK' /\ \A v \in Clients : AskFacts(ask[v])'
    BY <1>1, <2>1 DEF AsksOK, AskFacts, Under, Tagged, TreeRows
  <2>3. QED
    BY <1>2, <1>3, <2>1, <2>2
<1>8. QED
  BY <1>5, <1>6, <1>7 DEF TreeNext

(* The variables of the tree keep their types whatever requests overlap.   *)
THEOREM TreeTypeSafe == TreeSpec => []TreeTypeOK
<1>1. TreeInv => TreeTypeOK
  BY DEF TreeInv, TreeTypes
<1>2. QED
  BY InitTreeInv, NextTreeInv, <1>1, PTL DEF TreeSpec

(* Moves, deletions and assignments that overlap never leave a stored page  *)
(* under a page, or with a tag, of another workspace or of none.           *)
THEOREM WorkspacesClosed == TreeSpec => []WorkspaceClosed
<1>1. TreeInv => WorkspaceClosed
  BY DEF TreeInv
<1>2. QED
  BY InitTreeInv, NextTreeInv, <1>1, PTL DEF TreeSpec
-----------------------------------------------------------------------------
(* Slugs.  A slug of a workspace is held by its live pages and chosen by the *)
(* requests that found it free and have not written it yet.  Together they *)
(* are never more than the requests: one that finds the slug free finds no *)
(* page that holds it, and a write turns one that chose it into a holder.  *)
Holders(s, slug) == {p \in PageIds : InSpace(p, s) /\ tree[p].slug = slug}
Choosers(s, slug) ==
    {w \in Clients : /\ ask[w].pc \in {"pageInsert", "pageWrite"} /\ ask[w].title # NIL
                     /\ ask[w].space = s /\ SlugOf(ask[w].title, ask[w].n) = slug}

AnySlug == {NIL} \cup Slug

SlugCount ==
    \A s \in SpaceIds, slug \in AnySlug :
        /\ IsFiniteSet(Holders(s, slug))
        /\ Cardinality(Holders(s, slug)) + Cardinality(Choosers(s, slug)) <= Cardinality(Clients)

LEMMA CountStep ==
  ASSUME NEW H, NEW HH, NEW C \in SUBSET Clients, NEW CC \in SUBSET Clients, IsFiniteSet(H),
         Cardinality(H) + Cardinality(C) <= Cardinality(Clients),
         \/ HH \subseteq H /\ CC \subseteq C
         \/ HH = {}
         \/ \E p, w : HH \subseteq H \cup {p} /\ w \in C /\ CC \subseteq C \ {w}
  PROVE  IsFiniteSet(HH) /\ Cardinality(HH) + Cardinality(CC) <= Cardinality(Clients)
<1>1. /\ IsFiniteSet(Clients) /\ IsFiniteSet(C) /\ IsFiniteSet(CC)
      /\ Cardinality(Clients) \in Nat /\ Cardinality(C) \in Nat /\ Cardinality(CC) \in Nat
      /\ Cardinality(CC) <= Cardinality(Clients) /\ Cardinality(H) \in Nat
  BY ClientsAssumption, FS_Subset, FS_CardinalityType
<1>2. CASE HH \subseteq H /\ CC \subseteq C
  <2>1. IsFiniteSet(HH) /\ Cardinality(HH) <= Cardinality(H) /\ Cardinality(CC) <= Cardinality(C)
    BY <1>1, <1>2, FS_Subset
  <2>2. Cardinality(HH) \in Nat
    BY <2>1, FS_CardinalityType
  <2>3. QED
    BY <1>1, <2>1, <2>2
<1>3. CASE HH = {}
  BY <1>1, <1>3, FS_EmptySet
<1>4. ASSUME NEW p, NEW w, HH \subseteq H \cup {p}, w \in C, CC \subseteq C \ {w}
      PROVE  IsFiniteSet(HH) /\ Cardinality(HH) + Cardinality(CC) <= Cardinality(Clients)
  <2>1. IsFiniteSet(H \cup {p}) /\ Cardinality(H \cup {p}) <= Cardinality(H) + 1
    BY <1>1, FS_AddElement
  <2>2. IsFiniteSet(HH) /\ Cardinality(HH) <= Cardinality(H \cup {p})
    BY <1>4, <2>1, FS_Subset
  <2>3. IsFiniteSet(C \ {w}) /\ Cardinality(C \ {w}) = Cardinality(C) - 1
    BY <1>1, <1>4, FS_RemoveElement
  <2>4. Cardinality(CC) <= Cardinality(C \ {w})
    BY <1>4, <2>3, FS_Subset
  <2>5. Cardinality(HH) \in Nat /\ Cardinality(H \cup {p}) \in Nat
    BY <2>1, <2>2, FS_CardinalityType
  <2>6. QED
    BY <1>1, <2>1, <2>2, <2>3, <2>4, <2>5
<1>5. QED
  BY <1>2, <1>3, <1>4

(* How one step moves a slug.                                              *)
SlugMove(s, slug) ==
    \/ Holders(s, slug)' \subseteq Holders(s, slug) /\ Choosers(s, slug)' \subseteq Choosers(s, slug)
    \/ Holders(s, slug)' = {}
    \/ \E p, w : /\ Holders(s, slug)' \subseteq Holders(s, slug) \cup {p}
                 /\ w \in Choosers(s, slug)
                 /\ Choosers(s, slug)' \subseteq Choosers(s, slug) \ {w}

LEMMA SlugSteps ==
  ASSUME TreeInv, [TreeNext]_treeVars, NEW s \in SpaceIds, NEW slug \in AnySlug
  PROVE  SlugMove(s, slug)
<1>1. /\ ask \in [Clients -> Ask] /\ tree \in [PageIds -> LeafRow] /\ TreeTypes
      /\ \A w \in Clients : AskAssigned(ask[w]) /\ AskFacts(ask[w])
  BY DEF TreeInv, TreeTypes, TreeTypeOK
<1>2. ASSUME NEW w \in Clients, NEW r, ask' = [ask EXCEPT ![w] = r],
             r.pc \notin {"pageInsert", "pageWrite"} \/ r.title = NIL
      PROVE  Choosers(s, slug)' \subseteq Choosers(s, slug) \ {w}
  BY <1>1, <1>2 DEF Choosers
<1>3. ASSUME tree' = tree
      PROVE  Holders(s, slug)' = Holders(s, slug)
  BY <1>3 DEF Holders, InSpace
<1>4. ASSUME NEW w \in Clients, Answer(w)
      PROVE  Choosers(s, slug)' \subseteq Choosers(s, slug) \ {w}
  BY <1>2, <1>4 DEF Answer, Free
<1>5. ASSUME NEW w \in Clients, TreeArrive(w)
      PROVE  SlugMove(s, slug)
  <2>1. PICK r \in Ask : r.pc \in ArrivalPCs /\ ask' = [ask EXCEPT ![w] = r]
    BY <1>1, <1>5, TreeArriveStep DEF TreeArrived
  <2>2. tree' = tree
    BY <1>1, <1>5, TreeArriveStep DEF TreeArrived, TreeRows
  <2>3. Choosers(s, slug)' \subseteq Choosers(s, slug) \ {w}
    BY <1>2, <2>1 DEF ArrivalPCs
  <2>4. QED
    BY <1>3, <2>2, <2>3 DEF SlugMove
<1>6. ASSUME NEW w \in Clients, TreeContinue(w)
      PROVE  SlugMove(s, slug)
  <2>1. CASE Answer(w) /\ tree' = tree
    BY <1>3, <1>4, <2>1 DEF SlugMove
  <2>2. CASE tree' = tree /\ \E pc : Step(w, pc) /\ (pc \notin {"pageInsert", "pageWrite"}
                                                    \/ ask[w].title = NIL)
    <3>1. PICK pc : Step(w, pc) /\ (pc \notin {"pageInsert", "pageWrite"} \/ ask[w].title = NIL)
      BY <2>2
    <3> DEFINE r == [ask[w] EXCEPT !.pc = pc]
    <3>2. ask' = [ask EXCEPT ![w] = r] /\ r.pc = pc /\ r.title = ask[w].title
      BY <1>1, <3>1 DEF Step, Ask
    <3>3. Choosers(s, slug)' \subseteq Choosers(s, slug) \ {w}
      BY <1>2, <3>1, <3>2
    <3>4. QED
      BY <1>3, <2>2, <3>3 DEF SlugMove
  <2>3. CASE tree' = tree /\ ask[w].pc \notin {"pageInsert", "pageWrite"}
                /\ ask' = [ask EXCEPT ![w].n = @ + 1]
    <3> DEFINE r == [ask[w] EXCEPT !.n = @ + 1]
    <3>1. ask' = [ask EXCEPT ![w] = r] /\ r.pc = ask[w].pc
      BY <1>1, <2>3 DEF Ask
    <3>2. Choosers(s, slug)' \subseteq Choosers(s, slug) \ {w}
      BY <1>2, <2>3, <3>1
    <3>3. QED
      BY <1>3, <2>3, <3>2 DEF SlugMove
  <2>4. CASE PickPosition(w)
    <3>1. \A v \in Clients : v # w => ask'[v] = ask[v]
      BY <1>1, <2>4 DEF PickPosition
    <3>2. ask'[w].pc = "pageSlug"
      BY <1>1, <2>4 DEF PickPosition, Ask
    <3>3. Choosers(s, slug)' \subseteq Choosers(s, slug)
      BY <3>1, <3>2 DEF Choosers
    <3>4. tree' = tree
      BY <2>4 DEF PickPosition
    <3>5. QED
      BY <1>3, <3>3, <3>4 DEF SlugMove
  <2>5. ASSUME NEW then, Step(w, then), tree' = tree,
               ~PageSlugTaken(ask[w].space, SlugOf(ask[w].title, ask[w].n))
        PROVE  SlugMove(s, slug)
    <3>1. \A v \in Clients : v # w => ask'[v] = ask[v]
      BY <1>1, <2>5 DEF Step
    <3>2. /\ ask'[w].title = ask[w].title /\ ask'[w].n = ask[w].n
          /\ ask'[w].space = ask[w].space
      BY <1>1, <2>5 DEF Step, Ask
    <3>3. CASE ask[w].space = s /\ SlugOf(ask[w].title, ask[w].n) = slug
      <4>1. Holders(s, slug) = {}
        BY <2>5, <3>3 DEF Holders, PageSlugTaken
      <4>2. QED
        BY <1>3, <2>5, <4>1 DEF SlugMove
    <3>4. CASE ~(ask[w].space = s /\ SlugOf(ask[w].title, ask[w].n) = slug)
      <4>1. Choosers(s, slug)' \subseteq Choosers(s, slug)
        BY <3>1, <3>2, <3>4 DEF Choosers
      <4>2. QED
        BY <1>3, <2>5, <4>1 DEF SlugMove
    <3>5. QED
      BY <3>3, <3>4
  <2>6. CASE InsertPage(w)
    <3> DEFINE r == ask[w]
    <3>1. PICK p \in PageIds :
             /\ tree[p].row = "unborn"
             /\ tree' = [tree EXCEPT ![p] =
                   [row |-> "live", space |-> r.space, parent |-> r.parent,
                    slug |-> SlugOf(r.title, r.n), position |-> r.position]]
      BY <2>6 DEF InsertPage
    <3>2. Choosers(s, slug)' \subseteq Choosers(s, slug) \ {w}
      BY <1>4, <2>6 DEF InsertPage
    <3>3. r.pc = "pageInsert" /\ r.title # NIL
      BY <1>1, <2>6, NilAssumption DEF InsertPage, On, AskAssigned, TitlePCs
    <3>4. CASE r.space = s /\ SlugOf(r.title, r.n) = slug
      <4>1. w \in Choosers(s, slug)
        BY <3>3, <3>4 DEF Choosers
      <4>2. Holders(s, slug)' \subseteq Holders(s, slug) \cup {p}
        BY <1>1, <3>1 DEF Holders, InSpace
      <4>3. QED
        BY <3>2, <4>1, <4>2 DEF SlugMove
    <3>5. CASE ~(r.space = s /\ SlugOf(r.title, r.n) = slug)
      <4>1. Holders(s, slug)' \subseteq Holders(s, slug)
        BY <1>1, <3>1, <3>5 DEF Holders, InSpace
      <4>2. QED
        BY <3>2, <4>1 DEF SlugMove
    <3>6. QED
      BY <3>4, <3>5
  <2>7. CASE WritePage(w)
    <3> DEFINE r == ask[w]
               row == [tree[r.page] EXCEPT
                        !.parent = IF r.moves THEN r.parent ELSE @,
                        !.slug = IF r.title = NIL THEN @ ELSE SlugOf(r.title, r.n),
                        !.position = IF r.reorders THEN r.position ELSE @]
    <3>1. r.pc = "pageWrite" /\ r.page \in PageIds /\ Under(r.page, r.space)
      BY <1>1, <2>7 DEF WritePage, On, AskAssigned, OnePagePCs, AskFacts
    <3>2. tree' = [tree EXCEPT ![r.page] = row]
      BY <1>1, <2>7, <3>1 DEF WritePage
    <3>3. /\ row.row = tree[r.page].row /\ row.space = tree[r.page].space
          /\ r.title = NIL => row.slug = tree[r.page].slug
          /\ r.title # NIL => row.slug = SlugOf(r.title, r.n)
      BY <1>1, <3>1 DEF LeafRow
    <3> HIDE DEF row
    <3>4. tree'[r.page] = row /\ \A p \in PageIds : p # r.page => tree'[p] = tree[p]
      BY <1>1, <3>1, <3>2
    <3>5. Choosers(s, slug)' \subseteq Choosers(s, slug) \ {w}
      BY <1>4, <2>7 DEF WritePage
    <3>6. CASE r.title # NIL /\ r.space = s /\ SlugOf(r.title, r.n) = slug
      <4>1. w \in Choosers(s, slug)
        BY <3>1, <3>6 DEF Choosers
      <4>2. Holders(s, slug)' \subseteq Holders(s, slug) \cup {r.page}
        BY <3>4 DEF Holders, InSpace
      <4>3. QED
        BY <3>5, <4>1, <4>2 DEF SlugMove
    <3>7. CASE ~(r.title # NIL /\ r.space = s /\ SlugOf(r.title, r.n) = slug)
      <4>1. r.page \in Holders(s, slug)' => r.page \in Holders(s, slug)
        BY <3>1, <3>3, <3>4, <3>7 DEF Holders, InSpace, Under
      <4>2. Holders(s, slug)' \subseteq Holders(s, slug)
        BY <3>4, <4>1 DEF Holders, InSpace
      <4>3. QED
        BY <3>5, <4>2 DEF SlugMove
    <3>8. QED
      BY <3>6, <3>7
  <2>8. CASE RemoveSpace(w) \/ TrashPage(w)
    <3>1. Answer(w)
      BY <2>8 DEF RemoveSpace, TrashPage
    <3>2. \A p \in PageIds : \/ tree'[p] = tree[p]
                             \/ tree'[p].row # "live"
      BY <1>1, <2>8 DEF RemoveSpace, TrashPage, LeafRow
    <3>3. Holders(s, slug)' \subseteq Holders(s, slug)
      BY <3>2 DEF Holders, InSpace
    <3>4. QED
      BY <1>4, <3>1, <3>3 DEF SlugMove
  <2>9. CASE InsertSpace(w) \/ InsertTag(w) \/ DeleteTag(w) \/ AssignTag(w) \/ UnassignTag(w)
             \/ TreeWriteRejected(w) \/ OutOfIds(w)
    BY <2>1, <2>9 DEF InsertSpace, InsertTag, DeleteTag, AssignTag, UnassignTag,
       TreeWriteRejected, OutOfIds
  <2>10. CASE CheckParent(w) \/ FindTagName(w) \/ FindTag(w) \/ FindPageAndTag(w)
              \/ FindLabelledPage(w)
    BY <2>1, <2>2, <2>10 DEF CheckParent, FindTagName, FindTag, FindPageAndTag,
       FindLabelledPage
  <2>11. CASE FindPage(w) \/ CheckNewParent(w)
    <3>1. AfterMove(ask[w]) \notin {"pageInsert", "pageWrite"} \/ ask[w].title = NIL
      BY DEF AfterMove
    <3>2. CASE FindPage(w)
      BY <2>1, <2>2, <3>1, <3>2 DEF FindPage
    <3>3. CASE CheckNewParent(w)
      BY <2>1, <2>2, <3>1, <3>3 DEF CheckNewParent
    <3>4. QED
      BY <2>11, <3>2, <3>3
  <2>12. CASE ProbeSpaceSlug(w)
    BY <2>2, <2>3, <2>12 DEF ProbeSpaceSlug, On
  <2>13. CASE ProbePageSlug(w, "pageSlug", "pageInsert") \/ ProbePageSlug(w, "renameSlug", "pageWrite")
    BY <2>3, <2>5, <2>13 DEF ProbePageSlug, On
  <2>14. QED
    BY <1>6, <2>4, <2>6, <2>7, <2>8, <2>9, <2>10, <2>11, <2>12, <2>13 DEF TreeContinue
<1>7. CASE UNCHANGED treeVars
  BY <1>3, <1>7 DEF treeVars, SlugMove, Choosers
<1>8. QED
  BY <1>5, <1>6, <1>7 DEF TreeNext

LEMMA SlugCountSafe == TreeSpec => [](TreeInv /\ SlugCount)
<1>1. TreeInit => SlugCount
  <2> SUFFICES ASSUME TreeInit, NEW s \in SpaceIds, NEW slug \in AnySlug
               PROVE  /\ IsFiniteSet(Holders(s, slug))
                      /\ Cardinality(Holders(s, slug)) + Cardinality(Choosers(s, slug))
                            <= Cardinality(Clients)
    BY DEF SlugCount
  <2>1. Holders(s, slug) = {} /\ Choosers(s, slug) = {}
    BY DEF TreeInit, Holders, Choosers, InSpace, Free
  <2>2. QED
    BY <2>1, FS_EmptySet, ClientsAssumption, FS_CardinalityType
<1>2. TreeInv /\ SlugCount /\ [TreeNext]_treeVars => SlugCount'
  <2> SUFFICES ASSUME TreeInv, SlugCount, [TreeNext]_treeVars,
                      NEW s \in SpaceIds, NEW slug \in AnySlug
               PROVE  /\ IsFiniteSet(Holders(s, slug)')
                      /\ Cardinality(Holders(s, slug)') + Cardinality(Choosers(s, slug)')
                            <= Cardinality(Clients)
    BY DEF SlugCount
  <2>1. /\ IsFiniteSet(Holders(s, slug))
        /\ Cardinality(Holders(s, slug)) + Cardinality(Choosers(s, slug)) <= Cardinality(Clients)
    BY DEF SlugCount
  <2>2. Choosers(s, slug) \in SUBSET Clients /\ Choosers(s, slug)' \in SUBSET Clients
    BY DEF Choosers
  <2>3. SlugMove(s, slug)
    BY SlugSteps
  <2>4. QED
    BY <2>1, <2>2, <2>3, CountStep DEF SlugMove
<1>3. QED
  BY InitTreeInv, NextTreeInv, <1>1, <1>2, PTL DEF TreeSpec

(* A slug is chosen by queries and written later; so pages of a workspace   *)
(* may share one, but never more of them than there are requests in flight. *)
THEOREM SlugOvershoot == TreeSpec => []SlugOvershootBounded
<1>1. TreeInv /\ SlugCount => SlugOvershootBounded
  <2> SUFFICES ASSUME TreeInv, SlugCount, NEW s \in SpaceIds,
                      NEW slug \in {tree[p].slug : p \in PageIds}
               PROVE  Cardinality(Holders(s, slug)) <= Cardinality(Clients)
    BY DEF SlugOvershootBounded, Holders
  <2>1. slug \in AnySlug
    BY DEF TreeInv, TreeTypes, TreeTypeOK, LeafRow, AnySlug
  <2>2. /\ IsFiniteSet(Holders(s, slug))
        /\ Cardinality(Holders(s, slug)) + Cardinality(Choosers(s, slug)) <= Cardinality(Clients)
    BY <2>1 DEF SlugCount
  <2>3. IsFiniteSet(Choosers(s, slug))
    BY ClientsAssumption, FS_Subset DEF Choosers
  <2>4. /\ Cardinality(Holders(s, slug)) \in Nat /\ Cardinality(Choosers(s, slug)) \in Nat
        /\ Cardinality(Clients) \in Nat
    BY <2>2, <2>3, ClientsAssumption, FS_CardinalityType
  <2>5. QED
    BY <2>2, <2>4
<1>2. QED
  BY SlugCountSafe, <1>1, PTL

-----------------------------------------------------------------------------
(* The files.                                                              *)
Born(f) == files[f].row # "unborn"
Named(k) == \E f \in Files : Born(f) /\ files[f].key = k

(* A row names a key of its own, at which something was put; the object of  *)
(* a row that is gone went before it, or the row went with its owner.       *)
RowFacts ==
    \A f \in Files : Born(f) =>
        /\ files[f].key \in Keys /\ objects[files[f].key] # "absent"
        /\ \A g \in Files : Born(g) /\ files[g].key = files[f].key => g = f
        /\ files[f].row = "gone" /\ objects[files[f].key] = "stored" =>
              <<files[f].key, "cascade">> \in blame

(* What a request knows at each of its steps.                              *)
CarrierOK(w) ==
    LET k == carry[w].key
    IN /\ ~AtStep(w, "idle") => k \in Keys
       /\ carry[w].pc \in {"put", "insert"} =>
             /\ carry[w].kind \in Kinds /\ ~Named(k)
             /\ \A v \in Carriers : v # w => carry[v].key # k
       /\ AtStep(w, "insert") => objects[k] = "stored"
       /\ AtStep(w, "cleanup") => /\ objects[k] # "absent"
                                  /\ Named(k) => <<k, "unsure">> \in blame
       /\ carry[w].pc \in {"remove", "drop"} =>
             carry[w].file \in Files /\ Born(carry[w].file) /\ files[carry[w].file].key = k
       /\ AtStep(w, "drop") => objects[k] = "deleted"

CarryFacts == \A w \in Carriers : CarrierOK(w)

FilesInv == FilesTypeOK /\ RowFacts /\ CarryFacts /\ ListedHasObject /\ OrphanHasCause

(* The state after a step of one request, told point by point.             *)
OneCarrier(w, r) ==
    /\ r \in Carry
    /\ carry' \in [Carriers -> Carry] /\ carry'[w] = r
    /\ \A v \in Carriers : v # w => carry'[v] = carry[v]
OneObject(k, o) ==
    /\ objects' \in [Keys -> {"absent", "stored", "deleted"}] /\ objects'[k] = o
    /\ \A l \in Keys : l # k => objects'[l] = objects[l]

LEMMA CarrierSteps ==
  ASSUME FilesInv, NEW w \in Carriers
  PROVE  /\ Done(w) => OneCarrier(w, Empty)
         /\ \A pc \in CarryPC : Proceed(w, pc) => OneCarrier(w, [carry[w] EXCEPT !.pc = pc])
         /\ \A r \in Carry : carry' = [carry EXCEPT ![w] = r] => OneCarrier(w, r)
<1>1. carry \in [Carriers -> Carry] /\ carry[w] \in Carry
  BY DEF FilesInv, FilesTypeOK
<1>2. ASSUME NEW r \in Carry, carry' = [carry EXCEPT ![w] = r]
      PROVE  OneCarrier(w, r)
  BY <1>1, <1>2 DEF OneCarrier
<1>3. Empty \in Carry
  BY DEF Empty, Carry, CarryPC
<1>4. Done(w) => OneCarrier(w, Empty)
  BY <1>2, <1>3 DEF Done
<1>5. ASSUME NEW pc \in CarryPC, Proceed(w, pc)
      PROVE  OneCarrier(w, [carry[w] EXCEPT !.pc = pc])
  <2>1. [carry[w] EXCEPT !.pc = pc] \in Carry
    BY <1>1 DEF Carry
  <2>2. carry' = [carry EXCEPT ![w] = [carry[w] EXCEPT !.pc = pc]]
    BY <1>1, <1>5 DEF Proceed
  <2>3. QED
    BY <1>2, <2>1, <2>2
<1>6. QED
  BY <1>2, <1>4, <1>5

LEMMA ObjectSteps ==
  ASSUME FilesInv, NEW k \in Keys, NEW o \in {"absent", "stored", "deleted"},
         objects' = [objects EXCEPT ![k] = o]
  PROVE  OneObject(k, o)
  BY DEF FilesInv, FilesTypeOK, OneObject

LEMMA FilesFrame ==
  ASSUME FilesInv, NEW w \in Carriers
  PROVE  /\ carry[w] \in Carry /\ Empty \in Carry
         /\ ~AtStep(w, "idle") => carry[w].key \in Keys
         /\ NOTHING \notin Keys /\ Empty.pc = "idle" /\ Empty.key = NOTHING
  BY NothingAssumption DEF FilesInv, FilesTypeOK, CarryFacts, CarrierOK, Empty, Carry, CarryPC

(* Who is busy with a key, after a step of one request.                    *)
LEMMA BusySteps ==
  ASSUME NEW w \in Carriers, NEW r, OneCarrier(w, r), NEW l, NEW pcs
  PROVE  /\ Busy(l, pcs) => Busy(l, pcs)' \/ (carry[w].key = l /\ carry[w].pc \in pcs)
         /\ r.key = l /\ r.pc \in pcs => Busy(l, pcs)'
  BY DEF Busy, OneCarrier

(* A request keeps what it knows while another acts, unless an object or a  *)
(* row of its key changes.                                                 *)
Quiet(k) ==
    /\ objects'[k] \in {objects[k], "deleted"}
    /\ \A f \in Files : Born(f)' /\ files'[f].key = k <=> Born(f) /\ files[f].key = k
    /\ blame \subseteq blame'

LEMMA OthersKnow ==
  ASSUME FilesInv, NEW w \in Carriers, NEW r, OneCarrier(w, r), NEW v \in Carriers, v # w,
         Quiet(carry[v].key) \/ AtStep(v, "idle"),
         AtStep(v, "insert") => objects'[carry[v].key] = objects[carry[v].key],
         carry[v].pc \in {"put", "insert"} => r.key # carry[v].key
  PROVE  CarrierOK(v)'
<1>1. CarrierOK(v) /\ carry'[v] = carry[v] /\ carry'[w] = r
  BY DEF FilesInv, CarryFacts, OneCarrier
<1>2. \A u \in Carriers : u # w => carry'[u] = carry[u]
  BY DEF OneCarrier
<1>3. CASE AtStep(v, "idle")
  BY <1>1, <1>3 DEF CarrierOK, AtStep
<1>4. CASE Quiet(carry[v].key)
  BY <1>1, <1>2, <1>4 DEF CarrierOK, AtStep, Quiet, Named, Born
<1>5. QED
  BY <1>3, <1>4

LEMMA BeginUploadSafe ==
  ASSUME FilesInv, NEW w \in Carriers, NEW kind \in Kinds, BeginUpload(w, kind)
  PROVE  FilesInv'
<1>1. PICK k \in Keys :
         /\ Unused(k)
         /\ carry' = [carry EXCEPT ![w] = [Empty EXCEPT !.pc = "put", !.kind = kind, !.key = k]]
  BY DEF BeginUpload
<1> DEFINE r == [Empty EXCEPT !.pc = "put", !.kind = kind, !.key = k]
<1>2. r \in Carry /\ r.pc = "put" /\ r.kind = kind /\ r.key = k
  BY DEF Empty, Carry, CarryPC
<1>3. OneCarrier(w, r)
  BY <1>1, <1>2, CarrierSteps
<1> HIDE DEF r
<1>4. files' = files /\ objects' = objects /\ page' = page /\ user' = user /\ blame' = blame
  BY DEF BeginUpload
<1>5. AtStep(w, "idle")
  BY DEF BeginUpload, Calls
<1>6. FilesTypeOK'
  BY <1>3, <1>4 DEF FilesInv, FilesTypeOK, OneCarrier
<1>7. RowFacts'
  BY <1>4 DEF FilesInv, RowFacts, Born
<1>8. CarryFacts'
  <2>1. \A v \in Carriers : v # w => CarrierOK(v)'
    BY <1>1, <1>2, <1>3, <1>4, OthersKnow DEF Quiet, Born, Unused
  <2>2. ~Named(k)
    BY <1>1 DEF Named, Unused, FilesInv, RowFacts
  <2>3. CarrierOK(w)'
    BY <1>1, <1>2, <1>3, <1>4, <2>2 DEF CarrierOK, AtStep, Named, Born, Unused, OneCarrier
  <2>4. QED
    BY <2>1, <2>3 DEF CarryFacts
<1>9. \A l, pcs : Busy(l, pcs) /\ "idle" \notin pcs => Busy(l, pcs)'
  BY <1>3, <1>5, BusySteps DEF AtStep
<1>10. ListedHasObject'
  BY <1>4, <1>9 DEF FilesInv, ListedHasObject, Blamed
<1>11. OrphanHasCause'
  BY <1>4, <1>9 DEF FilesInv, OrphanHasCause, Blamed
<1>12. QED
  BY <1>6, <1>7, <1>8, <1>10, <1>11 DEF FilesInv

(* Object writes: the rows stay.                                           *)
LEMMA ObjectWriteSafe ==
  ASSUME FilesInv, NEW w \in Carriers, NEW k, k = carry[w].key, NEW r, OneCarrier(w, r),
         NEW o \in {"stored", "deleted"}, objects' = [objects EXCEPT ![k] = o],
         UNCHANGED <<files, page, user>>, blame \subseteq blame', blame' \subseteq Keys \X Cause,
         ~AtStep(w, "idle"), r.key \in {k, NOTHING},
         o = "stored" => AtStep(w, "put") /\ (r.pc = "insert" \/ Blamed(k, {"put", "crash"})'),
         o = "deleted" /\ Named(k) => \/ r.pc = "drop" \/ Blamed(k, {"delete", "unsure"})',
         AtStep(w, "drop") => r.pc = "drop",
         CarrierOK(w)'
  PROVE  FilesInv'
<1>1. k \in Keys /\ NOTHING \notin Keys
  BY FilesFrame
<1>2. OneObject(k, o)
  BY <1>1, ObjectSteps
<1>3. files' = files /\ page' = page /\ user' = user
  OBVIOUS
<1>4. CarrierOK(w) /\ RowFacts
  BY DEF FilesInv, CarryFacts
<1>5. o = "stored" => ~Named(k) /\ \A v \in Carriers : v # w => carry[v].key # k
  BY <1>4 DEF CarrierOK, AtStep
<1>6. FilesTypeOK'
  BY <1>2, <1>3 DEF FilesInv, FilesTypeOK, OneCarrier, OneObject
<1>7. RowFacts'
  BY <1>2, <1>3, <1>4, <1>5 DEF RowFacts, Born, OneObject, Named
<1>8. ASSUME NEW v \in Carriers, v # w
      PROVE  CarrierOK(v)'
  <2>1. CarrierOK(v)
    BY DEF FilesInv, CarryFacts
  <2>2. carry[v].pc \in {"put", "insert"} => carry[v].key \in Keys /\ carry[v].key # k
    BY <1>8, <2>1 DEF CarrierOK, AtStep
  <2>3. ~AtStep(v, "idle") => carry[v].key \in Keys
    BY <2>1 DEF CarrierOK
  <2>4. Quiet(carry[v].key) \/ AtStep(v, "idle")
    BY <1>2, <1>3, <1>5, <1>8, <2>3 DEF Quiet, OneObject, Born
  <2>5. AtStep(v, "insert") => objects'[carry[v].key] = objects[carry[v].key]
    BY <1>2, <2>2 DEF OneObject, AtStep
  <2>6. carry[v].pc \in {"put", "insert"} => r.key # carry[v].key
    BY <1>1, <2>2
  <2>7. QED
    BY <1>8, <2>4, <2>5, <2>6, OthersKnow
<1>9. carry'[w] = r /\ (r.pc # "idle" => r.key = k)
  BY <1>1 DEF CarrierOK, AtStep, OneCarrier
<1>10. ListedHasObject'
  <2> SUFFICES ASSUME NEW f \in Files, files[f].row = "live", objects'[files[f].key] # "stored"
               PROVE  \/ Busy(files[f].key, {"drop"})'
                      \/ Blamed(files[f].key, {"delete", "crash", "unsure"})'
    BY <1>3 DEF ListedHasObject
  <2>1. files[f].key \in Keys /\ Named(files[f].key)
    BY <1>4 DEF RowFacts, Born, Named
  <2>2. CASE files[f].key = k
    <3>1. o = "deleted"
      BY <1>2, <2>2 DEF OneObject
    <3>2. CASE r.pc = "drop"
      BY <1>1, <2>2, <3>2, <1>9 DEF Busy, AtStep
    <3>3. CASE Blamed(k, {"delete", "unsure"})'
      BY <2>2, <3>3, <1>3 DEF Blamed
    <3>4. QED
      BY <2>1, <2>2, <3>1, <3>2, <3>3
  <2>3. CASE files[f].key # k
    <3>1. objects[files[f].key] # "stored"
      BY <1>2, <2>1, <2>3 DEF OneObject
    <3>2. CASE Busy(files[f].key, {"drop"})
      BY <1>3, <2>3, <3>2, BusySteps DEF Busy, OneCarrier
    <3>3. CASE Blamed(files[f].key, {"delete", "crash", "unsure"})
      BY <1>3, <3>3 DEF Blamed
    <3>4. QED
      BY <3>1, <3>2, <3>3 DEF FilesInv, ListedHasObject
  <2>4. QED
    BY <2>2, <2>3
<1>11. OrphanHasCause'
  <2> SUFFICES ASSUME NEW l \in Keys, objects'[l] = "stored"
               PROVE  \/ \E f \in Files : files[f].key = l /\ files[f].row = "live"
                      \/ Busy(l, {"insert", "cleanup", "remove", "drop"})'
                      \/ Blamed(l, {"put", "cleanup", "crash", "cascade", "insert"})'
    BY <1>3 DEF OrphanHasCause
  <2>1. CASE l = k
    <3>1. o = "stored"
      BY <1>2, <2>1 DEF OneObject
    <3>2. CASE r.pc = "insert"
      BY <2>1, <3>2, <1>9 DEF Busy
    <3>3. CASE Blamed(k, {"put", "crash"})'
      BY <2>1, <3>3 DEF Blamed
    <3>4. QED
      BY <3>1, <3>2, <3>3
  <2>2. CASE l # k
    <3>1. objects[l] = "stored"
      BY <1>2, <2>2 DEF OneObject
    <3>2. CASE Busy(l, {"insert", "cleanup", "remove", "drop"})
      BY <2>2, <3>2, BusySteps
    <3>3. CASE Blamed(l, {"put", "cleanup", "crash", "cascade", "insert"})
      BY <3>3 DEF Blamed
    <3>4. QED
      BY <3>1, <3>2, <3>3 DEF FilesInv, OrphanHasCause
  <2>3. QED
    BY <2>1, <2>2
<1>12. CarryFacts'
  BY <1>8 DEF CarryFacts
<1>13. QED
  BY <1>6, <1>7, <1>10, <1>11, <1>12 DEF FilesInv

(* Steps that touch neither the objects nor the rows.                      *)
LEMMA CarryOnlySafe ==
  ASSUME FilesInv, NEW w \in Carriers, NEW k, k = carry[w].key, NEW r, OneCarrier(w, r),
         UNCHANGED <<files, objects, page, user>>,
         blame \subseteq blame', blame' \subseteq Keys \X Cause,
         r.key \in {NOTHING, k} \/ Named(r.key),
         AtStep(w, "drop") => Blamed(k, {"crash", "delete"})',
         \/ carry[w].pc \in {"idle", "put", "remove", "drop"}
         \/ r.pc = "cleanup" /\ r.key = k
         \/ Blamed(k, {"cleanup", "crash", "insert"})',
         CarrierOK(w)'
  PROVE  FilesInv'
<1>1. NOTHING \notin Keys
  BY FilesFrame
<1>2. files' = files /\ objects' = objects /\ page' = page /\ user' = user
  OBVIOUS
<1>3. CarrierOK(w) /\ RowFacts
  BY DEF FilesInv, CarryFacts
<1>4. FilesTypeOK'
  BY <1>2 DEF FilesInv, FilesTypeOK, OneCarrier
<1>5. RowFacts'
  BY <1>2, <1>3 DEF RowFacts, Born
<1>6. ASSUME NEW v \in Carriers, v # w
      PROVE  CarrierOK(v)'
  <2>1. carry[v].pc \in {"put", "insert"} => r.key # carry[v].key
    <3>1. CarrierOK(v)
      BY DEF FilesInv, CarryFacts
    <3>2. QED
      BY <1>1, <1>6, <3>1 DEF CarrierOK, AtStep
  <2>2. Quiet(carry[v].key)
    BY <1>2 DEF Quiet, Born
  <2>3. QED
    BY <1>2, <1>6, <2>1, <2>2, OthersKnow
<1>7. ListedHasObject'
  <2> SUFFICES ASSUME NEW f \in Files, files[f].row = "live", NEW l, l = files[f].key,
                      objects[l] # "stored"
               PROVE  Busy(l, {"drop"})' \/ Blamed(l, {"delete", "crash", "unsure"})'
    BY <1>2 DEF ListedHasObject, Busy, Blamed
  <2>1. CASE Busy(l, {"drop"})
    <3>1. Busy(l, {"drop"})' \/ (k = l /\ AtStep(w, "drop"))
      BY <2>1, BusySteps DEF AtStep
    <3>2. QED
      BY <3>1 DEF Blamed
  <2>2. CASE Blamed(l, {"delete", "crash", "unsure"})
    BY <2>2 DEF Blamed
  <2>3. QED
    BY <2>1, <2>2 DEF FilesInv, ListedHasObject
<1>8. OrphanHasCause'
  <2> DEFINE held == {"insert", "cleanup", "remove", "drop"}
  <2> SUFFICES ASSUME NEW l \in Keys, objects[l] = "stored"
               PROVE  \/ \E f \in Files : files[f].key = l /\ files[f].row = "live"
                      \/ Busy(l, held)'
                      \/ Blamed(l, {"put", "cleanup", "crash", "cascade", "insert"})'
    BY <1>2 DEF OrphanHasCause
  <2>1. CASE Busy(l, held) /\ ~(carry[w].key = l /\ carry[w].pc \in held)
    BY <2>1, BusySteps
  <2>2. CASE carry[w].key = l /\ carry[w].pc \in held
    <3>1. CASE AtStep(w, "drop")
      BY <1>3, <2>2, <3>1 DEF CarrierOK
    <3>2. CASE AtStep(w, "remove")
      <4>1. carry[w].file \in Files /\ Born(carry[w].file) /\ files[carry[w].file].key = l
        BY <1>3, <2>2, <3>2 DEF CarrierOK, AtStep
      <4>2. files[carry[w].file].row \in {"live", "gone"}
        BY <4>1 DEF FilesInv, FilesTypeOK, FileRow, Born
      <4>3. CASE files[carry[w].file].row = "gone"
        BY <1>3, <4>1, <4>3 DEF RowFacts, Blamed
      <4>4. QED
        BY <4>1, <4>2, <4>3
    <3>3. CASE r.pc = "cleanup" /\ r.key = k
      BY <2>2, <3>3, BusySteps
    <3>4. CASE Blamed(k, {"cleanup", "crash", "insert"})'
      BY <2>2, <3>4 DEF Blamed
    <3>5. QED
      BY <2>2, <3>1, <3>2, <3>3, <3>4 DEF AtStep
  <2>3. CASE Blamed(l, {"put", "cleanup", "crash", "cascade", "insert"})
    BY <2>3 DEF Blamed
  <2>4. QED
    BY <2>1, <2>2, <2>3 DEF FilesInv, OrphanHasCause
<1>9. QED
  BY <1>4, <1>5, <1>6, <1>7, <1>8 DEF FilesInv, CarryFacts

(* An upload writes its row; the answer may be lost.                       *)
LEMMA WithRowSafe ==
  ASSUME FilesInv, NEW w \in Carriers, NEW r, OneCarrier(w, r), AtStep(w, "insert"), WithRow(w),
         UNCHANGED <<objects, page, user>>,
         blame \subseteq blame', blame' \subseteq Keys \X Cause,
         \/ r = Empty
         \/ r.pc = "cleanup" /\ r.key = carry[w].key /\ <<carry[w].key, "unsure">> \in blame'
  PROVE  FilesInv'
<1> DEFINE k == carry[w].key
<1>1. k \in Keys /\ NOTHING \notin Keys
  BY FilesFrame DEF AtStep
<1>2. PICK f \in Files :
         /\ files[f].row = "unborn"
         /\ files' = [files EXCEPT ![f] = [row |-> "live", kind |-> carry[w].kind, key |-> k]]
  BY DEF WithRow
<1>3. objects' = objects /\ page' = page /\ user' = user
  OBVIOUS
<1>4. /\ carry[w].kind \in Kinds /\ ~Named(k) /\ objects[k] = "stored"
      /\ \A v \in Carriers : v # w => carry[v].key # k
  BY DEF FilesInv, CarryFacts, CarrierOK, AtStep
<1>5. /\ files'[f].row = "live" /\ files'[f].key = k
      /\ \A g \in Files : g # f => files'[g] = files[g]
  BY <1>2 DEF FilesInv, FilesTypeOK
<1>6. FilesTypeOK'
  BY <1>1, <1>2, <1>3, <1>4 DEF FilesInv, FilesTypeOK, OneCarrier, FileRow
<1>7. RowFacts /\ CarryFacts
  BY DEF FilesInv
<1>8. RowFacts'
  BY <1>1, <1>2, <1>3, <1>4, <1>5, <1>7 DEF RowFacts, Born, Named
<1>9. ASSUME NEW v \in Carriers, v # w
      PROVE  CarrierOK(v)'
  <2>1. Quiet(carry[v].key)
    BY <1>2, <1>3, <1>4, <1>5, <1>9 DEF Quiet, Born
  <2>2. carry[v].pc \in {"put", "insert"} => r.key # carry[v].key
    BY <1>1, <1>4, <1>7, <1>9, FilesFrame DEF CarryFacts, CarrierOK, AtStep
  <2>3. QED
    BY <1>3, <1>9, <2>1, <2>2, OthersKnow
<1>10. carry'[w] = r
  BY DEF OneCarrier
<1>11. CarrierOK(w)'
  <2>1. CASE r = Empty
    BY <1>10, <2>1 DEF CarrierOK, AtStep, Empty
  <2>2. CASE r.pc = "cleanup" /\ r.key = k /\ <<k, "unsure">> \in blame'
    BY <1>1, <1>3, <1>4, <1>10, <2>2 DEF CarrierOK, AtStep
  <2>3. QED
    BY <2>1, <2>2
<1>12. ListedHasObject'
  <2> SUFFICES ASSUME NEW g \in Files, files'[g].row = "live", NEW l, l = files'[g].key,
                      objects[l] # "stored"
               PROVE  Busy(l, {"drop"})' \/ Blamed(l, {"delete", "crash", "unsure"})'
    BY <1>3 DEF ListedHasObject, Busy, Blamed
  <2>1. g # f /\ files'[g] = files[g]
    BY <1>4, <1>5
  <2>2. CASE Busy(l, {"drop"})
    BY <2>1, <2>2, BusySteps DEF AtStep
  <2>3. CASE Blamed(l, {"delete", "crash", "unsure"})
    BY <2>1, <2>3 DEF Blamed
  <2>4. QED
    BY <2>1, <2>2, <2>3 DEF FilesInv, ListedHasObject
<1>13. OrphanHasCause'
  <2> DEFINE held == {"insert", "cleanup", "remove", "drop"}
  <2> SUFFICES ASSUME NEW l \in Keys, objects[l] = "stored"
               PROVE  \/ \E g \in Files : files'[g].key = l /\ files'[g].row = "live"
                      \/ Busy(l, held)'
                      \/ Blamed(l, {"put", "cleanup", "crash", "cascade", "insert"})'
    BY <1>3 DEF OrphanHasCause
  <2>1. CASE l = k
    BY <1>5, <2>1
  <2>2. CASE \E g \in Files : files[g].key = l /\ files[g].row = "live"
    BY <1>2, <1>5, <2>2
  <2>3. CASE l # k /\ Busy(l, held)
    BY <2>3, BusySteps
  <2>4. CASE Blamed(l, {"put", "cleanup", "crash", "cascade", "insert"})
    BY <2>4 DEF Blamed
  <2>5. QED
    BY <2>1, <2>2, <2>3, <2>4 DEF FilesInv, OrphanHasCause
<1>14. QED
  BY <1>6, <1>8, <1>9, <1>11, <1>12, <1>13 DEF FilesInv, CarryFacts

(* Rows go: one that was deleted, or those of a page or an account.        *)
RowsGo(gone) ==
    files' = [f \in Files |-> IF f \in gone THEN [files[f] EXCEPT !.row = "gone"] ELSE files[f]]

LEMMA RowsGoSafe ==
  ASSUME FilesInv, NEW gone \in SUBSET Files, RowsGo(gone),
         \A f \in gone : /\ Born(f)
                         /\ \/ <<files[f].key, "cascade">> \in blame'
                            \/ objects[files[f].key] # "stored",
         objects' = objects, blame \subseteq blame', blame' \subseteq Keys \X Cause,
         page' \in {"live", "trashed", "gone"}, user' \in {"live", "gone"},
         \/ carry' = carry
         \/ \E w \in Carriers :
               /\ OneCarrier(w, Empty) /\ AtStep(w, "drop")
               /\ \A f \in Files : Born(f) /\ files[f].key = carry[w].key => f \in gone
  PROVE  FilesInv'
<1>1. /\ \A f \in Files : /\ files'[f] \in FileRow /\ files'[f].key = files[f].key
                          /\ f \in gone => files'[f].row = "gone"
                          /\ f \notin gone => files'[f].row = files[f].row
      /\ files' \in [Files -> FileRow]
  BY DEF RowsGo, FilesInv, FilesTypeOK, FileRow
<1>2. RowFacts /\ CarryFacts
  BY DEF FilesInv
<1>3. \A f \in Files : Born(f)' <=> Born(f)
  BY <1>1 DEF Born
<1>4. FilesTypeOK'
  BY <1>1 DEF FilesInv, FilesTypeOK, OneCarrier
<1>5. RowFacts'
  <2> SUFFICES ASSUME NEW f \in Files, Born(f)
               PROVE  /\ files'[f].key \in Keys /\ objects[files'[f].key] # "absent"
                      /\ \A g \in Files : Born(g) /\ files'[g].key = files'[f].key => g = f
                      /\ files'[f].row = "gone" /\ objects[files'[f].key] = "stored" =>
                            <<files'[f].key, "cascade">> \in blame'
    BY <1>3 DEF RowFacts
  <2>1. /\ files[f].key \in Keys /\ objects[files[f].key] # "absent"
        /\ \A g \in Files : Born(g) /\ files[g].key = files[f].key => g = f
    BY <1>2 DEF RowFacts
  <2>2. CASE f \in gone
    BY <1>1, <2>1, <2>2
  <2>3. CASE f \notin gone
    <3>1. files[f].row = "gone" /\ objects[files[f].key] = "stored" =>
             <<files[f].key, "cascade">> \in blame
      BY <1>2 DEF RowFacts
    <3>2. QED
      BY <1>1, <2>1, <2>3, <3>1
  <2>4. QED
    BY <2>2, <2>3
<1>6. ASSUME NEW v \in Carriers
      PROVE  CarrierOK(v)'
  <2>1. Quiet(carry[v].key)
    BY <1>1, <1>3 DEF Quiet
  <2>2. CASE carry' = carry
    BY <1>1, <1>2, <1>3, <2>2 DEF CarryFacts, CarrierOK, AtStep, Named, Born
  <2>3. ASSUME NEW w \in Carriers, OneCarrier(w, Empty)
        PROVE  CarrierOK(v)'
    <3>1. CASE v = w
      BY <2>3, <3>1 DEF OneCarrier, CarrierOK, AtStep, Empty
    <3>2. CASE v # w
      <4>1. carry[v].pc \in {"put", "insert"} => carry[v].key # NOTHING
        BY FilesFrame DEF AtStep
      <4>2. Empty.key = NOTHING
        BY FilesFrame
      <4>3. QED
        BY <2>1, <2>3, <3>2, <4>1, <4>2, OthersKnow
    <3>3. QED
      BY <3>1, <3>2
  <2>4. QED
    BY <2>2, <2>3
<1>7. \A l, pcs : Busy(l, pcs) =>
         \/ Busy(l, pcs)'
         \/ /\ "drop" \in pcs /\ \A f \in Files : Born(f) /\ files[f].key = l => f \in gone
            /\ l \in Keys => objects[l] # "stored"
  <2>1. CASE carry' = carry
    BY <2>1 DEF Busy
  <2>2. ASSUME NEW w \in Carriers, OneCarrier(w, Empty), AtStep(w, "drop"),
               \A f \in Files : Born(f) /\ files[f].key = carry[w].key => f \in gone,
               NEW l, NEW pcs, Busy(l, pcs)
        PROVE  \/ Busy(l, pcs)'
               \/ /\ "drop" \in pcs /\ \A f \in Files : Born(f) /\ files[f].key = l => f \in gone
                  /\ l \in Keys => objects[l] # "stored"
    <3>1. Busy(l, pcs)' \/ (carry[w].key = l /\ carry[w].pc \in pcs)
      BY <2>2, BusySteps
    <3>2. objects[carry[w].key] # "stored"
      BY <1>2, <2>2 DEF CarryFacts, CarrierOK
    <3>3. QED
      BY <2>2, <3>1, <3>2 DEF AtStep
  <2>3. QED
    BY <2>1, <2>2
<1>8. ListedHasObject'
  <2> SUFFICES ASSUME NEW f \in Files, files'[f].row = "live", NEW l, l = files[f].key,
                      objects[l] # "stored"
               PROVE  Busy(l, {"drop"})' \/ Blamed(l, {"delete", "crash", "unsure"})'
    BY <1>1 DEF ListedHasObject, Busy, Blamed
  <2>1. f \notin gone /\ files[f].row = "live" /\ Born(f)
    BY <1>1 DEF Born
  <2>2. CASE Busy(l, {"drop"})
    BY <1>7, <2>1, <2>2
  <2>3. CASE Blamed(l, {"delete", "crash", "unsure"})
    BY <2>3 DEF Blamed
  <2>4. QED
    BY <2>1, <2>2, <2>3 DEF FilesInv, ListedHasObject
<1>9. OrphanHasCause'
  <2> DEFINE held == {"insert", "cleanup", "remove", "drop"}
  <2> SUFFICES ASSUME NEW l \in Keys, objects[l] = "stored"
               PROVE  \/ \E f \in Files : files[f].key = l /\ files'[f].row = "live"
                      \/ Busy(l, held)'
                      \/ Blamed(l, {"put", "cleanup", "crash", "cascade", "insert"})'
    BY <1>1 DEF OrphanHasCause
  <2>1. ASSUME NEW f \in Files, files[f].key = l, files[f].row = "live"
        PROVE  \/ files'[f].row = "live"
               \/ Blamed(l, {"put", "cleanup", "crash", "cascade", "insert"})'
    BY <1>1, <2>1 DEF Blamed
  <2>2. CASE Busy(l, held)
    BY <1>7, <2>2
  <2>3. CASE Blamed(l, {"put", "cleanup", "crash", "cascade", "insert"})
    BY <2>3 DEF Blamed
  <2>4. QED
    BY <2>1, <2>2, <2>3 DEF FilesInv, OrphanHasCause
<1>10. QED
  BY <1>4, <1>5, <1>6, <1>8, <1>9 DEF FilesInv, CarryFacts

LEMMA CarrierStepSafe ==
  ASSUME FilesInv, NEW w \in Carriers, CarrierStep(w)
  PROVE  FilesInv'
<1> DEFINE k == carry[w].key
<1>1. /\ carry[w] \in Carry /\ Empty \in Carry /\ NOTHING \notin Keys
      /\ Empty.pc = "idle" /\ Empty.key = NOTHING
      /\ ~AtStep(w, "idle") => k \in Keys
  BY FilesFrame
<1>2. CarrierOK(w) /\ blame \subseteq Keys \X Cause /\ objects \in [Keys -> {"absent", "stored", "deleted"}]
  BY DEF FilesInv, CarryFacts, FilesTypeOK
<1>3. Done(w) => OneCarrier(w, Empty) /\ CarrierOK(w)'
  <2>1. Done(w) => OneCarrier(w, Empty)
    BY CarrierSteps
  <2>2. OneCarrier(w, Empty) => CarrierOK(w)'
    BY DEF OneCarrier, CarrierOK, AtStep, Empty
  <2>3. QED
    BY <2>1, <2>2
<1>4. ASSUME NEW pc \in CarryPC, Proceed(w, pc)
      PROVE  \E r \in Carry : /\ OneCarrier(w, r) /\ carry'[w] = r /\ r.pc = pc /\ r.key = k
                             /\ r.kind = carry[w].kind /\ r.file = carry[w].file
  <2>1. OneCarrier(w, [carry[w] EXCEPT !.pc = pc])
    BY <1>4, CarrierSteps
  <2>2. QED
    BY <1>1, <2>1 DEF OneCarrier, Carry
<1>5. ASSUME NEW c \in Cause, Blames(k, c), k \in Keys
      PROVE  blame \subseteq blame' /\ blame' \subseteq Keys \X Cause /\ <<k, c>> \in blame'
  BY <1>2, <1>5 DEF Blames
<1>6. ASSUME NEW kind \in Kinds, BeginUpload(w, kind)
      PROVE  FilesInv'
  BY <1>6, BeginUploadSafe
<1>7. CASE PutObject(w)
  <2>1. PICK r \in Carry : /\ OneCarrier(w, r) /\ carry'[w] = r /\ r.pc = "insert" /\ r.key = k
                          /\ r.kind = carry[w].kind /\ r.file = carry[w].file
    BY <1>4, <1>7 DEF PutObject, CarryPC
  <2>2. AtStep(w, "put") /\ k \in Keys
    BY <1>1, <1>7 DEF PutObject, AtStep
  <2>3. objects' = [objects EXCEPT ![k] = "stored"] /\ UNCHANGED <<files, page, user, blame>>
    BY <1>7 DEF PutObject
  <2>4. CarrierOK(w)'
    BY <1>2, <2>1, <2>2, <2>3 DEF CarrierOK, AtStep, Named, Born, OneCarrier
  <2>5. QED
    BY <1>2, <2>1, <2>2, <2>3, <2>4, ObjectWriteSafe DEF AtStep
<1>8. CASE PutFails(w)
  <2>1. /\ AtStep(w, "put") /\ k \in Keys /\ Blames(k, "put") /\ Done(w)
        /\ UNCHANGED <<files, page, user>>
        /\ \/ objects' = [objects EXCEPT ![k] = "stored"]
           \/ objects' = [objects EXCEPT ![k] = "deleted"]
    BY <1>1, <1>8 DEF PutFails, AtStep
  <2>2. ~Named(k)
    BY <1>2, <2>1 DEF CarrierOK, AtStep
  <2>3. blame \subseteq blame' /\ blame' \subseteq Keys \X Cause /\ <<k, "put">> \in blame'
    BY <1>5, <2>1 DEF Cause
  <2>4. QED
    BY <1>1, <1>3, <2>1, <2>2, <2>3, ObjectWriteSafe DEF AtStep, Blamed
<1>9. CASE InsertRow(w)
  BY <1>2, <1>3, <1>9, WithRowSafe DEF InsertRow
<1>10. CASE InsertFails(w)
  <2>1. AtStep(w, "insert") /\ k \in Keys /\ UNCHANGED <<files, objects, page, user>>
    BY <1>1, <1>10 DEF InsertFails, AtStep
  <2>2. CASE Proceed(w, "cleanup") /\ UNCHANGED blame
    <3>1. PICK r \in Carry : OneCarrier(w, r) /\ carry'[w] = r /\ r.pc = "cleanup" /\ r.key = k
      BY <1>4, <2>2 DEF CarryPC
    <3>2. CarrierOK(w)'
      BY <1>2, <2>1, <2>2, <3>1 DEF CarrierOK, AtStep, Named, Born
    <3>3. QED
      BY <1>2, <2>1, <2>2, <3>1, <3>2, CarryOnlySafe DEF AtStep
  <2>3. CASE Blames(k, "insert") /\ Done(w)
    <3>1. blame \subseteq blame' /\ blame' \subseteq Keys \X Cause /\ <<k, "insert">> \in blame'
      BY <1>5, <2>1, <2>3 DEF Cause
    <3>2. QED
      BY <1>1, <1>3, <2>1, <2>3, <3>1, CarryOnlySafe DEF AtStep, Blamed
  <2>4. QED
    BY <1>10, <2>2, <2>3 DEF InsertFails, AfterFailedInsert
<1>11. CASE InsertUnsure(w)
  <2>1. /\ AtStep(w, "insert") /\ k \in Keys /\ WithRow(w) /\ Blames(k, "unsure")
        /\ Proceed(w, "cleanup") \/ Done(w)
        /\ UNCHANGED <<objects, page, user>>
    BY <1>1, <1>11 DEF InsertUnsure, AtStep
  <2>2. blame \subseteq blame' /\ blame' \subseteq Keys \X Cause /\ <<k, "unsure">> \in blame'
    BY <1>5, <2>1 DEF Cause
  <2>3. CASE Done(w)
    BY <1>3, <2>1, <2>2, <2>3, WithRowSafe
  <2>4. CASE Proceed(w, "cleanup")
    <3>1. PICK r \in Carry : OneCarrier(w, r) /\ r.pc = "cleanup" /\ r.key = k
      BY <1>4, <2>4 DEF CarryPC
    <3>2. QED
      BY <2>1, <2>2, <3>1, WithRowSafe
  <2>5. QED
    BY <2>1, <2>3, <2>4
<1>12. CASE CleanUp(w)
  <2>1. /\ AtStep(w, "cleanup") /\ k \in Keys /\ Done(w) /\ UNCHANGED <<files, page, user>>
        /\ \/ objects' = [objects EXCEPT ![k] = "deleted"] /\ UNCHANGED blame
           \/ Blames(k, "cleanup") /\ UNCHANGED objects
    BY <1>1, <1>12 DEF CleanUp, AtStep
  <2>2. CASE objects' = [objects EXCEPT ![k] = "deleted"] /\ UNCHANGED blame
    <3>1. Named(k) => Blamed(k, {"delete", "unsure"})
      BY <1>2, <2>1 DEF CarrierOK, AtStep, Blamed
    <3>2. Named(k) => \E c \in {"delete", "unsure"} : <<k, c>> \in blame'
      BY <2>2, <3>1 DEF Blamed
    <3>3. QED
      BY <1>1, <1>2, <1>3, <2>1, <2>2, <3>2, ObjectWriteSafe DEF AtStep, Blamed
  <2>3. CASE Blames(k, "cleanup") /\ UNCHANGED objects
    <3>1. blame \subseteq blame' /\ blame' \subseteq Keys \X Cause /\ <<k, "cleanup">> \in blame'
      BY <1>5, <2>1, <2>3 DEF Cause
    <3>2. QED
      BY <1>1, <1>3, <2>1, <2>3, <3>1, CarryOnlySafe DEF AtStep, Blamed
  <2>4. QED
    BY <2>1, <2>2, <2>3
<1>13. ASSUME NEW f \in Files, BeginDelete(w, f)
       PROVE  FilesInv'
  <2> DEFINE r == [pc |-> "remove", kind |-> files[f].kind, file |-> f, key |-> files[f].key]
  <2>1. AtStep(w, "idle") /\ files[f].row = "live" /\ carry' = [carry EXCEPT ![w] = r]
        /\ UNCHANGED <<files, objects, page, user, blame>>
    BY <1>13 DEF BeginDelete, Calls
  <2>2. files[f].key \in Keys /\ Born(f) /\ Named(files[f].key)
    BY <2>1 DEF FilesInv, RowFacts, Born, Named
  <2>3. r \in Carry
    BY <2>1, <2>2 DEF FilesInv, FilesTypeOK, FileRow, Carry, CarryPC
  <2>4. r.pc = "remove" /\ r.file = f /\ r.key = files[f].key
    OBVIOUS
  <2> HIDE DEF r
  <2>5. OneCarrier(w, r)
    BY <2>1, <2>3, CarrierSteps
  <2>6. CarrierOK(w)'
    BY <2>1, <2>2, <2>4, <2>5 DEF CarrierOK, AtStep, OneCarrier, Born
  <2>7. QED
    BY <1>2, <2>1, <2>2, <2>4, <2>5, <2>6, CarryOnlySafe DEF AtStep
<1>14. CASE RemoveObject(w)
  <2>1. PICK r \in Carry : /\ OneCarrier(w, r) /\ carry'[w] = r /\ r.pc = "drop" /\ r.key = k
                          /\ r.kind = carry[w].kind /\ r.file = carry[w].file
    BY <1>4, <1>14 DEF RemoveObject, CarryPC
  <2>2. AtStep(w, "remove") /\ k \in Keys
    BY <1>1, <1>14 DEF RemoveObject, AtStep
  <2>3. objects' = [objects EXCEPT ![k] = "deleted"] /\ UNCHANGED <<files, page, user, blame>>
    BY <1>14 DEF RemoveObject
  <2>4. CarrierOK(w)'
    BY <1>2, <2>1, <2>2, <2>3 DEF CarrierOK, AtStep, Born
  <2>5. QED
    BY <1>2, <2>1, <2>2, <2>3, <2>4, ObjectWriteSafe DEF AtStep
<1>15. CASE RemoveFails(w)
  <2>1. /\ AtStep(w, "remove") /\ k \in Keys /\ Done(w) /\ UNCHANGED <<files, page, user>>
        /\ \/ objects' = [objects EXCEPT ![k] = "deleted"] /\ Blames(k, "delete")
           \/ UNCHANGED <<objects, blame>>
    BY <1>1, <1>15 DEF RemoveFails, AtStep
  <2>2. CASE objects' = [objects EXCEPT ![k] = "deleted"] /\ Blames(k, "delete")
    <3>1. blame \subseteq blame' /\ blame' \subseteq Keys \X Cause /\ <<k, "delete">> \in blame'
      BY <1>5, <2>1, <2>2 DEF Cause
    <3>2. QED
      BY <1>1, <1>3, <2>1, <2>2, <3>1, ObjectWriteSafe DEF AtStep, Blamed
  <2>3. CASE UNCHANGED <<objects, blame>>
    BY <1>1, <1>2, <1>3, <2>1, <2>3, CarryOnlySafe DEF AtStep
  <2>4. QED
    BY <2>1, <2>2, <2>3
<1>16. CASE DropRow(w)
  <2> DEFINE f == carry[w].file
  <2>1. AtStep(w, "drop") /\ UNCHANGED <<objects, page, user, blame>> /\ Done(w)
        /\ files' = [files EXCEPT ![f].row = "gone"]
    BY <1>16 DEF DropRow
  <2>2. f \in Files /\ Born(f) /\ files[f].key = k /\ objects[k] = "deleted"
    BY <1>2, <2>1 DEF CarrierOK, AtStep
  <2>3. RowsGo({f})
    BY <2>1, <2>2 DEF RowsGo, FilesInv, FilesTypeOK
  <2>4. \A g \in Files : Born(g) /\ files[g].key = k => g \in {f}
    BY <2>2 DEF FilesInv, RowFacts
  <2>5. page \in {"live", "trashed", "gone"} /\ user \in {"live", "gone"}
    BY DEF FilesInv, FilesTypeOK
  <2>6. QED
    BY <1>2, <1>3, <2>1, <2>2, <2>3, <2>4, <2>5, RowsGoSafe
<1>17. CASE DropFails(w)
  <2>1. /\ AtStep(w, "drop") /\ k \in Keys /\ Blames(k, "delete") /\ Done(w)
        /\ UNCHANGED <<files, objects, page, user>>
    BY <1>1, <1>17 DEF DropFails, AtStep
  <2>2. blame \subseteq blame' /\ blame' \subseteq Keys \X Cause /\ <<k, "delete">> \in blame'
    BY <1>5, <2>1 DEF Cause
  <2>3. QED
    BY <1>1, <1>3, <2>1, <2>2, CarryOnlySafe DEF AtStep, Blamed
<1>18. CASE Crash(w)
  <2>1. /\ ~AtStep(w, "idle") /\ k \in Keys /\ Blames(k, "crash") /\ Done(w)
        /\ UNCHANGED <<files, page, user>>
        /\ \/ /\ AtStep(w, "put")
              /\ \E o \in {"stored", "deleted"} : objects' = [objects EXCEPT ![k] = o]
           \/ UNCHANGED objects
    BY <1>1, <1>18 DEF Crash, AtStep
  <2>2. blame \subseteq blame' /\ blame' \subseteq Keys \X Cause /\ <<k, "crash">> \in blame'
    BY <1>5, <2>1 DEF Cause
  <2>3. ASSUME AtStep(w, "put"), NEW o \in {"stored", "deleted"},
               objects' = [objects EXCEPT ![k] = o]
        PROVE  FilesInv'
    <3>1. ~Named(k)
      BY <1>2, <2>3 DEF CarrierOK, AtStep
    <3>2. QED
      BY <1>1, <1>3, <2>1, <2>2, <2>3, <3>1, ObjectWriteSafe DEF AtStep, Blamed
  <2>4. CASE UNCHANGED objects
    BY <1>1, <1>3, <2>1, <2>2, <2>4, CarryOnlySafe DEF AtStep, Blamed
  <2>5. QED
    BY <2>1, <2>3, <2>4
<1>19. QED
  BY <1>6, <1>7, <1>8, <1>9, <1>10, <1>11, <1>12, <1>13, <1>14, <1>15, <1>16, <1>17, <1>18
  DEF CarrierStep

LEMMA InitFilesInv == FilesInit => FilesInv
  BY NothingAssumption DEF FilesInit, FilesInv, FilesTypeOK, RowFacts, CarryFacts, CarrierOK, Born,
     AtStep, ListedHasObject, OrphanHasCause, Empty, Carry, CarryPC, FileRow

LEMMA NextFilesInv == FilesInv /\ [FilesNext]_fileVars => FilesInv'
<1> SUFFICES ASSUME FilesInv, [FilesNext]_fileVars PROVE FilesInv'
  OBVIOUS
<1>1. /\ page \in {"live", "trashed", "gone"} /\ user \in {"live", "gone"}
      /\ blame \subseteq Keys \X Cause /\ files \in [Files -> FileRow]
  BY DEF FilesInv, FilesTypeOK
<1>2. ASSUME NEW w \in Carriers, CarrierStep(w)
      PROVE  FilesInv'
  BY <1>2, CarrierStepSafe
<1>3. CASE TrashDraft \/ UNCHANGED fileVars
  <2>1. RowsGo({})
    BY <1>1, <1>3 DEF TrashDraft, RowsGo, fileVars
  <2>2. /\ objects' = objects /\ carry' = carry /\ blame' = blame
        /\ page' \in {"live", "trashed", "gone"} /\ user' = user
    BY <1>1, <1>3 DEF TrashDraft, fileVars
  <2>3. QED
    BY <1>1, <2>1, <2>2, RowsGoSafe
<1>4. ASSUME NEW kinds, Cascade(LiveOf(kinds)), page' = "gone", user' \in {"live", "gone"}
      PROVE  FilesInv'
  <2> DEFINE gone == LiveOf(kinds)
  <2>1. gone \in SUBSET Files /\ \A f \in gone : Born(f) /\ files[f].key \in Keys
    BY DEF LiveOf, FilesInv, RowFacts, Born
  <2>2. blame' = blame \cup {<<k, "cascade">> : k \in {files[f].key : f \in gone}}
    BY <1>4 DEF Cascade, Orphaned
  <2>3. /\ blame \subseteq blame' /\ blame' \subseteq Keys \X Cause
        /\ \A f \in gone : <<files[f].key, "cascade">> \in blame'
    BY <1>1, <2>1, <2>2 DEF Cause
  <2>4. RowsGo(gone) /\ objects' = objects /\ carry' = carry
    BY <1>4 DEF Cascade, RowsGo
  <2>5. QED
    BY <1>4, <2>1, <2>3, <2>4, RowsGoSafe
<1>5. CASE DropPage \/ DropUser
  BY <1>1, <1>4, <1>5 DEF DropPage, DropUser
<1>6. QED
  BY <1>2, <1>3, <1>5 DEF FilesNext

(* The store and the database are written one after the other and no        *)
(* transaction spans them: whatever fails, crashes or overlaps, a row has   *)
(* its object and an object its row, or something broke off between the two *)
(* and the history names it.                                               *)
THEOREM FilesMatch == FilesSpec => []FilesMatchRows
<1>1. FilesInv => FilesMatchRows
  BY DEF FilesInv, FilesMatchRows
<1>2. QED
  BY InitFilesInv, NextFilesInv, <1>1, PTL DEF FilesSpec

-----------------------------------------------------------------------------
(* The templates.                                                          *)

(* Who asked is known, a default is asked by an administrator, and the      *)
(* space a template will be kept in was the user's when it was looked up.  *)
ErrandFacts ==
    \A w \in TemplateWorkers :
        LET r == errand[w]
        IN /\ r.pc # "idle" => r.user \in People
           /\ r.pc = "space" => r.space \in Desks
           /\ r.pc \in {"space", "insert"} /\ r.isDefault => r.user \in Admins
           /\ r.pc = "insert" /\ r.space # VOID =>
                 desks[r.space].row # "unborn" /\ desks[r.space].owner = r.user
           /\ r.pc = "delete" => r.template \in Templates

DesksOwned == \A s \in Desks : DeskLive(s) => desks[s].owner \in accounts

TemplateFacts ==
    \A t \in Templates : Stored(t) =>
        /\ makers[t] \in People
        /\ templates[t].isDefault => makers[t] \in Admins
        /\ templates[t].creator # makers[t] => templates[t].creator = VOID /\ makers[t] \notin accounts
        /\ templates[t].space # VOID =>
              /\ DeskLive(templates[t].space)
              /\ desks[templates[t].space].owner = templates[t].creator

TemplatesInv == TemplatesTypeOK /\ ErrandFacts /\ DesksOwned /\ TemplateFacts

LEMMA InitTemplatesInv == TemplatesInit => TemplatesInv
  BY DEF TemplatesInit, TemplatesInv, TemplatesTypeOK, ErrandFacts, DesksOwned, TemplateFacts,
     DeskLive, Stored, Still, Errand, DeskRow, TemplateRow

(* A request goes on: the rows are as they were.                           *)
LEMMA ErrandOnly ==
  ASSUME TemplatesInv, UNCHANGED <<accounts, desks, templates, makers>>,
         NEW w \in TemplateWorkers, NEW r \in Errand, Sets(w, r),
         r.pc # "idle" => r.user \in People,
         r.pc = "space" => r.space \in Desks,
         r.pc \in {"space", "insert"} /\ r.isDefault => r.user \in Admins,
         r.pc = "insert" /\ r.space # VOID =>
            desks[r.space].row # "unborn" /\ desks[r.space].owner = r.user,
         r.pc = "delete" => r.template \in Templates
  PROVE  TemplatesInv'
<1>1. errand' \in [TemplateWorkers -> Errand] /\ errand'[w] = r
      /\ \A v \in TemplateWorkers : v # w => errand'[v] = errand[v]
  BY DEF TemplatesInv, TemplatesTypeOK, Sets
<1>2. TemplatesTypeOK'
  BY <1>1 DEF TemplatesInv, TemplatesTypeOK
<1>3. ErrandFacts'
  BY <1>1 DEF TemplatesInv, ErrandFacts
<1>4. DesksOwned' /\ TemplateFacts'
  BY DEF TemplatesInv, DesksOwned, TemplateFacts, DeskLive, Stored
<1>5. QED
  BY <1>2, <1>3, <1>4 DEF TemplatesInv

LEMMA StillIsErrand == Still \in Errand /\ Still.pc = "idle"
  BY DEF Still, Errand

LEMMA InsertTemplateSafe ==
  ASSUME TemplatesInv, NEW w \in TemplateWorkers, InsertTemplate(w)
  PROVE  TemplatesInv'
<1> DEFINE r == errand[w]
<1>1. /\ r \in Errand /\ r.user \in People
      /\ r.isDefault => r.user \in Admins
      /\ r.space # VOID => desks[r.space].row # "unborn" /\ desks[r.space].owner = r.user
  BY DEF TemplatesInv, TemplatesTypeOK, ErrandFacts, InsertTemplate, Stands
<1>2. CASE UNCHANGED <<templates, makers>>
  BY <1>2, StillIsErrand, ErrandOnly DEF InsertTemplate, Leaves
<1>3. ASSUME r.user \in accounts, r.space # VOID => DeskLive(r.space), NEW t \in Templates,
             templates[t].row = "unborn",
             templates' = [templates EXCEPT ![t] =
                    [row |-> "live", isDefault |-> r.isDefault, space |-> r.space,
                     creator |-> r.user]],
             makers' = [makers EXCEPT ![t] = r.user]
      PROVE  TemplatesInv'
  <2> DEFINE row == [row |-> "live", isDefault |-> r.isDefault, space |-> r.space,
                     creator |-> r.user]
  <2>1. row \in TemplateRow
    BY <1>1 DEF TemplateRow, Errand
  <2>2. /\ row.isDefault = r.isDefault /\ row.space = r.space /\ row.creator = r.user
        /\ templates' = [templates EXCEPT ![t] = row]
    BY <1>3
  <2> HIDE DEF row
  <2>3. UNCHANGED <<accounts, desks>> /\ Leaves(w)
    BY DEF InsertTemplate
  <2>4. /\ templates' \in [Templates -> TemplateRow] /\ templates'[t] = row
        /\ makers' \in [Templates -> {VOID} \cup People] /\ makers'[t] = r.user
        /\ \A u \in Templates : u # t => templates'[u] = templates[u] /\ makers'[u] = makers[u]
    BY <1>1, <1>3, <2>1, <2>2 DEF TemplatesInv, TemplatesTypeOK
  <2>5. /\ errand' \in [TemplateWorkers -> Errand] /\ errand'[w].pc = "idle"
        /\ \A v \in TemplateWorkers : v # w => errand'[v] = errand[v]
    BY <2>3, StillIsErrand DEF TemplatesInv, TemplatesTypeOK, Leaves, Sets
  <2>6. TemplatesTypeOK'
    BY <2>3, <2>4, <2>5 DEF TemplatesInv, TemplatesTypeOK
  <2>7. ErrandFacts'
    BY <2>3, <2>5 DEF TemplatesInv, ErrandFacts
  <2>8. DesksOwned'
    BY <2>3 DEF TemplatesInv, DesksOwned, DeskLive
  <2>9. TemplateFacts'
    BY <1>1, <1>3, <2>2, <2>3, <2>4 DEF TemplatesInv, TemplateFacts, DeskLive, Stored
  <2>10. QED
    BY <2>6, <2>7, <2>8, <2>9 DEF TemplatesInv
<1>4. QED
  BY <1>2, <1>3 DEF InsertTemplate

(* Rows that go or change owner, the requests being where they are.        *)
LEMMA RowsOnly ==
  ASSUME TemplatesInv, makers' = makers, accounts' \subseteq accounts,
         \/ errand' = errand
         \/ \E w \in TemplateWorkers : Leaves(w),
         desks' \in [Desks -> DeskRow], templates' \in [Templates -> TemplateRow],
         \A s \in Desks : /\ desks'[s].owner = desks[s].owner
                          /\ desks'[s].row # desks[s].row => desks'[s].row = "gone"
                          /\ desks'[s].row = "live" => desks[s].owner \in accounts',
         \A t \in Templates : Stored(t)' =>
            /\ Stored(t)
            /\ templates'[t].isDefault = templates[t].isDefault
            /\ templates'[t].space = templates[t].space
            /\ templates'[t].space # VOID => /\ desks'[templates[t].space].row = "live"
                                             /\ templates'[t].creator = templates[t].creator
            /\ \/ templates'[t].creator = templates[t].creator
               \/ templates'[t].creator = VOID /\ makers[t] \notin accounts'
  PROVE  TemplatesInv'
<1>1. errand' \in [TemplateWorkers -> Errand]
      /\ \A v \in TemplateWorkers : errand'[v] = errand[v] \/ errand'[v].pc = "idle"
  BY StillIsErrand DEF TemplatesInv, TemplatesTypeOK, Leaves, Sets
<1>2. TemplatesTypeOK'
  BY <1>1 DEF TemplatesInv, TemplatesTypeOK
<1>3. ErrandFacts'
  <2> SUFFICES ASSUME NEW v \in TemplateWorkers, errand'[v] = errand[v]
               PROVE  errand[v].pc = "insert" /\ errand[v].space # VOID =>
                         /\ desks'[errand[v].space].row # "unborn"
                         /\ desks'[errand[v].space].owner = errand[v].user
    BY <1>1 DEF TemplatesInv, ErrandFacts
  <2>1. errand[v].space # VOID => errand[v].space \in Desks
    BY DEF TemplatesInv, TemplatesTypeOK, Errand
  <2>2. QED
    BY <2>1 DEF TemplatesInv, ErrandFacts
<1>4. DesksOwned'
  BY DEF DesksOwned, DeskLive
<1>5. TemplateFacts'
  <2> SUFFICES ASSUME NEW t \in Templates, Stored(t)'
               PROVE  /\ makers[t] \in People
                      /\ templates'[t].isDefault => makers[t] \in Admins
                      /\ templates'[t].creator # makers[t] =>
                            templates'[t].creator = VOID /\ makers[t] \notin accounts'
                      /\ templates'[t].space # VOID =>
                            /\ desks'[templates'[t].space].row = "live"
                            /\ desks'[templates'[t].space].owner = templates'[t].creator
    BY DEF TemplateFacts, DeskLive
  <2>1. templates[t].space # VOID => templates[t].space \in Desks
    BY DEF TemplatesInv, TemplatesTypeOK, TemplateRow
  <2>2. QED
    BY <2>1 DEF TemplatesInv, TemplateFacts
<1>6. QED
  BY <1>2, <1>3, <1>4, <1>5 DEF TemplatesInv

LEMMA NextTemplatesInv == TemplatesInv /\ [TemplatesNext]_templateVars => TemplatesInv'
<1> SUFFICES ASSUME TemplatesInv, [TemplatesNext]_templateVars PROVE TemplatesInv'
  OBVIOUS
<1>1. TemplatesTypeOK /\ ErrandFacts /\ DesksOwned /\ TemplateFacts
  BY DEF TemplatesInv
<1>2. \A s \in {VOID} \cup Desks : s # VOID => s \in Desks
  OBVIOUS
<1>3. ASSUME NEW w \in TemplateWorkers, NEW u \in People, NEW s \in {VOID} \cup Desks,
             NEW wanted \in BOOLEAN, CreateTemplate(w, u, s, wanted)
      PROVE  TemplatesInv'
  <2> DEFINE r == [Still EXCEPT !.pc = IF s = VOID THEN "insert" ELSE "space",
                             !.user = u, !.space = s, !.isDefault = wanted /\ u \in Admins]
  <2>1. (wanted /\ u \in Admins) \in BOOLEAN
    OBVIOUS
  <2>2. /\ r \in Errand /\ r.user = u /\ r.space = s
        /\ s = VOID => r.pc = "insert"
        /\ s # VOID => r.pc = "space"
        /\ r.isDefault => u \in Admins
    BY <2>1 DEF Still, Errand
  <2>3. Sets(w, r) /\ UNCHANGED <<accounts, desks, templates, makers>>
    BY <1>3 DEF CreateTemplate
  <2> HIDE DEF r
  <2>4. r.pc \in {"insert", "space"}
    BY <2>2
  <2>5. QED
    BY <2>2, <2>3, <2>4, ErrandOnly
<1>4. ASSUME NEW w \in TemplateWorkers, NEW u \in People, NEW t \in Templates, FindTemplate(w, u, t)
      PROVE  TemplatesInv'
  <2> DEFINE r == [Still EXCEPT !.pc = "delete", !.user = u, !.template = t]
  <2>1. r \in Errand /\ r.user = u /\ r.pc = "delete" /\ r.template = t
    BY DEF Still, Errand
  <2>2. Sets(w, r) /\ UNCHANGED <<accounts, desks, templates, makers>>
    BY <1>4 DEF FindTemplate
  <2> HIDE DEF r
  <2>3. QED
    BY <2>1, <2>2, ErrandOnly
<1>5. ASSUME NEW w \in TemplateWorkers, FindSpace(w)
      PROVE  TemplatesInv'
  <2>1. UNCHANGED <<accounts, desks, templates, makers>>
    BY <1>5 DEF FindSpace
  <2>2. CASE Leaves(w)
    BY <2>1, <2>2, StillIsErrand, ErrandOnly DEF Leaves
  <2>3. CASE /\ Sets(w, [errand[w] EXCEPT !.pc = "insert"])
             /\ DeskLive(errand[w].space) /\ desks[errand[w].space].owner = errand[w].user
    <3> DEFINE r == [errand[w] EXCEPT !.pc = "insert"]
    <3>1. errand[w] \in Errand /\ errand[w].pc = "space"
      BY <1>1, <1>5 DEF TemplatesTypeOK, FindSpace, Stands
    <3>2. /\ r \in Errand /\ r.pc = "insert" /\ r.user = errand[w].user
          /\ r.space = errand[w].space /\ r.isDefault = errand[w].isDefault
      BY <3>1 DEF Errand
    <3> HIDE DEF r
    <3>3. r.user \in People /\ (r.isDefault => r.user \in Admins)
      BY <1>1, <3>1, <3>2 DEF ErrandFacts
    <3>4. Sets(w, r)
      BY <2>3 DEF r
    <3>5. QED
      BY <2>1, <2>3, <3>2, <3>3, <3>4, ErrandOnly DEF DeskLive
  <2>4. QED
    BY <1>5, <2>2, <2>3 DEF FindSpace
<1>6. ASSUME NEW w \in TemplateWorkers, InsertTemplate(w)
      PROVE  TemplatesInv'
  BY <1>6, InsertTemplateSafe
<1>7. ASSUME NEW w \in TemplateWorkers, RemoveTemplate(w)
      PROVE  TemplatesInv'
  <2> DEFINE t == errand[w].template
  <2>1. t \in Templates
    BY <1>1, <1>7 DEF ErrandFacts, RemoveTemplate, Stands
  <2>2. /\ templates' \in [Templates -> TemplateRow]
        /\ \A q \in Templates : Stored(q)' => templates'[q] = templates[q]
    BY <1>1, <1>7, <2>1 DEF RemoveTemplate, TemplatesTypeOK, TemplateRow, Stored
  <2>3. UNCHANGED <<accounts, desks, makers>> /\ Leaves(w)
    BY <1>7 DEF RemoveTemplate
  <2>4. \A q \in Templates : Stored(q)' => Stored(q) /\ templates'[q] = templates[q]
    BY <2>2 DEF Stored
  <2>5. QED
    BY <1>1, <2>2, <2>3, <2>4, RowsOnly
    DEF TemplatesTypeOK, DesksOwned, TemplateFacts, DeskLive
<1>8. ASSUME NEW u \in People, RemoveAccount(u)
      PROVE  TemplatesInv'
  <2> DEFINE owned == {s \in Desks : DeskLive(s) /\ desks[s].owner = u}
             rest == Without(owned)
  <2>1. /\ accounts' = accounts \ {u} /\ makers' = makers /\ errand' = errand
        /\ desks' = [s \in Desks |-> IF s \in owned THEN [desks[s] EXCEPT !.row = "gone"]
                                     ELSE desks[s]]
        /\ templates' = [t \in Templates |-> IF rest[t].creator = u
                                             THEN [rest[t] EXCEPT !.creator = VOID]
                                             ELSE rest[t]]
    BY <1>8 DEF RemoveAccount
  <2>2. \A t \in Templates :
           /\ rest[t] \in TemplateRow
           /\ rest[t].creator = templates[t].creator /\ rest[t].space = templates[t].space
           /\ rest[t].isDefault = templates[t].isDefault
           /\ rest[t].row = "live" => Stored(t) /\ templates[t].space \notin owned
    BY <1>1 DEF Without, TemplatesTypeOK, TemplateRow, Stored
  <2> HIDE DEF rest
  <2>3. \A t \in Templates :
           /\ templates'[t] \in TemplateRow
           /\ templates'[t].space = templates[t].space
           /\ templates'[t].isDefault = templates[t].isDefault
           /\ templates'[t].row = "live" => Stored(t) /\ templates[t].space \notin owned
           /\ templates[t].creator # u => templates'[t].creator = templates[t].creator
           /\ templates[t].creator = u => templates'[t].creator = VOID
    BY <2>1, <2>2 DEF TemplateRow
  <2>4. \A s \in Desks : /\ desks'[s] \in DeskRow /\ desks'[s].owner = desks[s].owner
                         /\ s \in owned => desks'[s].row = "gone"
                         /\ s \notin owned => desks'[s].row = desks[s].row
    BY <1>1, <2>1 DEF TemplatesTypeOK, DeskRow
  <2>5. desks' \in [Desks -> DeskRow] /\ templates' \in [Templates -> TemplateRow]
    BY <2>1, <2>3, <2>4
  <2>6. ASSUME NEW t \in Templates, Stored(t)'
        PROVE  /\ Stored(t)
               /\ templates'[t].space # VOID => /\ desks'[templates[t].space].row = "live"
                                                /\ templates'[t].creator = templates[t].creator
               /\ \/ templates'[t].creator = templates[t].creator
                  \/ templates'[t].creator = VOID /\ makers[t] \notin accounts'
    <3>1. Stored(t) /\ templates[t].space \notin owned
      BY <2>3, <2>6 DEF Stored
    <3>2. templates[t].space # VOID =>
             /\ templates[t].space \in Desks /\ DeskLive(templates[t].space)
             /\ desks[templates[t].space].owner = templates[t].creator
      BY <1>1, <3>1 DEF TemplatesTypeOK, TemplateRow, TemplateFacts
    <3>3. templates[t].space # VOID => templates[t].creator # u
      BY <3>1, <3>2
    <3>4. templates[t].creator = u => makers[t] \notin accounts'
      BY <1>1, <2>1, <3>1, NullAssumption DEF TemplateFacts
    <3>5. QED
      BY <2>3, <2>4, <3>1, <3>2, <3>3, <3>4 DEF DeskLive
  <2>7. \A s \in Desks : desks'[s].row = "live" => desks[s].owner \in accounts'
    BY <1>1, <2>1, <2>4 DEF DesksOwned, DeskLive
  <2>8. QED
    BY <2>1, <2>3, <2>4, <2>5, <2>6, <2>7, RowsOnly
<1>9. ASSUME NEW s \in Desks, CloseDesk(s)
      PROVE  TemplatesInv'
  <2>1. /\ desks' = [desks EXCEPT ![s].row = "gone"] /\ templates' = Without({s})
        /\ UNCHANGED <<accounts, makers, errand>>
    BY <1>9 DEF CloseDesk
  <2>2. /\ desks' \in [Desks -> DeskRow]
        /\ \A d \in Desks : /\ desks'[d].owner = desks[d].owner
                            /\ d = s => desks'[d].row = "gone"
                            /\ d # s => desks'[d].row = desks[d].row
    BY <1>1, <2>1 DEF TemplatesTypeOK, DeskRow
  <2>3. /\ templates' \in [Templates -> TemplateRow]
        /\ \A t \in Templates : Stored(t)' =>
              Stored(t) /\ templates'[t] = templates[t] /\ templates[t].space # s
    BY <1>1, <2>1 DEF TemplatesTypeOK, Without, Stored, TemplateRow
  <2>4. \A t \in Templates : templates[t].space # VOID => templates[t].space \in Desks
    BY <1>1 DEF TemplatesTypeOK, TemplateRow
  <2>5. \A d \in Desks : /\ desks'[d].row # desks[d].row => desks'[d].row = "gone"
                         /\ desks'[d].row = "live" => desks[d].owner \in accounts'
    BY <1>1, <2>1, <2>2 DEF DesksOwned, DeskLive
  <2>6. ASSUME NEW t \in Templates, Stored(t)', templates'[t].space # VOID
        PROVE  desks'[templates[t].space].row = "live"
    BY <1>1, <2>2, <2>3, <2>4, <2>6 DEF TemplateFacts, DeskLive
  <2>7. QED
    BY <2>1, <2>2, <2>3, <2>5, <2>6, RowsOnly
<1>10. ASSUME NEW u \in People, NEW s \in Desks, OpenDesk(u, s)
       PROVE  TemplatesInv'
  <2>1. /\ u \in accounts /\ desks[s].row = "unborn"
        /\ desks' = [desks EXCEPT ![s] = [row |-> "live", owner |-> u]]
        /\ UNCHANGED <<accounts, templates, makers, errand>>
    BY <1>10 DEF OpenDesk
  <2>2. TemplatesTypeOK'
    BY <1>1, <2>1 DEF TemplatesTypeOK, DeskRow
  <2>3. desks'[s] = [row |-> "live", owner |-> u] /\ \A d \in Desks : d # s => desks'[d] = desks[d]
    BY <1>1, <2>1 DEF TemplatesTypeOK
  <2>4. ErrandFacts'
    <3>1. \A w \in TemplateWorkers : errand[w].space # VOID => errand[w].space \in Desks
      BY <1>1 DEF TemplatesTypeOK, Errand
    <3>2. QED
      BY <1>1, <2>1, <2>3, <3>1 DEF ErrandFacts
  <2>5. DesksOwned'
    BY <1>1, <2>1, <2>3 DEF DesksOwned, DeskLive
  <2>6. TemplateFacts'
    <3>1. \A t \in Templates : templates[t].space # VOID => templates[t].space \in Desks
      BY <1>1 DEF TemplatesTypeOK, TemplateRow
    <3>2. QED
      BY <1>1, <2>1, <2>3, <3>1 DEF TemplateFacts, DeskLive, Stored
  <2>7. QED
    BY <2>2, <2>4, <2>5, <2>6 DEF TemplatesInv
<1>11. CASE UNCHANGED templateVars
  BY <1>1, <1>11 DEF templateVars, TemplatesInv, TemplatesTypeOK, ErrandFacts, DesksOwned,
     TemplateFacts, DeskLive, Stored
<1>12. QED
  BY <1>3, <1>4, <1>5, <1>6, <1>7, <1>8, <1>9, <1>10, <1>11 DEF TemplatesNext

(* A template is kept in a live space of its creator or in none, what others *)
(* are offered was made by an administrator, and one nobody can use or      *)
(* delete any more was made by an account that is gone.                    *)
THEOREM TemplatesStayHome == TemplatesSpec => []TemplatesAtHome
<1>1. TemplatesInv => TemplatesAtHome
  <2> SUFFICES ASSUME TemplatesInv, NEW t \in Templates, Stored(t)
               PROVE  /\ templates[t].space # VOID =>
                            /\ DeskLive(templates[t].space)
                            /\ desks[templates[t].space].owner = templates[t].creator
                      /\ \A u \in People : Offered(u, t) => u = makers[t] \/ makers[t] \in Admins
                      /\ (\A u \in People : ~Offered(u, t)) => makers[t] \notin accounts
    BY DEF TemplatesAtHome
  <2>1. /\ makers[t] \in People
        /\ templates[t].isDefault => makers[t] \in Admins
        /\ templates[t].creator # makers[t] => templates[t].creator = VOID /\ makers[t] \notin accounts
        /\ templates[t].space # VOID =>
              /\ DeskLive(templates[t].space)
              /\ desks[templates[t].space].owner = templates[t].creator
    BY DEF TemplatesInv, TemplateFacts
  <2>2. VOID \notin People
    BY NullAssumption
  <2>3. QED
    BY <2>1, <2>2 DEF Offered
<1>2. QED
  BY InitTemplatesInv, NextTemplatesInv, <1>1, PTL DEF TemplatesSpec

(* Rows, objects and the locals of every request keep their types in the    *)
(* tree, the files and the templates.                                      *)
THEOREM WorkspaceTypesSafe ==
    TreeSpec /\ FilesSpec /\ TemplatesSpec => []WorkspaceTypeOK
<1>1. FilesInv => FilesTypeOK
  BY DEF FilesInv
<1>2. TemplatesInv => TemplatesTypeOK
  BY DEF TemplatesInv
<1>3. FilesSpec => []FilesTypeOK
  BY InitFilesInv, NextFilesInv, <1>1, PTL DEF FilesSpec
<1>4. TemplatesSpec => []TemplatesTypeOK
  BY InitTemplatesInv, NextTemplatesInv, <1>2, PTL DEF TemplatesSpec
<1>5. QED
  BY TreeTypeSafe, <1>3, <1>4, PTL DEF WorkspaceTypeOK
=============================================================================
