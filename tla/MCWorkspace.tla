----------------------------- MODULE MCWorkspace -----------------------------
(* A candidate's workspaces for TLC: the tree of spaces, pages and tags,     *)
(* the files, or the templates; a behaviour is about one of the three.  At   *)
(* most Budget requests on the tree in a behaviour.                        *)
EXTENDS Workspace, TLC

CONSTANTS c1, c2, s1, s2, p1, p2, p3, t1, u, Budget, f1, f2, a1, a2, m1, m2

VARIABLES
    part,   \* what the behaviour is about
    left    \* requests that may still arrive at the tree

TwoClients == {c1, c2}
TwoSpaces == {s1, s2}
ThreePages == {p1, p2, p3}
OneTag == {t1}
OneTitle == {u}
TwoFiles == {f1, f2}
TwoPeople == {a1, a2}
OneAdmin == {a1}
TwoTemplates == {m1, m2}

WorkspaceInit ==
    /\ TreeInit /\ FilesInit /\ TemplatesInit
    /\ part \in {"tree", "files", "templates"} /\ left = Budget

BoundedTreeNext ==
    \E w \in Clients :
        \/ left > 0 /\ TreeArrive(w) /\ left' = left - 1
        \/ TreeContinue(w) /\ UNCHANGED left

(* Pages, templates and rows of files are interchangeable: each is made in   *)
(* one order.                                                              *)
InOrder ==
    /\ tree'[p2].row # "unborn" => tree'[p1].row # "unborn"
    /\ tree'[p3].row # "unborn" => tree'[p2].row # "unborn"
    /\ files'[f2].row # "unborn" => files'[f1].row # "unborn"
    /\ templates'[m2].row # "unborn" => templates'[m1].row # "unborn"

WorkspaceNext ==
    /\ UNCHANGED part
    /\ \/ part = "tree" /\ BoundedTreeNext /\ UNCHANGED <<fileVars, templateVars>>
       \/ part = "files" /\ FilesNext /\ UNCHANGED <<treeVars, templateVars, left>>
       \/ part = "templates" /\ TemplatesNext /\ UNCHANGED <<treeVars, fileVars, left>>
    /\ InOrder

WorkspaceSpec == WorkspaceInit /\ [][WorkspaceNext]_<<treeVars, fileVars, templateVars, part, left>>

(* A client carries files and makes templates, the names of spaces serve as *)
(* keys: the parts do not meet.                                            *)
Symmetry == Permutations(Clients) \cup Permutations(SpaceIds)
=============================================================================
