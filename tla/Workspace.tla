------------------------------ MODULE Workspace ------------------------------
(***************************************************************************)
(* A candidate's workspaces: the tree of spaces, pages and tags, the        *)
(* templates kept in them, and the files beside them.  They share no state. *)
(***************************************************************************)
EXTENDS DraftTree, StoredFiles, DraftTemplates

(* Types of the variables of the parts. *)
WorkspaceTypeOK == TreeTypeOK /\ FilesTypeOK /\ TemplatesTypeOK
=============================================================================
