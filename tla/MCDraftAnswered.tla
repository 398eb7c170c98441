--------------------------- MODULE MCDraftAnswered ---------------------------
(* DraftAnswered for TLC. *)
EXTENDS MCDraftLifecycle, DraftAnswered
=============================================================================
