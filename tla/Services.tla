------------------------------- MODULE Services -------------------------------
(***************************************************************************)
(* The services beside the core, and what several of them, or several steps *)
(* of one, promise together.  They share no state.                         *)
(***************************************************************************)
EXTENDS AssistantChat, Delivery, ReferenceLoad, Catalogue

(* The types of their variables.                                           *)
ServicesTypeOK == ChatTypeOK /\ DeliveryTypeOK /\ ReferenceTypeOK /\ CatalogueTypeOK

(* What belongs to one user stays with that user, in the chat and in the    *)
(* notifications.                                                          *)
OwnersOnly == TenantIsolation /\ NotesOfOwner

(* A deployment that ends badly has a cause: a check of the loader that     *)
(* fails, an administrator without a role.                                 *)
DeploymentHasCause == FailedCheckHasCause /\ BareAccountHasCause
=============================================================================
