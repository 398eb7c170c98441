------------------------------ MODULE Delivery ------------------------------
(***************************************************************************)
(* What the back end hands to a user outside the answer to a request: the  *)
(* mail queue (MailService, MailProcessor, BullMQ) and the notifications.  *)
(*                                                                         *)
(* MailService.add is one command to Redis, MailProcessor one job at a     *)
(* time; BullMQ is external and modelled as it is used here: no attempts   *)
(* are configured, so a job that throws has failed, and a job whose worker *)
(* dies is started once more.  A poster is one createNotification or       *)
(* markAsRead in flight, each action one statement.                        *)
(***************************************************************************)
EXTENDS Integers, FiniteSets

CONSTANTS
    Mails,          \* jobs
    Posters,        \* notification requests in flight at the same time
    Recipients,     \* users
    TypeCodes,      \* codes of notification types
    Notes,          \* identifiers of notifications rows
    DeliveryCalls,  \* what clients and the environment do in this instance
    NOTE            \* null

AllDeliveryCalls == {"mail", "notify", "read", "readAll",
                     "queueFault", "smtpFault", "postFault", "workerCrash"}

ASSUME DeliveryCallsAssumption == DeliveryCalls \subseteq AllDeliveryCalls
ASSUME NoteAssumption == NOTE \notin Notes \cup TypeCodes \cup Recipients

VARIABLES
    mails,     \* the job of each mail, how often it was delivered, what the caller was told
    types,     \* notification_types: codes
    notes,     \* notifications: row, user, type, readAt
    post       \* the locals of each notification request

deliveryVars == <<mails, types, notes, post>>

MailRow == [job : {"none", "waiting", "active", "completed", "failed"},
            handed : BOOLEAN, stalls : Nat, delivered : Nat, told : {"nothing", "queued", "error"}]
NoteRow == [row : {"none", "stored"}, user : {NOTE} \cup Recipients,
            type : {NOTE} \cup TypeCodes, readBy : SUBSET Recipients]
Post == [pc : {"idle", "create", "insert", "update"}, user : {NOTE} \cup Recipients,
         type : {NOTE} \cup TypeCodes, note : {NOTE} \cup Notes]
AtRest == [pc |-> "idle", user |-> NOTE, type |-> NOTE, note |-> NOTE]

MaxStalls == 1   \* maxStalledCount of BullMQ

DeliveryInit ==
    /\ mails = [m \in Mails |-> [job |-> "none", handed |-> FALSE, stalls |-> 0,
                               delivered |-> 0, told |-> "nothing"]]
    /\ types = {}
    /\ notes = [n \in Notes |-> [row |-> "none", user |-> NOTE, type |-> NOTE, readBy |-> {}]]
    /\ post = [w \in Posters |-> AtRest]

-----------------------------------------------------------------------------
(* Mail.                                                                   *)

Unposted == UNCHANGED <<types, notes, post>>

(* sendVerificationEmail, sendPasswordResetEmail: mailQueue.add *)
AddJob(m) ==
    /\ "mail" \in DeliveryCalls /\ mails[m].told = "nothing"
    /\ mails' = [mails EXCEPT ![m].job = "waiting", ![m].told = "queued"]
    /\ Unposted

(* Redis does not answer, having taken the job or not: 'Failed to dispatch email' *)
AddJobFails(m) ==
    /\ {"mail", "queueFault"} \subseteq DeliveryCalls /\ mails[m].told = "nothing"
    /\ \E job \in {"none", "waiting"} :
          mails' = [mails EXCEPT ![m].job = job, ![m].told = "error"]
    /\ Unposted

(* One job at a time: the concurrency of a worker that sets none. *)
Process(m) ==
    /\ mails[m].job = "waiting"
    /\ \A other \in Mails : mails[other].job # "active"
    /\ mails' = [mails EXCEPT ![m].job = "active", ![m].handed = FALSE]
    /\ Unposted

(* The SMTP server takes the mail. *)
Deliver(m) ==
    /\ mails[m].job = "active" /\ ~mails[m].handed
    /\ mails' = [mails EXCEPT ![m].handed = TRUE, ![m].delivered = @ + 1]
    /\ Unposted

Complete(m) ==
    /\ mails[m].job = "active" /\ mails[m].handed
    /\ mails' = [mails EXCEPT ![m].job = "completed"]
    /\ Unposted

(* Mutant: the error is logged and swallowed. *)
SendFailsSilently(m) ==
    /\ "smtpFault" \in DeliveryCalls /\ mails[m].job = "active"
    /\ mails' = [mails EXCEPT ![m].job = "completed"]
    /\ Unposted

(* sendMail throws, whether or not the server had taken the mail, and the   *)
(* job throws with it.                                                     *)
SendFails(m) ==
    /\ "smtpFault" \in DeliveryCalls /\ mails[m].job = "active"
    /\ mails' = [mails EXCEPT ![m].job = "failed"]
    /\ Unposted

(* The worker dies with its job. *)
WorkerCrash(m) ==
    /\ "workerCrash" \in DeliveryCalls /\ mails[m].job = "active"
    /\ mails' = [mails EXCEPT ![m].stalls = @ + 1,
                              ![m].job = IF mails[m].stalls < MaxStalls THEN "waiting" ELSE "failed"]
    /\ Unposted

-----------------------------------------------------------------------------
(* Notifications.                                                          *)

Unmailed == UNCHANGED mails
Rest(w) == post' = [post EXCEPT ![w] = AtRest]

(* createNotification: the type by its code *)
FindType(w, u, code) ==
    /\ "notify" \in DeliveryCalls /\ post[w].pc = "idle"
    /\ post' = [post EXCEPT ![w] = [AtRest EXCEPT
                    !.pc = IF code \in types THEN "insert" ELSE "create",
                    !.user = u, !.type = code]]
    /\ Unmailed /\ UNCHANGED <<types, notes>>

(* code is unique: of two requests that found none, one fails. *)
CreateType(w) ==
    /\ post[w].pc = "create"
    /\ IF post[w].type \in types
       THEN Rest(w) /\ UNCHANGED types
       ELSE /\ types' = types \cup {post[w].type}
            /\ post' = [post EXCEPT ![w].pc = "insert"]
    /\ Unmailed /\ UNCHANGED notes

InsertNote(w) ==
    /\ post[w].pc = "insert"
    /\ \E n \in Notes :
          /\ notes[n].row = "none"
          /\ notes' = [notes EXCEPT ![n] = [row |-> "stored", user |-> post[w].user,
                                            type |-> post[w].type, readBy |-> {}]]
    /\ Rest(w)
    /\ Unmailed /\ UNCHANGED types

(* markAsRead: findFirst by id and user, then update by id *)
FindNote(w, u, n) ==
    /\ "read" \in DeliveryCalls /\ post[w].pc = "idle"
    /\ notes[n].row = "stored" /\ notes[n].user = u
    /\ post' = [post EXCEPT ![w] = [AtRest EXCEPT !.pc = "update", !.user = u, !.note = n]]
    /\ Unmailed /\ UNCHANGED <<types, notes>>

MarkRead(w) ==
    /\ post[w].pc = "update"
    /\ notes' = [notes EXCEPT ![post[w].note].readBy = @ \cup {post[w].user}]
    /\ Rest(w)
    /\ Unmailed /\ UNCHANGED types

MarkAllRead(u) ==
    /\ "readAll" \in DeliveryCalls
    /\ \E n \in Notes : notes[n].user = u /\ notes[n].readBy = {}
    /\ notes' = [n \in Notes |-> IF notes[n].user = u /\ notes[n].readBy = {}
                                 THEN [notes[n] EXCEPT !.readBy = {u}] ELSE notes[n]]
    /\ Unmailed /\ UNCHANGED <<types, post>>

PostFails(w) ==
    /\ "postFault" \in DeliveryCalls /\ post[w].pc # "idle"
    /\ Rest(w)
    /\ Unmailed /\ UNCHANGED <<types, notes>>

MailNext == \E m \in Mails :
    \/ AddJob(m) \/ AddJobFails(m) \/ Process(m) \/ Deliver(m) \/ Complete(m)
    \/ SendFails(m) \/ WorkerCrash(m)
PostNext ==
    \/ \E w \in Posters : CreateType(w) \/ InsertNote(w) \/ MarkRead(w) \/ PostFails(w)
    \/ \E w \in Posters, u \in Recipients, code \in TypeCodes : FindType(w, u, code)
    \/ \E w \in Posters, u \in Recipients, n \in Notes : FindNote(w, u, n)
    \/ \E u \in Recipients : MarkAllRead(u)
DeliveryNext == MailNext \/ PostNext
DeliverySpec == DeliveryInit /\ [][DeliveryNext]_deliveryVars

-----------------------------------------------------------------------------
(* Properties.                                                             *)

(* Types of the variables. *)
DeliveryTypeOK ==
    /\ mails \in [Mails -> MailRow]
    /\ types \subseteq TypeCodes
    /\ notes \in [Notes -> NoteRow]
    /\ post \in [Posters -> Post]

(* A link mailed twice confuses whoever follows the older one, and one that  *)
(* counts as sent and was not is never sent again: a job that completed was *)
(* delivered, and delivered again only if a worker died with it.           *)
CompletedWasMailed ==
    \A m \in Mails :
        /\ mails[m].job = "completed" => mails[m].delivered > 0
        /\ mails[m].delivered <= 1 + mails[m].stalls

(* Nobody's notification is marked read by another user, and none is stored *)
(* under a type that does not exist.                                       *)
NotesOfOwner ==
    \A n \in Notes : notes[n].row = "stored" =>
        notes[n].readBy \subseteq {notes[n].user} /\ notes[n].type \in types
=============================================================================
