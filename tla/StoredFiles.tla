----------------------------- MODULE StoredFiles -----------------------------
(***************************************************************************)
(* Files and their rows: profile documents, PDFs of finalized drafts and   *)
(* attachments of draft pages.  The bytes are in an object store (S3 or a  *)
(* local directory), the rows in PostgreSQL, and no transaction spans the  *)
(* two.                                                                    *)
(*                                                                         *)
(* A carrier is one request in flight.  A key is a UUID made for one       *)
(* upload.  A request that is refused before it stores anything (size,     *)
(* type, limit, ownership) leaves no trace and has no action.  Nor has      *)
(* signing a URL, which neither provider remembers.                        *)
(***************************************************************************)
EXTENDS FiniteSets

CONSTANTS
    Carriers,    \* requests in flight at the same time
    Files,       \* identifiers of documents and draft_attachments rows
    Keys,        \* keys in the object store
    FileCalls,   \* what clients and the environment do in this instance
    NOTHING      \* null

Kinds == {"document", "finalized", "attachment"}
AllFileCalls == Kinds \cup {"delete", "trashPage", "dropPage", "dropUser",
                            "storeFault", "rowFault", "crash"}

ASSUME FileCallsAssumption == FileCalls \subseteq AllFileCalls
ASSUME NothingAssumption == NOTHING \notin Files \cup Keys \cup Kinds

VARIABLES
    files,    \* the rows: kind and storagePath
    objects,  \* what the store holds under each key
    page,     \* the draft page attachments are put on
    user,     \* the account
    carry,    \* the locals of each request in flight
    blame     \* history: what broke off, and at which key

fileVars == <<files, objects, page, user, carry, blame>>

FileRow == [row : {"unborn", "live", "gone"}, kind : {NOTHING} \cup Kinds,
            key : {NOTHING} \cup Keys]
Cause == {"put", "insert", "cleanup", "crash", "cascade", "unsure", "delete"}

CarryPC == {"idle", "put", "insert", "cleanup", "remove", "drop"}
Carry == [pc : CarryPC, kind : {NOTHING} \cup Kinds, file : {NOTHING} \cup Files,
          key : {NOTHING} \cup Keys]
Empty == [pc |-> "idle", kind |-> NOTHING, file |-> NOTHING, key |-> NOTHING]

AtStep(w, pc) == carry[w].pc = pc
Calls(w, call) == AtStep(w, "idle") /\ call \in FileCalls
Proceed(w, pc) == carry' = [carry EXCEPT ![w].pc = pc]
Done(w) == carry' = [carry EXCEPT ![w] = Empty]
Blames(k, cause) == blame' = blame \cup {<<k, cause>>}

FilesInit ==
    /\ files = [f \in Files |-> [row |-> "unborn", kind |-> NOTHING, key |-> NOTHING]]
    /\ objects = [k \in Keys |-> "absent"]
    /\ page = "live" /\ user = "live"
    /\ carry = [w \in Carriers |-> Empty]
    /\ blame = {}

-----------------------------------------------------------------------------
(* Uploads: DocumentsService.upload, DraftExportService.finalize and        *)
(* DraftAttachmentsService.upload store the object first, then the row.     *)

Unused(k) == objects[k] = "absent" /\ \A w \in Carriers : carry[w].key # k
RowsLeft == \E f \in Files : files[f].row = "unborn"

BeginUpload(w, kind) ==
    /\ Calls(w, kind) /\ user = "live" /\ RowsLeft
    /\ kind \in {"finalized", "attachment"} => page = "live"
    /\ \E k \in Keys :
          /\ Unused(k)
          /\ carry' = [carry EXCEPT ![w] = [Empty EXCEPT !.pc = "put", !.kind = kind,
                                                         !.key = k]]
    /\ UNCHANGED <<files, objects, page, user, blame>>

PutObject(w) ==
    /\ AtStep(w, "put")
    /\ objects' = [objects EXCEPT ![carry[w].key] = "stored"]
    /\ Proceed(w, "insert")
    /\ UNCHANGED <<files, page, user, blame>>

(* The store fails, before it kept the object or after.                    *)
PutFails(w) ==
    /\ "storeFault" \in FileCalls /\ AtStep(w, "put")
    /\ \/ objects' = [objects EXCEPT ![carry[w].key] = "stored"]
       \/ objects' = [objects EXCEPT ![carry[w].key] = "deleted"]
    /\ Blames(carry[w].key, "put")
    /\ Done(w)
    /\ UNCHANGED <<files, page, user>>

(* Foreign keys: documents on the profile, attachments on the page *)
OwnerStored(kind) == user = "live" /\ (kind = "attachment" => page # "gone")

WithRow(w) ==
    \E f \in Files :
        /\ files[f].row = "unborn"
        /\ files' = [files EXCEPT ![f] = [row |-> "live", kind |-> carry[w].kind,
                                          key |-> carry[w].key]]

InsertRow(w) ==
    /\ AtStep(w, "insert") /\ OwnerStored(carry[w].kind) /\ RowsLeft
    /\ WithRow(w)
    /\ Done(w)
    /\ UNCHANGED <<objects, page, user, blame>>

(* Mutant: upload of a document forgets to clean up. *)
AfterFailedInsertBare(w) == UNCHANGED blame /\ Done(w)

(* Only upload of a document cleans up. *)
AfterFailedInsert(w) ==
    IF carry[w].kind = "document" THEN Proceed(w, "cleanup") /\ UNCHANGED blame
    ELSE Blames(carry[w].key, "insert") /\ Done(w)

(* The insert fails, or its answer is lost after the commit (InsertUnsure). *)
InsertFails(w) ==
    /\ AtStep(w, "insert")
    /\ "rowFault" \in FileCalls \/ ~OwnerStored(carry[w].kind) \/ ~RowsLeft
    /\ AfterFailedInsert(w)
    /\ UNCHANGED <<files, objects, page, user>>

InsertUnsure(w) ==
    /\ "rowFault" \in FileCalls /\ AtStep(w, "insert")
    /\ OwnerStored(carry[w].kind) /\ RowsLeft
    /\ WithRow(w)
    /\ Blames(carry[w].key, "unsure")
    /\ IF carry[w].kind = "document" THEN Proceed(w, "cleanup") ELSE Done(w)
    /\ UNCHANGED <<objects, page, user>>

(* storageService.delete(key).catch(log): the original error is thrown.    *)
CleanUp(w) ==
    /\ AtStep(w, "cleanup")
    /\ \/ objects' = [objects EXCEPT ![carry[w].key] = "deleted"] /\ UNCHANGED blame
       \/ "storeFault" \in FileCalls /\ Blames(carry[w].key, "cleanup") /\ UNCHANGED objects
    /\ Done(w)
    /\ UNCHANGED <<files, page, user>>

-----------------------------------------------------------------------------
(* Deletes: the object first, then the row, by id.                         *)

BeginDelete(w, f) ==
    /\ Calls(w, "delete") /\ files[f].row = "live"
    /\ carry' = [carry EXCEPT ![w] = [pc |-> "remove", kind |-> files[f].kind,
                                      file |-> f, key |-> files[f].key]]
    /\ UNCHANGED <<files, objects, page, user, blame>>

(* Deleting what is not there succeeds, in S3 and locally (existsSync).     *)
RemoveObject(w) ==
    /\ AtStep(w, "remove")
    /\ objects' = [objects EXCEPT ![carry[w].key] = "deleted"]
    /\ Proceed(w, "drop")
    /\ UNCHANGED <<files, page, user, blame>>

RemoveFails(w) ==
    /\ "storeFault" \in FileCalls /\ AtStep(w, "remove")
    /\ \/ objects' = [objects EXCEPT ![carry[w].key] = "deleted"]
             /\ Blames(carry[w].key, "delete")
       \/ UNCHANGED <<objects, blame>>
    /\ Done(w)
    /\ UNCHANGED <<files, page, user>>

DropRow(w) ==
    /\ AtStep(w, "drop")
    /\ files' = [files EXCEPT ![carry[w].file].row = "gone"]       \* or P2025
    /\ Done(w)
    /\ UNCHANGED <<objects, page, user, blame>>

DropFails(w) ==
    /\ "rowFault" \in FileCalls /\ AtStep(w, "drop")
    /\ Blames(carry[w].key, "delete")
    /\ Done(w)
    /\ UNCHANGED <<files, objects, page, user>>

-----------------------------------------------------------------------------
(* Rows go with the page (deleting a space) or the account; objects stay.   *)

Orphaned(keys) == blame' = blame \cup {<<k, "cascade">> : k \in keys}

TrashDraft ==
    /\ "trashPage" \in FileCalls /\ page = "live"
    /\ page' = "trashed"
    /\ UNCHANGED <<files, objects, user, carry, blame>>

Cascade(gone) ==
    /\ files' = [f \in Files |-> IF f \in gone THEN [files[f] EXCEPT !.row = "gone"]
                                 ELSE files[f]]
    /\ Orphaned({files[f].key : f \in gone})
    /\ UNCHANGED <<objects, carry>>

LiveOf(kinds) == {f \in Files : files[f].row = "live" /\ files[f].kind \in kinds}

DropPage ==
    /\ "dropPage" \in FileCalls /\ page # "gone"
    /\ page' = "gone"
    /\ Cascade(LiveOf({"attachment"}))
    /\ UNCHANGED user

DropUser ==
    /\ "dropUser" \in FileCalls /\ user = "live"
    /\ user' = "gone" /\ page' = "gone"
    /\ Cascade(LiveOf(Kinds))

(* The process dies: the request ends where it is. *)
Crash(w) ==
    /\ "crash" \in FileCalls /\ ~AtStep(w, "idle")
    /\ IF AtStep(w, "put")
       THEN objects' \in {[objects EXCEPT ![carry[w].key] = o] : o \in {"stored", "deleted"}}
       ELSE UNCHANGED objects
    /\ Blames(carry[w].key, "crash")
    /\ Done(w)
    /\ UNCHANGED <<files, page, user>>

CarrierStep(w) ==
    \/ \E kind \in Kinds : BeginUpload(w, kind)
    \/ PutObject(w) \/ PutFails(w)
    \/ InsertRow(w) \/ InsertFails(w) \/ InsertUnsure(w) \/ CleanUp(w)
    \/ \E f \in Files : BeginDelete(w, f)
    \/ RemoveObject(w) \/ RemoveFails(w) \/ DropRow(w) \/ DropFails(w)
    \/ Crash(w)

FilesNext ==
    \/ \E w \in Carriers : CarrierStep(w)
    \/ TrashDraft \/ DropPage \/ DropUser

FilesSpec == FilesInit /\ [][FilesNext]_fileVars

-----------------------------------------------------------------------------
(* Properties.                                                             *)

(* Types of the variables. *)
FilesTypeOK ==
    /\ files \in [Files -> FileRow]
    /\ objects \in [Keys -> {"absent", "stored", "deleted"}]
    /\ page \in {"live", "trashed", "gone"} /\ user \in {"live", "gone"}
    /\ carry \in [Carriers -> Carry]
    /\ blame \subseteq Keys \X Cause

Blamed(k, causes) == \E c \in causes : <<k, c>> \in blame
Busy(k, pcs) == \E w \in Carriers : carry[w].key = k /\ carry[w].pc \in pcs

(* The storage lifecycle contract, one way: the file of every listed row is *)
(* in the store, unless a delete of it is under way or broke off between    *)
(* the object and the row, or its upload was told an insert failed that had *)
(* been committed.                                                         *)
ListedHasObject ==
    \A f \in Files : files[f].row = "live" /\ objects[files[f].key] # "stored" =>
        \/ Busy(files[f].key, {"drop"})
        \/ Blamed(files[f].key, {"delete", "crash", "unsure"})

(* The other way: an object no row names is held by an upload or a delete   *)
(* in flight, or was left by a failure of the store, a crash, a cascade, or *)
(* a failed insert of finalize or of an attachment, which do not clean up.  *)
OrphanHasCause ==
    \A k \in Keys : objects[k] = "stored" =>
        \/ \E f \in Files : files[f].key = k /\ files[f].row = "live"
        \/ Busy(k, {"insert", "cleanup", "remove", "drop"})
        \/ Blamed(k, {"put", "cleanup", "crash", "cascade", "insert"})

(* A row has its file and a file its row, or something broke off between     *)
(* the two: the store and the database are written one after the other.     *)
FilesMatchRows == ListedHasObject /\ OrphanHasCause
=============================================================================
