---------------------------- MODULE ServicesProofs ----------------------------
(***************************************************************************)
(* Proofs about the services beside the core: mail and notifications, the   *)
(* chat, the seed and the loader, the cache of the matches and the pages of *)
(* a list.  They share no state, so each has its own inductive invariant:   *)
(* DeliveryInv, ChatInv with NamesMade, SeedInv, LoadTypes with LoadedInv   *)
(* and CauseInv, MatchInv and ListInv.                                      *)
(***************************************************************************)
EXTENDS Services, FiniteSetTheorems, SequenceTheorems, TLAPS

-----------------------------------------------------------------------------
(* Mail and notifications.                                                 *)

(* Where a mail stands: as long as its job is to be started, or is started   *)
(* and has not handed the mail over, each delivery so far was followed by  *)
(* the death of a worker.                                                  *)
MailFacts(r) ==
    /\ r.told = "nothing" => r.job = "none"
    /\ r.job = "none" => r.delivered = 0
    /\ (r.job = "waiting" \/ (r.job = "active" /\ ~r.handed)) => r.delivered <= r.stalls
    /\ ((r.job = "active" /\ r.handed) \/ r.job = "completed") => r.delivered > 0
    /\ r.delivered <= 1 + r.stalls

(* What a request found stays there: types and notifications are not removed.*)
PostFacts(r) ==
    /\ r.pc \in {"create", "insert"} => r.user \in Recipients /\ r.type \in TypeCodes
    /\ r.pc = "insert" => r.type \in types
    /\ r.pc = "update" =>
          /\ r.user \in Recipients /\ r.note \in Notes
          /\ notes[r.note].row = "stored" /\ notes[r.note].user = r.user

DeliveryInv ==
    /\ DeliveryTypeOK
    /\ \A m \in Mails : MailFacts(mails[m])
    /\ \A w \in Posters : PostFacts(post[w])
    /\ NotesOfOwner

LEMMA MailStep ==
  ASSUME DeliveryInv, MailNext
  PROVE  DeliveryInv'
<1> USE DEF DeliveryInv, DeliveryTypeOK
<1>1. PICK m \in Mails : \/ AddJob(m) \/ AddJobFails(m) \/ Process(m) \/ Deliver(m)
                         \/ Complete(m) \/ SendFails(m) \/ WorkerCrash(m)
  BY DEF MailNext
<1>2. Unposted
  BY <1>1 DEF AddJob, AddJobFails, Process, Deliver, Complete, SendFails, WorkerCrash
<1>3. ASSUME NEW r \in MailRow, MailFacts(r), mails' = [mails EXCEPT ![m] = r]
      PROVE  DeliveryInv'
  <2>1. \A k \in Mails : mails'[k] = IF k = m THEN r ELSE mails[k]
    BY <1>3
  <2>2. mails' \in [Mails -> MailRow] /\ \A k \in Mails : MailFacts(mails'[k])
    BY <1>3, <2>1
  <2>3. QED
    BY <1>2, <2>2 DEF Unposted, PostFacts, NotesOfOwner
<1>4. mails[m] \in MailRow /\ MailFacts(mails[m])
  OBVIOUS
<1>5. CASE AddJob(m)
  <2> DEFINE r == [mails[m] EXCEPT !.job = "waiting", !.told = "queued"]
  <2>1. r \in MailRow /\ MailFacts(r)
    BY <1>4, <1>5 DEF AddJob, MailRow, MailFacts
  <2>2. mails' = [mails EXCEPT ![m] = r]
    BY <1>5 DEF AddJob
  <2>3. QED
    BY <1>3, <2>1, <2>2
<1>6. CASE AddJobFails(m)
  <2>1. PICK job \in {"none", "waiting"} :
           mails' = [mails EXCEPT ![m].job = job, ![m].told = "error"]
    BY <1>6 DEF AddJobFails
  <2> DEFINE r == [mails[m] EXCEPT !.job = job, !.told = "error"]
  <2>2. r \in MailRow /\ MailFacts(r)
    BY <1>4, <1>6 DEF AddJobFails, MailRow, MailFacts
  <2>3. mails' = [mails EXCEPT ![m] = r]
    BY <2>1
  <2>4. QED
    BY <1>3, <2>2, <2>3
<1>7. CASE Process(m)
  <2> DEFINE r == [mails[m] EXCEPT !.job = "active", !.handed = FALSE]
  <2>1. r \in MailRow /\ MailFacts(r)
    BY <1>4, <1>7 DEF Process, MailRow, MailFacts
  <2>2. mails' = [mails EXCEPT ![m] = r]
    BY <1>7 DEF Process
  <2>3. QED
    BY <1>3, <2>1, <2>2
<1>8. CASE Deliver(m)
  <2> DEFINE r == [mails[m] EXCEPT !.handed = TRUE, !.delivered = @ + 1]
  <2>1. r \in MailRow /\ MailFacts(r)
    BY <1>4, <1>8 DEF Deliver, MailRow, MailFacts
  <2>2. mails' = [mails EXCEPT ![m] = r]
    BY <1>8 DEF Deliver
  <2>3. QED
    BY <1>3, <2>1, <2>2
<1>9. CASE Complete(m) \/ SendFails(m)
  <2>1. PICK job \in {"completed", "failed"} :
           /\ job = "completed" => mails[m].handed
           /\ mails[m].job = "active"
           /\ mails' = [mails EXCEPT ![m].job = job]
    BY <1>9 DEF Complete, SendFails
  <2> DEFINE r == [mails[m] EXCEPT !.job = job]
  <2>2. r \in MailRow /\ MailFacts(r)
    BY <1>4, <2>1 DEF MailRow, MailFacts
  <2>3. mails' = [mails EXCEPT ![m] = r]
    BY <2>1
  <2>4. QED
    BY <1>3, <2>2, <2>3
<1>10. CASE WorkerCrash(m)
  <2>1. PICK job \in {"waiting", "failed"} :
           mails' = [mails EXCEPT ![m].stalls = @ + 1, ![m].job = job]
    BY <1>10 DEF WorkerCrash
  <2> DEFINE r == [mails[m] EXCEPT !.stalls = @ + 1, !.job = job]
  <2>2. r \in MailRow /\ MailFacts(r)
    BY <1>4, <1>10 DEF WorkerCrash, MailRow, MailFacts
  <2>3. mails' = [mails EXCEPT ![m] = r]
    BY <2>1
  <2>4. QED
    BY <1>3, <2>2, <2>3
<1>11. QED
  BY <1>1, <1>5, <1>6, <1>7, <1>8, <1>9, <1>10

(* A request for notifications: what it leaves to the others.               *)
NoticesKept ==
    /\ types \subseteq types'
    /\ \A n \in Notes : notes[n].row = "stored" =>
          notes'[n].row = "stored" /\ notes'[n].user = notes[n].user

LEMMA PostStep ==
  ASSUME DeliveryInv, PostNext
  PROVE  DeliveryInv'
<1> USE DEF DeliveryInv, DeliveryTypeOK
<1>1. mails' = mails
  BY DEF PostNext, CreateType, InsertNote, MarkRead, PostFails, FindType, FindNote, MarkAllRead,
     Unmailed
<1>2. AtRest \in Post /\ \A k : PostFacts(AtRest)
  BY DEF AtRest, Post, PostFacts
<1>3. ASSUME NEW w \in Posters, NEW r \in Post, post' = [post EXCEPT ![w] = r],
             PostFacts(r)', NoticesKept, types' \subseteq TypeCodes,
             notes' \in [Notes -> NoteRow], NotesOfOwner'
      PROVE  DeliveryInv'
  <2>1. \A v \in Posters : post'[v] = IF v = w THEN r ELSE post[v]
    BY <1>3
  <2>2. post' \in [Posters -> Post]
    BY <1>3
  <2>3. \A v \in Posters : PostFacts(post[v])'
    BY <1>3, <2>1 DEF PostFacts, NoticesKept
  <2>4. QED
    BY <1>1, <1>3, <2>2, <2>3 DEF MailFacts
<1>4. ASSUME NEW w \in Posters, CreateType(w)
      PROVE  DeliveryInv'
  <2>1. post[w] \in Post /\ PostFacts(post[w]) /\ post[w].pc = "create" /\ notes' = notes
    BY <1>4 DEF CreateType
  <2>2. CASE Rest(w) /\ UNCHANGED types
    BY <1>2, <1>3, <2>1, <2>2 DEF Rest, NoticesKept, NotesOfOwner, PostFacts, AtRest
  <2>3. CASE types' = types \cup {post[w].type} /\ post' = [post EXCEPT ![w].pc = "insert"]
    <3> DEFINE r == [post[w] EXCEPT !.pc = "insert"]
    <3>1. r \in Post /\ post' = [post EXCEPT ![w] = r]
      BY <2>1, <2>3 DEF Post
    <3>2. /\ r.pc = "insert" /\ r.user = post[w].user /\ r.type = post[w].type
          /\ r.note = post[w].note
      BY <2>1 DEF Post
    <3>3. PostFacts(r)'
      BY <2>1, <2>3, <3>1, <3>2 DEF PostFacts
    <3>4. NoticesKept /\ types' \subseteq TypeCodes /\ NotesOfOwner'
      BY <2>1, <2>3 DEF NoticesKept, NotesOfOwner, PostFacts
    <3>5. QED
      BY <1>3, <2>1, <3>1, <3>3, <3>4
  <2>4. QED
    BY <1>4, <2>2, <2>3 DEF CreateType
<1>5. ASSUME NEW w \in Posters, InsertNote(w)
      PROVE  DeliveryInv'
  <2>1. PICK n \in Notes :
           /\ notes[n].row = "none"
           /\ notes' = [notes EXCEPT ![n] = [row |-> "stored", user |-> post[w].user,
                                             type |-> post[w].type, readBy |-> {}]]
    BY <1>5 DEF InsertNote
  <2>2. /\ post[w] \in Post /\ PostFacts(post[w]) /\ post[w].pc = "insert"
        /\ types' = types /\ Rest(w)
    BY <1>5 DEF InsertNote
  <2> DEFINE row == [row |-> "stored", user |-> post[w].user, type |-> post[w].type, readBy |-> {}]
  <2>3. row \in NoteRow
    BY <2>2 DEF NoteRow, Post
  <2>4. \A k \in Notes : notes'[k] = IF k = n THEN row ELSE notes[k]
    BY <2>1
  <2>5. notes' \in [Notes -> NoteRow] /\ NoticesKept
    BY <2>1, <2>2, <2>3, <2>4 DEF NoticesKept
  <2>6. NotesOfOwner'
    BY <2>2, <2>4 DEF NotesOfOwner, PostFacts
  <2>7. QED
    BY <1>2, <1>3, <2>2, <2>5, <2>6 DEF Rest, PostFacts, AtRest
<1>6. ASSUME NEW w \in Posters, MarkRead(w)
      PROVE  DeliveryInv'
  <2>1. /\ post[w] \in Post /\ PostFacts(post[w]) /\ post[w].pc = "update"
        /\ types' = types /\ Rest(w)
        /\ notes' = [notes EXCEPT ![post[w].note].readBy = @ \cup {post[w].user}]
    BY <1>6 DEF MarkRead
  <2> DEFINE n == post[w].note
             row == [notes[n] EXCEPT !.readBy = @ \cup {post[w].user}]
  <2>2. n \in Notes /\ notes[n].row = "stored" /\ notes[n].user = post[w].user
    BY <2>1 DEF PostFacts
  <2>3. /\ row \in NoteRow /\ row.row = "stored" /\ row.user = notes[n].user
        /\ row.type = notes[n].type
        /\ row.readBy = notes[n].readBy \cup {notes[n].user}
    <3>1. notes[n] \in NoteRow
      BY <2>2
    <3>2. post[w].user \in Recipients
      BY <2>1 DEF PostFacts
    <3>3. QED
      BY <2>2, <3>1, <3>2 DEF NoteRow
  <2>4. \A k \in Notes : notes'[k] = IF k = n THEN row ELSE notes[k]
    BY <2>1
  <2>5. notes' \in [Notes -> NoteRow] /\ NoticesKept
    BY <2>1, <2>2, <2>3, <2>4 DEF NoticesKept
  <2>6. NotesOfOwner'
    BY <2>1, <2>2, <2>3, <2>4 DEF NotesOfOwner
  <2>7. QED
    BY <1>2, <1>3, <2>1, <2>5, <2>6 DEF Rest, PostFacts, AtRest
<1>7. ASSUME NEW w \in Posters, PostFails(w)
      PROVE  DeliveryInv'
  BY <1>2, <1>3, <1>7 DEF PostFails, Rest, NoticesKept, NotesOfOwner, PostFacts, AtRest
<1>8. ASSUME NEW w \in Posters, NEW u \in Recipients, NEW code \in TypeCodes, FindType(w, u, code)
      PROVE  DeliveryInv'
  <2> DEFINE r == [AtRest EXCEPT !.pc = IF code \in types THEN "insert" ELSE "create",
                                  !.user = u, !.type = code]
  <2>1. r.pc = (IF code \in types THEN "insert" ELSE "create") /\ r.user = u /\ r.type = code
    BY DEF AtRest
  <2>2. post' = [post EXCEPT ![w] = r] /\ types' = types /\ notes' = notes
    BY <1>8 DEF FindType
  <2>3. r \in Post
    BY DEF Post, AtRest
  <2>4. PostFacts(r)'
    BY <2>1, <2>2 DEF PostFacts
  <2>5. QED
    BY <1>3, <2>2, <2>3, <2>4 DEF NoticesKept, NotesOfOwner
<1>9. ASSUME NEW w \in Posters, NEW u \in Recipients, NEW n \in Notes, FindNote(w, u, n)
      PROVE  DeliveryInv'
  <2> DEFINE r == [AtRest EXCEPT !.pc = "update", !.user = u, !.note = n]
  <2>1. r.pc = "update" /\ r.user = u /\ r.note = n
    BY DEF AtRest
  <2>2. post' = [post EXCEPT ![w] = r] /\ types' = types /\ notes' = notes
    BY <1>9 DEF FindNote
  <2>3. r \in Post
    BY DEF Post, AtRest
  <2>4. PostFacts(r)'
    BY <1>9, <2>1, <2>2 DEF PostFacts, FindNote
  <2>5. QED
    BY <1>3, <2>2, <2>3, <2>4 DEF NoticesKept, NotesOfOwner
<1>10. ASSUME NEW u \in Recipients, MarkAllRead(u)
       PROVE  DeliveryInv'
  <2>1. /\ types' = types /\ post' = post
        /\ notes' = [n \in Notes |-> IF notes[n].user = u /\ notes[n].readBy = {}
                                     THEN [notes[n] EXCEPT !.readBy = {u}] ELSE notes[n]]
    BY <1>10 DEF MarkAllRead
  <2>2. \A n \in Notes : /\ notes'[n] \in NoteRow /\ notes'[n].row = notes[n].row
                         /\ notes'[n].user = notes[n].user /\ notes'[n].type = notes[n].type
                         /\ notes'[n].readBy \subseteq notes[n].readBy \cup {notes[n].user}
    <3> TAKE n \in Notes
    <3>1. notes[n] \in NoteRow
      OBVIOUS
    <3>2. CASE notes[n].user = u /\ notes[n].readBy = {}
      <4>1. notes'[n] = [notes[n] EXCEPT !.readBy = {u}]
        BY <2>1, <3>2
      <4>2. QED
        BY <3>1, <3>2, <4>1 DEF NoteRow
    <3>3. CASE ~(notes[n].user = u /\ notes[n].readBy = {})
      <4>1. notes'[n] = notes[n]
        BY <2>1, <3>3
      <4>2. QED
        BY <3>1, <4>1
    <3>4. QED
      BY <3>2, <3>3
  <2>3. notes' \in [Notes -> NoteRow]
    BY <2>1, <2>2
  <2>4. \A w \in Posters : PostFacts(post[w])'
    BY <2>1, <2>2 DEF PostFacts
  <2>5. NotesOfOwner'
    BY <2>1, <2>2 DEF NotesOfOwner
  <2>6. QED
    BY <1>1, <2>1, <2>3, <2>4, <2>5 DEF MailFacts
<1>11. QED
  BY <1>4, <1>5, <1>6, <1>7, <1>8, <1>9, <1>10 DEF PostNext

(* Mail and notifications keep their invariant.                            *)
THEOREM DeliverySafe == DeliverySpec => []DeliveryInv
<1>1. DeliveryInit => DeliveryInv
  BY DEF DeliveryInit, DeliveryInv, DeliveryTypeOK, MailRow, NoteRow, Post, AtRest, MailFacts,
     PostFacts, NotesOfOwner
<1>2. DeliveryInv /\ [DeliveryNext]_deliveryVars => DeliveryInv'
  <2> SUFFICES ASSUME DeliveryInv, [DeliveryNext]_deliveryVars
               PROVE  DeliveryInv'
    OBVIOUS
  <2>1. CASE UNCHANGED deliveryVars
    BY <2>1 DEF deliveryVars, DeliveryInv, DeliveryTypeOK, MailFacts, PostFacts, NotesOfOwner
  <2>2. QED
    BY <2>1, MailStep, PostStep DEF DeliveryNext
<1>3. QED
  BY <1>1, <1>2, PTL DEF DeliverySpec

(* A job that counts as completed was handed to the server, and a mail goes  *)
(* out once more than it should only for each worker that died with it.    *)
THEOREM MailDelivered == DeliverySpec => []CompletedWasMailed
<1>1. DeliveryInv => CompletedWasMailed
  BY DEF DeliveryInv, MailFacts, CompletedWasMailed
<1>2. QED
  BY <1>1, DeliverySafe, PTL

-----------------------------------------------------------------------------
(* The chat.                                                               *)

MessageRow == [role : {"user", "assistant"}, answers : Nat, sources : SUBSET Proposals,
               at : Nat]
BrokenTurnRow == [conversation : Conversations, place : Nat, made : SUBSET Proposals]

ChatRowsOK ==
    /\ owners \in [Conversations -> {NOBODY} \cup Candidates]
    /\ threads \in [Conversations -> Seq(MessageRow)]
    /\ staged \subseteq Proposals
    /\ jobs \subseteq [conversation : Conversations, place : Nat]
    /\ cutOff \subseteq BrokenTurnRow /\ unsure \subseteq staged
ChatTypes ==
    /\ ChatRowsOK /\ now \in Nat
    /\ memory \subseteq [conversation : Conversations, place : Nat, user : Candidates]
    /\ talk \in [Talkers -> Talk]

EarlyPC == {"idle", "open", "history", "recall", "question"}
LatePC == {"provider", "tool", "reply", "touch"}

(* How far a turn is by its pc: whose it is, that its question is stored,    *)
(* what its tool calls proposed, that its reply is stored.                 *)
TurnFacts(t) ==
    /\ t.pc # "idle" => t.user \in Candidates
    /\ t.pc \in {"idle", "open"} => t.conversation = NOBODY
    /\ t.pc \notin {"idle", "open"} => t.conversation \in Conversations
    /\ t.conversation # NOBODY => owners[t.conversation] = t.user
    /\ t.pc \in EarlyPC => t.place = 0 /\ t.sources = {}
    /\ t.pc \in LatePC => t.place \in DOMAIN threads[t.conversation]
    /\ t.pc = "tool" => t.calls > 0
    /\ \A p \in t.sources : p.conversation = t.conversation
    /\ t.pc = "touch" =>
          /\ t.answered \in DOMAIN threads[t.conversation] /\ t.answered > t.place
          /\ threads[t.conversation][t.answered] = Reply(t.place, t.sources, t.at)

(* A turn handed to indexTurn is over.                                     *)
JobFacts(t) ==
    /\ t.place \in DOMAIN threads[t.conversation]
    /\ threads[t.conversation][t.place].role = "user" => Answered(t.conversation, t.place)
    /\ owners[t.conversation] \in Candidates

ChatInv ==
    /\ ChatTypes
    /\ \A w \in Talkers : TurnFacts(talk[w])
    /\ \A t \in jobs : JobFacts(t)
    /\ TenantIsolation
    /\ BrokenTurnHasCause
    /\ MemoryOfAnsweredTurns

-----------------------------------------------------------------------------
(* What no step undoes: a conversation keeps its owner and its messages.    *)
ThreadsGrow ==
    /\ \A c \in Conversations : owners[c] # NOBODY => owners'[c] = owners[c]
    /\ \A c \in Conversations :
          /\ DOMAIN threads[c] \subseteq DOMAIN threads'[c]
          /\ \A i \in DOMAIN threads[c] : threads'[c][i] = threads[c][i]

LEMMA AnsweredStays ==
  ASSUME ThreadsGrow, NEW c \in Conversations, NEW i, Answered(c, i)
  PROVE  Answered(c, i)'
  BY DEF ThreadsGrow, Answered

LEMMA TurnFactsStay ==
  ASSUME ChatTypes, ThreadsGrow, NEW t \in Talk, TurnFacts(t)
  PROVE  TurnFacts(t)'
<1>1. t.conversation # NOBODY => owners'[t.conversation] = t.user
  BY NobodyAssumption DEF TurnFacts, ThreadsGrow
<1>2. QED
  BY <1>1 DEF TurnFacts, ThreadsGrow, LatePC

(* Nothing of a turn is lost: it goes on with its question and its           *)
(* proposals, had none yet, has its reply, or its end is recorded.         *)
Accounted(w) ==
    \/ /\ talk'[w].conversation = talk[w].conversation
       /\ talk'[w].place = talk[w].place /\ talk[w].sources \subseteq talk'[w].sources
    \/ talk[w].pc \in EarlyPC \cup {"touch"}
    \/ \E t \in cutOff' : /\ t.conversation = talk[w].conversation /\ t.place = talk[w].place
                          /\ t.made = talk[w].sources

NewMessages ==
    \A c \in Conversations : \A i \in DOMAIN threads'[c] \ DOMAIN threads[c] :
        threads'[c][i].role = "user" =>
            \/ \E w \in Talkers : talk'[w].conversation = c /\ talk'[w].place = i
            \/ \E t \in cutOff' : t.conversation = c /\ t.place = i
NewProposals ==
    \A p \in staged' \ staged : p \in unsure' \/ \E w \in Talkers : p \in talk'[w].sources

LEMMA TouchAnswers ==
  ASSUME ChatInv, ThreadsGrow, NEW w \in Talkers, talk[w].pc = "touch",
         NEW c, NEW i, c = talk[w].conversation, i = talk[w].place
  PROVE  /\ Answered(c, i)'
         /\ \A p \in talk[w].sources :
               \E j \in DOMAIN threads'[p.conversation] : p \in threads'[p.conversation][j].sources
<1> DEFINE j == talk[w].answered
<1>1. /\ c \in Conversations /\ j \in DOMAIN threads[c] /\ j > i
      /\ threads[c][j] = Reply(i, talk[w].sources, talk[w].at)
      /\ \A p \in talk[w].sources : p.conversation = c
  BY DEF ChatInv, TurnFacts
<1>2. j \in DOMAIN threads'[c] /\ threads'[c][j] = threads[c][j]
  BY <1>1 DEF ThreadsGrow
<1>3. threads'[c][j].answers = i /\ threads'[c][j].sources = talk[w].sources
  BY <1>1, <1>2 DEF Reply
<1>4. QED
  BY <1>1, <1>2, <1>3 DEF Answered

LEMMA NoLooseEnds ==
  ASSUME ChatInv, ThreadsGrow, ChatRowsOK', cutOff \subseteq cutOff',
         unsure \subseteq unsure', NewMessages, NewProposals, \A w \in Talkers : Accounted(w)
  PROVE  BrokenTurnHasCause'
<1>1. ASSUME NEW c \in Conversations, NEW i \in DOMAIN threads'[c],
             threads'[c][i].role = "user", ~Answered(c, i)'
      PROVE  InFlight(c, i)' \/ \E t \in cutOff' : t.conversation = c /\ t.place = i
  <2>1. CASE i \notin DOMAIN threads[c]
    BY <1>1, <2>1 DEF NewMessages, InFlight
  <2>2. CASE i \in DOMAIN threads[c]
    <3>1. threads[c][i].role = "user" /\ ~Answered(c, i)
      BY <1>1, <2>2, AnsweredStays DEF ThreadsGrow
    <3>2. CASE \E t \in cutOff : t.conversation = c /\ t.place = i
      BY <3>2
    <3>3. ASSUME NEW w \in Talkers, talk[w].conversation = c, talk[w].place = i
          PROVE  InFlight(c, i)' \/ \E t \in cutOff' : t.conversation = c /\ t.place = i
      <4>1. talk[w].pc \notin EarlyPC
        <5>1. i # 0
          BY <2>2 DEF ChatInv, ChatTypes, ChatRowsOK
        <5>2. QED
          BY <3>3, <5>1 DEF ChatInv, TurnFacts
      <4>2. talk[w].pc # "touch"
        BY <1>1, <3>3, TouchAnswers
      <4>3. QED
        BY <3>3, <4>1, <4>2 DEF Accounted, InFlight
    <3>4. QED
      BY <2>2, <3>1, <3>2, <3>3 DEF ChatInv, BrokenTurnHasCause, InFlight
  <2>3. QED
    BY <2>1, <2>2
<1>2. ASSUME NEW p \in staged'
      PROVE  \/ \E j \in DOMAIN threads'[p.conversation] :
                   p \in threads'[p.conversation][j].sources
             \/ \E w \in Talkers : p \in talk'[w].sources
             \/ \E t \in cutOff' : p \in t.made
             \/ p \in unsure'
  <2>1. CASE p \notin staged
    BY <2>1 DEF NewProposals
  <2>2. ASSUME p \in staged, NEW w \in Talkers, p \in talk[w].sources
        PROVE  \/ \E j \in DOMAIN threads'[p.conversation] :
                     p \in threads'[p.conversation][j].sources
               \/ p \in talk'[w].sources
               \/ \E t \in cutOff' : p \in t.made
    <3>1. talk[w].pc \notin EarlyPC
      BY <2>2 DEF ChatInv, TurnFacts
    <3>2. CASE talk[w].pc = "touch"
      BY <2>2, <3>2, TouchAnswers
    <3>3. CASE talk[w].pc # "touch"
      BY <2>2, <3>1, <3>3 DEF Accounted
    <3>4. QED
      BY <3>2, <3>3
  <2>3. ASSUME p \in staged, NEW j \in DOMAIN threads[p.conversation],
               p \in threads[p.conversation][j].sources
        PROVE  \E k \in DOMAIN threads'[p.conversation] : p \in threads'[p.conversation][k].sources
    <3>1. p.conversation \in Conversations
      BY <2>3 DEF ChatInv, ChatTypes, ChatRowsOK, Proposals
    <3>2. QED
      BY <2>3, <3>1 DEF ThreadsGrow
  <2>4. ASSUME p \in staged, NEW t \in cutOff, p \in t.made
        PROVE  \E k \in cutOff' : p \in k.made
    BY <2>4
  <2>5. QED
    BY <2>1, <2>2, <2>3, <2>4 DEF ChatInv, BrokenTurnHasCause
<1>3. QED
  BY <1>1, <1>2 DEF BrokenTurnHasCause

(* What is searchable stays what it was.                                   *)
LEMMA MemoryStays ==
  ASSUME ChatInv, ThreadsGrow
  PROVE  \A e \in memory :
            /\ e.user = owners'[e.conversation]
            /\ e.place \in DOMAIN threads'[e.conversation]
            /\ threads'[e.conversation][e.place].role = "user" =>
                  Answered(e.conversation, e.place)'
<1> TAKE e \in memory
<1>1. /\ e.conversation \in Conversations /\ e.user \in Candidates
      /\ e.user = owners[e.conversation]
      /\ e.place \in DOMAIN threads[e.conversation]
      /\ threads[e.conversation][e.place].role = "user" => Answered(e.conversation, e.place)
  BY DEF ChatInv, ChatTypes, TenantIsolation, MemoryOfAnsweredTurns
<1>2. QED
  BY <1>1, AnsweredStays, NobodyAssumption DEF ThreadsGrow

LEMMA JobFactsStay ==
  ASSUME ChatInv, ThreadsGrow
  PROVE  \A t \in jobs : JobFacts(t)'
<1> TAKE t \in jobs
<1>1. t.conversation \in Conversations /\ JobFacts(t)
  BY DEF ChatInv, ChatTypes, ChatRowsOK
<1>2. QED
  BY <1>1, AnsweredStays, NobodyAssumption DEF ThreadsGrow, JobFacts

(* One turn goes on, the others wait.                                      *)
LEMMA TurnGoesOn ==
  ASSUME ChatInv, NEW w \in Talkers, NEW r \in Talk, talk' = [talk EXCEPT ![w] = r],
         TurnFacts(r)', ThreadsGrow, ChatRowsOK', memory' = memory, now' \in Nat,
         \A p \in staged' : p.user = owners'[p.conversation],
         \A t \in jobs' : JobFacts(t)',
         cutOff \subseteq cutOff', unsure \subseteq unsure', Accounted(w), NewMessages, NewProposals
  PROVE  ChatInv'
<1>1. talk' \in [Talkers -> Talk] /\ \A v \in Talkers : talk'[v] = IF v = w THEN r ELSE talk[v]
  BY DEF ChatInv, ChatTypes
<1>2. ChatTypes'
  BY <1>1 DEF ChatInv, ChatTypes
<1>3. \A v \in Talkers : TurnFacts(talk[v])'
  <2> SUFFICES ASSUME NEW v \in Talkers
               PROVE  TurnFacts(talk[v])'
    OBVIOUS
  <2>1. CASE v = w
    BY <1>1, <2>1 DEF TurnFacts
  <2>2. CASE v # w
    <3>1. talk[v] \in Talk /\ TurnFacts(talk[v]) /\ talk'[v] = talk[v]
      BY <1>1, <2>2 DEF ChatInv, ChatTypes
    <3> DEFINE t == talk[v]
    <3>2. \A k \in Talk : TurnFacts(k) => TurnFacts(k)'
      BY TurnFactsStay DEF ChatInv
    <3>3. QED
      BY <3>1, <3>2 DEF TurnFacts
  <2>3. QED
    BY <2>1, <2>2
<1>4. \A v \in Talkers : Accounted(v)
  BY <1>1 DEF Accounted
<1>5. BrokenTurnHasCause'
  BY <1>4, NoLooseEnds
<1>6. TenantIsolation'
  BY <1>3, MemoryStays DEF TenantIsolation, TurnFacts
<1>7. MemoryOfAnsweredTurns'
  BY MemoryStays DEF MemoryOfAnsweredTurns
<1>8. QED
  BY <1>2, <1>3, <1>5, <1>6, <1>7 DEF ChatInv

ChatRows == <<owners, threads, memory, staged, jobs, cutOff, unsure>>

LEMMA TurnReads ==
  ASSUME ChatInv, NEW w \in Talkers, NEW r \in Talk, talk' = [talk EXCEPT ![w] = r],
         TurnFacts(r), UNCHANGED ChatRows, now' \in Nat, Accounted(w)
  PROVE  ChatInv'
<1>1. ThreadsGrow /\ ChatRowsOK' /\ NewMessages /\ NewProposals
  BY DEF ChatInv, ChatTypes, ChatRowsOK, ThreadsGrow, NewMessages, NewProposals, ChatRows
<1>2. TurnFacts(r)'
  BY DEF TurnFacts, ChatRows
<1>3. \A t \in jobs' : JobFacts(t)'
  BY DEF ChatInv, JobFacts, Answered, ChatRows
<1>4. \A p \in staged' : p.user = owners'[p.conversation]
  BY DEF ChatInv, TenantIsolation, ChatRows
<1>5. QED
  BY <1>1, <1>2, <1>3, <1>4, TurnGoesOn DEF ChatRows

LEMMA SilentFacts == Silent \in Talk /\ TurnFacts(Silent)
  BY DEF Silent, Talk, TalkPC, Nothing, TurnFacts, EarlyPC, LatePC

LEMMA MomentsTyped ==
  ASSUME ChatInv
  PROVE  Moments \subseteq Nat
  BY MomentsAssumption DEF Moments, ChatInv, ChatTypes

LEMMA ReadingSteps ==
  ASSUME ChatInv, NEW w \in Talkers,
         \/ \E u \in Candidates, c \in {NOBODY} \cup Conversations : Chat(w, u, c)
         \/ ReadHistory(w) \/ Recall(w) \/ AskProvider(w)
  PROVE  ChatInv'
<1>1. talk \in [Talkers -> Talk] /\ talk[w] \in Talk /\ TurnFacts(talk[w])
  BY DEF ChatInv, ChatTypes
<1>2. ASSUME NEW u \in Candidates, NEW c \in {NOBODY} \cup Conversations, Chat(w, u, c)
      PROVE  ChatInv'
  <2> DEFINE found == c # NOBODY /\ Found(u, c)
             r == [Silent EXCEPT !.pc = IF found THEN "history" ELSE "open",
                                 !.user = u, !.conversation = IF found THEN c ELSE NOBODY]
  <2>1. r \in Talk
    BY DEF Silent, Talk, TalkPC, Nothing
  <2>2. TurnFacts(r)
    BY DEF Silent, TurnFacts, EarlyPC, LatePC, Found
  <2>3. /\ talk' = [talk EXCEPT ![w] = r] /\ talk[w].pc \in EarlyPC
        /\ UNCHANGED ChatRows /\ now' \in Nat
    BY <1>2 DEF Chat, Is, EarlyPC, ChatRows, ChatInv, ChatTypes
  <2>4. QED
    BY <2>1, <2>2, <2>3, TurnReads DEF Accounted
<1>3. CASE ReadHistory(w)
  <2>0. PICK first \in SUBSET DOMAIN Thread(w) :
           talk' = [talk EXCEPT ![w].pc = "recall", ![w].prompt.history = first]
    BY <1>3 DEF ReadHistory, Oldest
  <2> DEFINE r == [talk[w] EXCEPT !.pc = "recall", !.prompt.history = first]
  <2>1. talk[w].pc = "history" /\ talk[w].conversation \in Conversations
    BY <1>1, <1>3 DEF ReadHistory, Is, TurnFacts
  <2>2. first \in SUBSET Nat
    BY <2>1 DEF ChatInv, ChatTypes, ChatRowsOK, Thread
  <2>3. r \in Talk
    BY <1>1, <2>2 DEF Talk, TalkPC
  <2>4. /\ r.pc = "recall" /\ r.user = talk[w].user /\ r.conversation = talk[w].conversation
        /\ r.place = talk[w].place /\ r.sources = talk[w].sources
    BY <1>1 DEF Talk
  <2>5. TurnFacts(r)
    BY <1>1, <2>1, <2>4 DEF TurnFacts, EarlyPC, LatePC
  <2>6. talk' = [talk EXCEPT ![w] = r] /\ UNCHANGED ChatRows /\ now' \in Nat
    BY <1>1, <1>3, <2>0 DEF ReadHistory, ChatRows, ChatInv, ChatTypes
  <2>7. QED
    BY <2>1, <2>3, <2>5, <2>6, TurnReads DEF Accounted, EarlyPC
<1>4. CASE Recall(w)
  <2>1. PICK found \in SUBSET DOMAIN Thread(w), n \in Moments :
           /\ talk' = [talk EXCEPT ![w].pc = "question", ![w].prompt.recalled = found, ![w].at = n]
           /\ now' = n
    BY <1>4 DEF Recall, Searchable
  <2>2. talk[w].pc = "recall" /\ talk[w].conversation \in Conversations
    BY <1>1, <1>4 DEF Recall, Is, TurnFacts
  <2> DEFINE r == [talk[w] EXCEPT !.pc = "question", !.prompt.recalled = found, !.at = n]
  <2>3. found \in SUBSET Nat /\ n \in Nat
    BY <2>2, MomentsTyped DEF Thread, ChatInv, ChatTypes, ChatRowsOK
  <2>4. r \in Talk
    BY <1>1, <2>3 DEF Talk, TalkPC
  <2>5. /\ r.pc = "question" /\ r.user = talk[w].user /\ r.conversation = talk[w].conversation
        /\ r.place = talk[w].place /\ r.sources = talk[w].sources
    BY <1>1 DEF Talk
  <2>6. TurnFacts(r)
    BY <1>1, <2>2, <2>5 DEF TurnFacts, EarlyPC, LatePC
  <2>7. talk' = [talk EXCEPT ![w] = r] /\ UNCHANGED ChatRows /\ now' \in Nat
    <3>1. UNCHANGED ChatRows
      BY <1>4 DEF Recall, ChatRows
    <3>2. talk' = [talk EXCEPT ![w] = r]
      BY <1>1, <2>1
    <3>3. QED
      BY <2>1, <2>3, <3>1, <3>2
  <2>8. QED
    BY <2>2, <2>4, <2>6, <2>7, TurnReads DEF Accounted, EarlyPC
<1>5. CASE AskProvider(w)
  <2>1. PICK calls \in Nat, empty \in BOOLEAN, n \in Nat :
           /\ talk' = [talk EXCEPT ![w].pc = IF calls = 0 THEN "reply" ELSE "tool",
                                   ![w].prompt = Nothing, ![w].at = n,
                                   ![w].calls = calls, ![w].empty = empty]
           /\ now' = n
    <3>1. 0 .. ToolCalls \subseteq Nat /\ Moments \subseteq Nat
      BY MomentsAssumption, MomentsTyped
    <3>2. PICK calls \in 0 .. ToolCalls, n \in Moments,
               empty \in {FALSE} \cup (IF "silence" \in ChatCalls THEN {TRUE} ELSE {}) :
             /\ talk' = [talk EXCEPT ![w].pc = IF calls = 0 THEN "reply" ELSE "tool",
                                     ![w].prompt = Nothing, ![w].at = n,
                                     ![w].calls = calls, ![w].empty = empty]
             /\ now' = n
      BY <1>5 DEF AskProvider
    <3>3. calls \in Nat /\ n \in Nat /\ empty \in BOOLEAN
      BY <3>1
    <3>4. QED
      BY <3>2, <3>3
  <2> DEFINE r == [talk[w] EXCEPT !.pc = IF calls = 0 THEN "reply" ELSE "tool",
                                  !.prompt = Nothing, !.at = n,
                                  !.calls = calls, !.empty = empty]
  <2>2. r \in Talk
    <3>1. (IF calls = 0 THEN "reply" ELSE "tool") \in TalkPC /\ calls \in Nat
      BY DEF TalkPC
    <3>2. Nothing \in [history : SUBSET Nat, recalled : SUBSET Nat]
      BY DEF Nothing
    <3>3. QED
      BY <1>1, <3>1, <3>2 DEF Talk
  <2>3. /\ r.pc \in {"reply", "tool"} /\ (r.pc = "tool" => r.calls > 0)
        /\ r.user = talk[w].user /\ r.conversation = talk[w].conversation
        /\ r.place = talk[w].place /\ r.sources = talk[w].sources
    BY <1>1 DEF Talk
  <2>4. talk[w].pc = "provider"
    BY <1>5 DEF AskProvider, Is
  <2>5. TurnFacts(r)
    BY <1>1, <2>3, <2>4 DEF TurnFacts, EarlyPC, LatePC
  <2>6. talk' = [talk EXCEPT ![w] = r] /\ UNCHANGED ChatRows /\ now' \in Nat
    <3>1. UNCHANGED ChatRows
      BY <1>5 DEF AskProvider, ChatRows
    <3>2. talk' = [talk EXCEPT ![w] = r]
      BY <1>1, <2>1
    <3>3. QED
      BY <2>1, <3>1, <3>2
  <2>7. talk'[w] = r
    BY <1>1, <2>6
  <2>8. QED
    BY <2>2, <2>3, <2>5, <2>6, <2>7, TurnReads DEF Accounted
<1>6. QED
  BY <1>2, <1>3, <1>4, <1>5

LEMMA OpenStep ==
  ASSUME ChatInv, NEW w \in Talkers, OpenConversation(w)
  PROVE  ChatInv'
<1>1. talk \in [Talkers -> Talk] /\ talk[w] \in Talk /\ TurnFacts(talk[w])
  BY DEF ChatInv, ChatTypes
<1>2. PICK c \in Conversations :
         /\ owners[c] = NOBODY
         /\ owners' = [owners EXCEPT ![c] = talk[w].user]
         /\ talk' = [talk EXCEPT ![w].pc = "history", ![w].conversation = c]
  BY DEF OpenConversation
<1>3. talk[w].pc = "open" /\ talk[w].user \in Candidates
  BY <1>1 DEF OpenConversation, Is, TurnFacts
<1>4. UNCHANGED <<threads, memory, staged, jobs, cutOff, unsure>> /\ now' \in Nat
  BY DEF OpenConversation, ChatInv, ChatTypes
<1>5. PICK r \in Talk : r = [talk[w] EXCEPT !.pc = "history", !.conversation = c]
  BY <1>1 DEF Talk, TalkPC
<1>6. /\ r.pc = "history" /\ r.user = talk[w].user /\ r.conversation = c
      /\ r.place = talk[w].place /\ r.sources = talk[w].sources
  BY <1>1, <1>5 DEF Talk
<1>7. talk' = [talk EXCEPT ![w] = r]
  BY <1>1, <1>2, <1>5
<1>8. ThreadsGrow /\ ChatRowsOK' /\ owners'[c] = talk[w].user
  BY <1>2, <1>3, <1>4 DEF ThreadsGrow, ChatInv, ChatTypes, ChatRowsOK
<1>9. TurnFacts(r)'
  BY <1>1, <1>2, <1>3, <1>6, <1>8 DEF TurnFacts, EarlyPC, LatePC
<1>10. \A p \in staged' : p.user = owners'[p.conversation]
  <2> TAKE p \in staged'
  <2>1. p \in staged /\ p.user = owners[p.conversation] /\ p.conversation \in Conversations
        /\ p.user \in Candidates
    BY <1>4 DEF ChatInv, ChatTypes, ChatRowsOK, TenantIsolation, Proposals
  <2>2. QED
    BY <2>1, <1>8, NobodyAssumption DEF ThreadsGrow
<1>11. \A t \in jobs' : JobFacts(t)'
  BY <1>4, <1>8, JobFactsStay
<1>12. QED
  BY <1>3, <1>4, <1>5, <1>7, <1>8, <1>9, <1>10, <1>11, TurnGoesOn
  DEF Accounted, EarlyPC, NewMessages, NewProposals

(* A message is stored behind the others.                                  *)
LEMMA Stored ==
  ASSUME ChatInv, NEW c \in Conversations, NEW m \in MessageRow,
         threads' = [threads EXCEPT ![c] = Append(@, m)],
         UNCHANGED <<owners, staged, jobs, unsure>>, cutOff' \subseteq BrokenTurnRow
  PROVE  /\ ThreadsGrow /\ ChatRowsOK'
         /\ Len(threads[c]) \in Nat /\ DOMAIN threads[c] = 1 .. Len(threads[c])
         /\ DOMAIN threads'[c] = 1 .. Len(threads[c]) + 1
         /\ threads'[c][Len(threads[c]) + 1] = m
         /\ \A d \in Conversations \ {c} : threads'[d] = threads[d]
<1>1. threads \in [Conversations -> Seq(MessageRow)] /\ threads[c] \in Seq(MessageRow)
  BY DEF ChatInv, ChatTypes, ChatRowsOK
<1>2. \A d \in Conversations : threads'[d] = IF d = c THEN Append(threads[c], m) ELSE threads[d]
  BY <1>1
<1>3. /\ Append(threads[c], m) \in Seq(MessageRow)
      /\ Len(threads[c]) \in Nat /\ DOMAIN threads[c] = 1 .. Len(threads[c])
      /\ DOMAIN Append(threads[c], m) = 1 .. Len(threads[c]) + 1
      /\ Append(threads[c], m)[Len(threads[c]) + 1] = m
      /\ \A i \in 1 .. Len(threads[c]) : Append(threads[c], m)[i] = threads[c][i]
  BY <1>1
<1>4. threads' \in [Conversations -> Seq(MessageRow)]
  BY <1>1, <1>2, <1>3
<1>5. ThreadsGrow
  BY <1>2, <1>3 DEF ThreadsGrow
<1>6. QED
  BY <1>2, <1>3, <1>4, <1>5 DEF ChatInv, ChatTypes, ChatRowsOK

LEMMA QuestionStep ==
  ASSUME ChatInv, NEW w \in Talkers, SaveQuestion(w)
  PROVE  ChatInv'
<1>1. talk \in [Talkers -> Talk] /\ talk[w] \in Talk /\ TurnFacts(talk[w])
  BY DEF ChatInv, ChatTypes
<1>2. PICK c \in Conversations : c = talk[w].conversation /\ talk[w].pc = "question"
  BY <1>1 DEF SaveQuestion, Is, TurnFacts
<1>3. PICK n \in Nat : n = Len(threads[c]) + 1 /\ n - 1 = Len(threads[c])
  BY DEF ChatInv, ChatTypes, ChatRowsOK
<1>4. PICK m \in MessageRow : m = Question(talk[w].at) /\ m.role = "user"
  <2>1. talk[w].at \in Nat
    BY <1>1 DEF Talk
  <2>2. Question(talk[w].at) \in MessageRow /\ Question(talk[w].at).role = "user"
    BY <2>1 DEF Question, MessageRow
  <2>3. QED
    BY <2>2
<1>5. /\ threads' = [threads EXCEPT ![c] = Append(@, m)]
      /\ talk' = [talk EXCEPT ![w].pc = "provider", ![w].place = n]
      /\ UNCHANGED <<owners, memory, staged, jobs, cutOff, unsure>> /\ now' \in Nat
      /\ cutOff' \subseteq BrokenTurnRow
  BY <1>2, <1>3, <1>4 DEF SaveQuestion, Stores, Thread, ChatInv, ChatTypes, ChatRowsOK
<1>6. /\ ThreadsGrow /\ ChatRowsOK' /\ n \in Nat /\ n \in DOMAIN threads'[c]
      /\ DOMAIN threads[c] = 1 .. n - 1 /\ DOMAIN threads'[c] = 1 .. n
      /\ \A d \in Conversations \ {c} : threads'[d] = threads[d]
  <2>1. /\ ThreadsGrow /\ ChatRowsOK'
        /\ DOMAIN threads[c] = 1 .. Len(threads[c])
        /\ DOMAIN threads'[c] = 1 .. Len(threads[c]) + 1
        /\ threads'[c][Len(threads[c]) + 1] = m
        /\ \A d \in Conversations \ {c} : threads'[d] = threads[d]
    BY <1>4, <1>5, Stored
  <2>2. QED
    BY <1>3, <2>1
<1>7. PICK r \in Talk : r = [talk[w] EXCEPT !.pc = "provider", !.place = n]
  BY <1>1, <1>6 DEF Talk, TalkPC
<1>8. /\ r.pc = "provider" /\ r.user = talk[w].user /\ r.conversation = c
      /\ r.place = n /\ r.sources = talk[w].sources
      /\ talk' = [talk EXCEPT ![w] = r]
  BY <1>1, <1>2, <1>5, <1>7 DEF Talk
<1>9. TurnFacts(r)'
  BY <1>1, <1>2, <1>5, <1>6, <1>8 DEF TurnFacts, EarlyPC, LatePC
<1>10. \A t \in jobs' : JobFacts(t)'
  BY <1>5, <1>6, JobFactsStay
<1>11. \A p \in staged' : p.user = owners'[p.conversation]
  BY <1>5 DEF ChatInv, TenantIsolation
<1>12. NewMessages /\ NewProposals
  <2>1. talk'[w] = r
    BY <1>1, <1>8
  <2>2. ASSUME NEW d \in Conversations, NEW i \in DOMAIN threads'[d] \ DOMAIN threads[d]
        PROVE  d = c /\ i = n
    BY <1>6, <2>2
  <2>3. QED
    BY <1>5, <1>8, <2>1, <2>2 DEF NewMessages, NewProposals
<1>13. Accounted(w)
  BY <1>2 DEF Accounted, EarlyPC
<1>14. QED
  BY <1>5, <1>6, <1>8, <1>9, <1>10, <1>11, <1>12, <1>13, TurnGoesOn

LEMMA ToolStep ==
  ASSUME ChatInv, NEW w \in Talkers, RunToolCall(w)
  PROVE  ChatInv'
<1>1. talk \in [Talkers -> Talk] /\ talk[w] \in Talk /\ TurnFacts(talk[w])
  BY DEF ChatInv, ChatTypes
<1>2. PICK p : p = Proposal(w)
  OBVIOUS
<1>3. /\ talk[w].pc = "tool" /\ talk[w].user \in Candidates
      /\ talk[w].conversation \in Conversations /\ talk[w].calls > 0
      /\ owners[talk[w].conversation] = talk[w].user
  BY <1>1, NobodyAssumption DEF RunToolCall, Is, TurnFacts
<1>4. p \in Proposals /\ p.user = talk[w].user /\ p.conversation = talk[w].conversation
  BY <1>1, <1>2, <1>3 DEF Proposal, Proposals, Talk
<1>5. UNCHANGED <<owners, threads, memory, jobs, cutOff>>
  BY DEF RunToolCall
<1>6. PICK pc \in {"reply", "tool"} : pc = IF talk[w].calls = 1 THEN "reply" ELSE "tool"
  OBVIOUS
<1>7. PICK made \in SUBSET {p}, new \in SUBSET {p}, n \in Nat :
         /\ new \subseteq made
         /\ staged' = staged \cup made /\ unsure' = unsure \cup (made \ new) /\ now' = n
         /\ talk' = [talk EXCEPT ![w].calls = @ - 1, ![w].sources = @ \cup new, ![w].at = n,
                                 ![w].pc = pc]
  BY <1>2, <1>6, MomentsTyped DEF RunToolCall, NextCall
<1>8. PICK r : r = [talk[w] EXCEPT !.calls = @ - 1, !.sources = @ \cup new, !.at = n, !.pc = pc]
  OBVIOUS
<1>9. r \in Talk
  <2>1. talk[w].calls - 1 \in Nat /\ talk[w].sources \cup new \in SUBSET Proposals
    BY <1>1, <1>3, <1>4 DEF Talk
  <2>2. pc \in TalkPC
    BY DEF TalkPC
  <2>3. QED
    BY <1>1, <1>8, <2>1, <2>2 DEF Talk
<1>10. /\ r.pc = pc /\ r.user = talk[w].user /\ r.conversation = talk[w].conversation
       /\ r.place = talk[w].place /\ r.sources = talk[w].sources \cup new
       /\ r.calls = talk[w].calls - 1 /\ talk' = [talk EXCEPT ![w] = r]
  BY <1>1, <1>7, <1>8 DEF Talk
<1>11. pc = "tool" => r.calls > 0
  BY <1>1, <1>3, <1>6, <1>10 DEF Talk
<1>12. TurnFacts(r)'
  BY <1>1, <1>3, <1>4, <1>5, <1>10, <1>11 DEF TurnFacts, EarlyPC, LatePC
<1>13. ThreadsGrow /\ ChatRowsOK' /\ NewMessages
  BY <1>4, <1>5, <1>7 DEF ThreadsGrow, ChatInv, ChatTypes, ChatRowsOK, NewMessages
<1>14. \A t \in jobs' : JobFacts(t)'
  BY <1>5, <1>13, JobFactsStay
<1>15. \A q \in staged' : q.user = owners'[q.conversation]
  BY <1>3, <1>4, <1>5, <1>7 DEF ChatInv, TenantIsolation
<1>16. talk'[w] = r
  BY <1>1, <1>10
<1>17. NewProposals /\ Accounted(w)
  BY <1>7, <1>10, <1>16 DEF NewProposals, Accounted
<1>18. QED
  <2>1. now' \in Nat /\ unsure \subseteq unsure' /\ cutOff \subseteq cutOff'
    BY <1>5, <1>7
  <2>2. QED
    BY <1>5, <1>9, <1>10, <1>12, <1>13, <1>14, <1>15, <1>17, <2>1, TurnGoesOn

LEMMA ReplyStep ==
  ASSUME ChatInv, NEW w \in Talkers, SaveReply(w)
  PROVE  ChatInv'
<1>1. talk \in [Talkers -> Talk] /\ talk[w] \in Talk /\ TurnFacts(talk[w])
  BY DEF ChatInv, ChatTypes
<1>2. PICK c \in Conversations : c = talk[w].conversation /\ talk[w].pc = "reply"
  BY <1>1 DEF SaveReply, Is, TurnFacts
<1>3. PICK n \in Nat : n = Len(threads[c]) + 1 /\ n - 1 = Len(threads[c])
  BY DEF ChatInv, ChatTypes, ChatRowsOK
<1>4. PICK m \in MessageRow : /\ m = Reply(talk[w].place, talk[w].sources, talk[w].at)
                           /\ m.role # "user"
  <2>1. talk[w].place \in Nat /\ talk[w].sources \in SUBSET Proposals /\ talk[w].at \in Nat
    BY <1>1 DEF Talk
  <2>2. Reply(talk[w].place, talk[w].sources, talk[w].at) \in MessageRow
    BY <2>1 DEF Reply, MessageRow
  <2>3. Reply(talk[w].place, talk[w].sources, talk[w].at).role # "user"
    BY DEF Reply
  <2>4. QED
    BY <2>2, <2>3
<1>5. /\ threads' = [threads EXCEPT ![c] = Append(@, m)]
      /\ talk' = [talk EXCEPT ![w].pc = "touch", ![w].answered = n]
      /\ UNCHANGED <<owners, memory, staged, jobs, cutOff, unsure>> /\ now' \in Nat
      /\ cutOff' \subseteq BrokenTurnRow
  BY <1>2, <1>3, <1>4 DEF SaveReply, Stores, Thread, ChatInv, ChatTypes, ChatRowsOK
<1>6. /\ ThreadsGrow /\ ChatRowsOK' /\ n \in Nat /\ n \in DOMAIN threads'[c]
      /\ DOMAIN threads[c] = 1 .. n - 1 /\ DOMAIN threads'[c] = 1 .. n
      /\ threads'[c][n] = m
      /\ \A d \in Conversations \ {c} : threads'[d] = threads[d]
  <2>1. /\ ThreadsGrow /\ ChatRowsOK'
        /\ DOMAIN threads[c] = 1 .. Len(threads[c])
        /\ DOMAIN threads'[c] = 1 .. Len(threads[c]) + 1
        /\ threads'[c][Len(threads[c]) + 1] = m
        /\ \A d \in Conversations \ {c} : threads'[d] = threads[d]
    BY <1>4, <1>5, Stored
  <2>2. QED
    BY <1>3, <2>1
<1>7. PICK r \in Talk : r = [talk[w] EXCEPT !.pc = "touch", !.answered = n]
  BY <1>1, <1>6 DEF Talk, TalkPC
<1>8. /\ r.pc = "touch" /\ r.user = talk[w].user /\ r.conversation = c
      /\ r.place = talk[w].place /\ r.sources = talk[w].sources /\ r.answered = n
      /\ r.at = talk[w].at
      /\ talk' = [talk EXCEPT ![w] = r]
  BY <1>1, <1>2, <1>5, <1>7 DEF Talk
<1>9. TurnFacts(r)'
  <2>1. r.place \in DOMAIN threads[c] /\ r.place < n
    BY <1>1, <1>2, <1>6, <1>8 DEF TurnFacts, LatePC
  <2>2. m = Reply(r.place, r.sources, r.at)
    BY <1>4, <1>8
  <2>3. r.place \in DOMAIN threads'[c] /\ r.answered \in DOMAIN threads'[c]
        /\ threads'[c][r.answered] = Reply(r.place, r.sources, r.at)
    BY <1>6, <1>8, <2>1, <2>2
  <2>4. r.user \in Candidates /\ owners'[c] = r.user
    BY <1>1, <1>2, <1>5, <1>8, NobodyAssumption DEF TurnFacts
  <2>5. \A p \in r.sources : p.conversation = c
    BY <1>1, <1>2, <1>8 DEF TurnFacts
  <2>6. QED
    BY <1>8, <2>1, <2>3, <2>4, <2>5 DEF TurnFacts, EarlyPC, LatePC
<1>10. \A t \in jobs' : JobFacts(t)'
  BY <1>5, <1>6, JobFactsStay
<1>11. \A p \in staged' : p.user = owners'[p.conversation]
  BY <1>5 DEF ChatInv, TenantIsolation
<1>12. NewMessages /\ NewProposals
  <2>1. ASSUME NEW d \in Conversations, NEW i \in DOMAIN threads'[d] \ DOMAIN threads[d]
        PROVE  d = c /\ i = n
    BY <1>6, <2>1
  <2>2. QED
    BY <1>4, <1>5, <1>6, <2>1 DEF NewMessages, NewProposals
<1>13. talk'[w] = r
  BY <1>1, <1>8
<1>14. Accounted(w)
  BY <1>2, <1>8, <1>13 DEF Accounted
<1>15. QED
  BY <1>5, <1>6, <1>8, <1>9, <1>10, <1>11, <1>12, <1>14, TurnGoesOn

LEMMA FinishStep ==
  ASSUME ChatInv, NEW w \in Talkers, FinishTurn(w)
  PROVE  ChatInv'
<1>1. talk \in [Talkers -> Talk] /\ talk[w] \in Talk /\ TurnFacts(talk[w])
  BY DEF ChatInv, ChatTypes
<1>2. PICK c \in Conversations, place \in Nat, answered \in Nat :
         /\ c = talk[w].conversation /\ place = talk[w].place /\ answered = talk[w].answered
         /\ talk[w].pc = "touch"
  BY <1>1 DEF FinishTurn, Is, TurnFacts, Talk
<1>3. /\ talk' = [talk EXCEPT ![w] = Silent]
      /\ UNCHANGED <<owners, threads, memory, staged, cutOff, unsure>> /\ now' \in Nat
      /\ jobs \subseteq jobs'
      /\ jobs' \subseteq jobs \cup {TurnAt(c, place), TurnAt(c, answered)}
  BY <1>2 DEF FinishTurn, Close, ChatInv, ChatTypes
<1>4. /\ place \in DOMAIN threads[c] /\ answered \in DOMAIN threads[c] /\ answered > place
      /\ threads[c][answered] = Reply(place, talk[w].sources, talk[w].at)
      /\ owners[c] \in Candidates
  BY <1>1, <1>2, NobodyAssumption DEF TurnFacts, LatePC
<1>5. threads[c][answered].role # "user" /\ Answered(c, place)
  BY <1>2, <1>4 DEF Reply, Answered
<1>6. ThreadsGrow /\ NewMessages /\ NewProposals
  BY <1>3 DEF ThreadsGrow, NewMessages, NewProposals
<1>7. JobFacts(TurnAt(c, place)) /\ JobFacts(TurnAt(c, answered))
  BY <1>4, <1>5 DEF JobFacts, TurnAt
<1>8. ChatRowsOK'
  BY <1>3 DEF ChatInv, ChatTypes, ChatRowsOK, TurnAt
<1>9. \A t \in jobs' : JobFacts(t)'
  <2>1. \A t \in jobs' : JobFacts(t)
    BY <1>3, <1>7 DEF ChatInv
  <2>2. QED
    BY <1>3, <2>1 DEF JobFacts, Answered
<1>10. TurnFacts(Silent)'
  BY <1>3, SilentFacts DEF TurnFacts
<1>11. \A p \in staged' : p.user = owners'[p.conversation]
  BY <1>3 DEF ChatInv, TenantIsolation
<1>12. Accounted(w)
  BY <1>2 DEF Accounted
<1>13. QED
  BY <1>3, <1>6, <1>8, <1>9, <1>10, <1>11, <1>12, SilentFacts, TurnGoesOn

(* A turn that breaks off after its question is recorded.                   *)
LEMMA CutOffAccounts ==
  ASSUME ChatInv, NEW w \in Talkers, CutOff(w) \subseteq cutOff'
  PROVE  Accounted(w) /\ CutOff(w) \subseteq BrokenTurnRow
<1>1. talk[w] \in Talk /\ TurnFacts(talk[w])
  BY DEF ChatInv, ChatTypes
<1>2. CASE talk[w].pc \in EarlyPC \cup {"touch"}
  BY <1>1, <1>2 DEF Accounted, CutOff, Is, TurnFacts
<1>3. CASE talk[w].pc \notin EarlyPC \cup {"touch"}
  <2>1. /\ talk[w].conversation \in Conversations
        /\ talk[w].place \in DOMAIN threads[talk[w].conversation]
        /\ talk[w].place \in Nat /\ talk[w].sources \in SUBSET Proposals
    BY <1>1, <1>3 DEF Talk, TalkPC, EarlyPC, LatePC, TurnFacts
  <2>2. talk[w].place # 0
    BY <2>1 DEF ChatInv, ChatTypes, ChatRowsOK
  <2> DEFINE t == [conversation |-> talk[w].conversation, place |-> talk[w].place,
                   made |-> talk[w].sources]
  <2>3. CutOff(w) = {t}
    BY <1>3, <2>2 DEF CutOff, Broken, Is
  <2>4. t \in BrokenTurnRow
    BY <2>1 DEF BrokenTurnRow
  <2>5. QED
    BY <2>3, <2>4 DEF Accounted
<1>4. QED
  BY <1>2, <1>3

LEMMA FaultStep ==
  ASSUME ChatInv, NEW w \in Talkers, StatementFails(w)
  PROVE  ChatInv'
<1>1. talk' = [talk EXCEPT ![w] = Silent] /\ cutOff' = cutOff \cup CutOff(w)
      /\ UNCHANGED <<owners, threads, memory, staged, jobs, unsure>> /\ now' \in Nat
  BY DEF StatementFails, Close, ChatInv, ChatTypes
<1>2. Accounted(w) /\ CutOff(w) \subseteq BrokenTurnRow
  BY <1>1, CutOffAccounts
<1>3. ThreadsGrow /\ NewMessages /\ NewProposals /\ ChatRowsOK'
  BY <1>1, <1>2 DEF ThreadsGrow, NewMessages, NewProposals, ChatInv, ChatTypes, ChatRowsOK
<1>4. \A t \in jobs' : JobFacts(t)'
  BY <1>1, <1>3, JobFactsStay
<1>5. TurnFacts(Silent)'
  BY <1>1, SilentFacts DEF TurnFacts
<1>6. \A p \in staged' : p.user = owners'[p.conversation]
  BY <1>1 DEF ChatInv, TenantIsolation
<1>7. QED
  BY <1>1, <1>2, <1>3, <1>4, <1>5, <1>6, SilentFacts, TurnGoesOn

(* A statement that was carried out and whose answer is lost: what it wrote  *)
(* stays, its turn ends.                                                   *)
LEMMA LostStep ==
  ASSUME ChatInv, NEW w \in Talkers, AnswerLost(w)
  PROVE  ChatInv'
<1>1. talk \in [Talkers -> Talk] /\ talk[w] \in Talk /\ TurnFacts(talk[w])
  BY DEF ChatInv, ChatTypes
<1>2. talk' = [talk EXCEPT ![w] = Silent] /\ UNCHANGED <<memory, staged, jobs, unsure>>
      /\ now' \in Nat
  BY DEF AnswerLost, Close, ChatInv, ChatTypes
<1>3. TurnFacts(Silent)'
  BY SilentFacts DEF TurnFacts, Silent, EarlyPC, LatePC
<1>4. ASSUME ThreadsGrow, ChatRowsOK', cutOff \subseteq cutOff', Accounted(w), NewMessages
      PROVE  ChatInv'
  <2>1. \A t \in jobs' : JobFacts(t)'
    BY <1>2, <1>4, JobFactsStay
  <2>2. \A p \in staged' : p.user = owners'[p.conversation]
    <3> TAKE p \in staged'
    <3>1. /\ p \in staged /\ p.user = owners[p.conversation]
          /\ p.conversation \in Conversations /\ p.user \in Candidates
      BY <1>2 DEF ChatInv, ChatTypes, ChatRowsOK, TenantIsolation, Proposals
    <3>2. QED
      BY <1>4, <3>1, NobodyAssumption DEF ThreadsGrow
  <2>3. NewProposals
    BY <1>2 DEF NewProposals
  <2>4. QED
    BY <1>2, <1>3, <1>4, <2>1, <2>2, <2>3, SilentFacts, TurnGoesOn
<1>5. CASE Is(w, "open")
  <2>1. PICK c \in Conversations :
           owners[c] = NOBODY /\ owners' = [owners EXCEPT ![c] = talk[w].user]
    BY <1>5 DEF AnswerLost, Is
  <2>2. UNCHANGED <<threads, cutOff>> /\ talk[w].user \in Candidates
    BY <1>1, <1>5 DEF AnswerLost, Is, TurnFacts
  <2>3. ThreadsGrow /\ ChatRowsOK' /\ NewMessages
    BY <1>2, <2>1, <2>2 DEF ThreadsGrow, ChatInv, ChatTypes, ChatRowsOK, NewMessages
  <2>4. Accounted(w)
    BY <1>5 DEF Accounted, EarlyPC, Is
  <2>5. QED
    BY <1>4, <2>2, <2>3, <2>4
<1>6. CASE Is(w, "question")
  <2>1. PICK c \in Conversations, n \in Nat, m \in MessageRow :
           /\ c = talk[w].conversation /\ n = Len(threads[c]) + 1
           /\ m = Question(talk[w].at)
    <3>1. talk[w].conversation \in Conversations /\ talk[w].at \in Nat
      BY <1>1, <1>6 DEF Is, TurnFacts, Talk
    <3>2. Question(talk[w].at) \in MessageRow
      BY <3>1 DEF Question, MessageRow
    <3>3. Len(threads[talk[w].conversation]) + 1 \in Nat
      BY <3>1 DEF ChatInv, ChatTypes, ChatRowsOK
    <3>4. QED
      BY <3>1, <3>2, <3>3
  <2> DEFINE t == [conversation |-> c, place |-> n, made |-> talk[w].sources]
  <2>2. /\ threads' = [threads EXCEPT ![c] = Append(@, m)]
        /\ cutOff' = cutOff \cup {t} /\ owners' = owners
    BY <1>6, <2>1 DEF AnswerLost, Is, Stores, Broken, Thread
  <2>3. t \in BrokenTurnRow
    BY <1>1, <2>1 DEF BrokenTurnRow, Talk
  <2>4. cutOff' \subseteq BrokenTurnRow
    BY <2>2, <2>3 DEF ChatInv, ChatTypes, ChatRowsOK
  <2>5. /\ ThreadsGrow /\ ChatRowsOK'
        /\ Len(threads[c]) \in Nat /\ DOMAIN threads[c] = 1 .. Len(threads[c])
        /\ DOMAIN threads'[c] = 1 .. Len(threads[c]) + 1
        /\ \A d \in Conversations \ {c} : threads'[d] = threads[d]
    BY <1>2, <2>2, <2>4, Stored
  <2>6. ASSUME NEW d \in Conversations, NEW i \in DOMAIN threads'[d] \ DOMAIN threads[d]
        PROVE  d = c /\ i = n
    BY <2>1, <2>5, <2>6
  <2>7. t \in cutOff' /\ t.conversation = c /\ t.place = n
    BY <2>2
  <2>8. NewMessages
    BY <2>6, <2>7 DEF NewMessages
  <2>9. Accounted(w)
    BY <1>6 DEF Accounted, EarlyPC, Is
  <2>10. QED
    BY <1>4, <2>2, <2>5, <2>8, <2>9
<1>7. CASE Is(w, "reply")
  <2>1. PICK c \in Conversations, n \in Nat, m \in MessageRow :
           /\ c = talk[w].conversation /\ n = Len(threads[c]) + 1
           /\ m = Reply(talk[w].place, talk[w].sources, talk[w].at)
    <3>1. talk[w].conversation \in Conversations
      BY <1>1, <1>7 DEF Is, TurnFacts
    <3>2. Reply(talk[w].place, talk[w].sources, talk[w].at) \in MessageRow
      BY <1>1 DEF Reply, MessageRow, Talk
    <3>3. Len(threads[talk[w].conversation]) + 1 \in Nat
      BY <3>1 DEF ChatInv, ChatTypes, ChatRowsOK
    <3>4. QED
      BY <3>1, <3>2, <3>3
  <2>2. /\ threads' = [threads EXCEPT ![c] = Append(@, m)] /\ owners' = owners
        /\ cutOff' = cutOff \cup CutOff(w)
    BY <1>7, <2>1 DEF AnswerLost, Is, Stores
  <2>3. cutOff' \subseteq BrokenTurnRow /\ Accounted(w)
    BY <2>2, CutOffAccounts DEF ChatInv, ChatTypes, ChatRowsOK
  <2>4. /\ ThreadsGrow /\ ChatRowsOK'
        /\ Len(threads[c]) \in Nat /\ DOMAIN threads[c] = 1 .. Len(threads[c])
        /\ DOMAIN threads'[c] = 1 .. Len(threads[c]) + 1
        /\ threads'[c][Len(threads[c]) + 1] = m
        /\ \A d \in Conversations \ {c} : threads'[d] = threads[d]
    BY <1>2, <2>2, <2>3, Stored
  <2>5. m.role # "user"
    BY <2>1 DEF Reply
  <2>6. NewMessages
    <3>1. ASSUME NEW d \in Conversations, NEW i \in DOMAIN threads'[d] \ DOMAIN threads[d]
          PROVE  threads'[d][i] = m
      BY <2>4, <3>1
    <3>2. QED
      BY <2>5, <3>1 DEF NewMessages
  <2>7. QED
    BY <1>4, <2>2, <2>3, <2>4, <2>6
<1>8. QED
  BY <1>5, <1>6, <1>7 DEF AnswerLost

LEMMA CrashStep ==
  ASSUME ChatInv, ChatCrash
  PROVE  ChatInv'
<1>1. /\ cutOff' = cutOff \cup UNION {CutOff(w) : w \in Talkers}
      /\ talk' = [w \in Talkers |-> Silent] /\ jobs' = {}
      /\ UNCHANGED <<owners, threads, memory, staged, unsure, now>>
  BY DEF ChatCrash
<1>2. \A w \in Talkers : Accounted(w) /\ CutOff(w) \subseteq BrokenTurnRow
  <2> TAKE w \in Talkers
  <2>1. CutOff(w) \subseteq cutOff'
    BY <1>1
  <2>2. QED
    BY <2>1, CutOffAccounts
<1>3. ThreadsGrow /\ NewMessages /\ NewProposals
  BY <1>1 DEF ThreadsGrow, NewMessages, NewProposals
<1>4. ChatTypes' /\ ChatRowsOK'
  <2>1. cutOff' \subseteq BrokenTurnRow
    BY <1>1, <1>2 DEF ChatInv, ChatTypes, ChatRowsOK
  <2>2. talk' \in [Talkers -> Talk]
    BY <1>1, SilentFacts
  <2>3. QED
    BY <1>1, <2>1, <2>2 DEF ChatInv, ChatTypes, ChatRowsOK
<1>5. \A w \in Talkers : TurnFacts(talk[w])'
  BY <1>1, SilentFacts DEF TurnFacts
<1>6. BrokenTurnHasCause'
  BY <1>1, <1>2, <1>3, <1>4, NoLooseEnds
<1>7. TenantIsolation'
  BY <1>1 DEF ChatInv, TenantIsolation, Silent
<1>8. MemoryOfAnsweredTurns'
  BY <1>1 DEF ChatInv, MemoryOfAnsweredTurns, Answered
<1>9. QED
  BY <1>1, <1>4, <1>5, <1>6, <1>7, <1>8 DEF ChatInv

LEMMA IndexStep ==
  ASSUME ChatInv, NEW t \in jobs, IndexTurn(t)
  PROVE  ChatInv'
<1>1. /\ jobs' = jobs \ {t} /\ UNCHANGED <<owners, threads, staged, talk, cutOff, unsure, now>>
      /\ memory' \subseteq memory \cup {[conversation |-> t.conversation, place |-> t.place,
                                        user |-> owners[t.conversation]]}
  BY DEF IndexTurn
<1>2. JobFacts(t) /\ t.conversation \in Conversations /\ t.place \in Nat
  BY DEF ChatInv, ChatTypes, ChatRowsOK
<1> DEFINE e == [conversation |-> t.conversation, place |-> t.place,
                 user |-> owners[t.conversation]]
<1>3. /\ e \in [conversation : Conversations, place : Nat, user : Candidates]
      /\ e.user = owners[e.conversation]
      /\ e.place \in DOMAIN threads[e.conversation]
      /\ threads[e.conversation][e.place].role = "user" => Answered(e.conversation, e.place)
  BY <1>2 DEF JobFacts
<1>4. ChatTypes'
  BY <1>1, <1>3 DEF ChatInv, ChatTypes, ChatRowsOK
<1>5. TenantIsolation'
  BY <1>1, <1>3 DEF ChatInv, TenantIsolation
<1>6. MemoryOfAnsweredTurns'
  <2>1. \A k \in memory \cup {e} :
           /\ k.place \in DOMAIN threads[k.conversation]
           /\ threads[k.conversation][k.place].role = "user" => Answered(k.conversation, k.place)
    BY <1>3 DEF ChatInv, MemoryOfAnsweredTurns
  <2>2. QED
    BY <1>1, <2>1 DEF MemoryOfAnsweredTurns, Answered
<1>7. /\ \A w \in Talkers : TurnFacts(talk[w])'
      /\ \A k \in jobs' : JobFacts(k)'
  BY <1>1 DEF ChatInv, TurnFacts, JobFacts, Answered
<1>8. BrokenTurnHasCause'
  BY <1>1 DEF ChatInv, BrokenTurnHasCause, InFlight, Answered
<1>9. QED
  BY <1>4, <1>5, <1>6, <1>7, <1>8 DEF ChatInv

(* Reading changes nothing.                                                *)
LEMMA ChatStutter ==
  ASSUME ChatInv, UNCHANGED <<ChatRows, talk, now>>
  PROVE  ChatInv'
<1> USE DEF ChatRows
<1>1. ChatTypes' /\ TenantIsolation'
  BY DEF ChatInv, ChatTypes, ChatRowsOK, TenantIsolation
<1>2. /\ \A w \in Talkers : TurnFacts(talk[w])'
      /\ \A k \in jobs' : JobFacts(k)'
  BY DEF ChatInv, TurnFacts, JobFacts, Answered
<1>3. BrokenTurnHasCause' /\ MemoryOfAnsweredTurns'
  BY DEF ChatInv, BrokenTurnHasCause, MemoryOfAnsweredTurns, InFlight, Answered
<1>4. QED
  BY <1>1, <1>2, <1>3 DEF ChatInv

(* The chat keeps its invariant.                                           *)
THEOREM ChatSafe == ChatSpec => []ChatInv
<1>1. ChatInit => ChatInv
  <2> SUFFICES ASSUME ChatInit
               PROVE  ChatInv
    OBVIOUS
  <2> USE DEF ChatInit
  <2>1. ChatTypes
    BY SilentFacts DEF ChatTypes, ChatRowsOK
  <2>2. \A w \in Talkers : TurnFacts(talk[w])
    BY SilentFacts
  <2>3. TenantIsolation /\ MemoryOfAnsweredTurns
    BY DEF TenantIsolation, MemoryOfAnsweredTurns, Silent
  <2>4. BrokenTurnHasCause
    BY DEF BrokenTurnHasCause
  <2>5. QED
    BY <2>1, <2>2, <2>3, <2>4 DEF ChatInv
<1>2. ChatInv /\ [ChatNext]_chatVars => ChatInv'
  <2> SUFFICES ASSUME ChatInv, [ChatNext]_chatVars
               PROVE  ChatInv'
    OBVIOUS
  <2>1. CASE ChatArrive
    BY <2>1, ReadingSteps DEF ChatArrive
  <2>2. ASSUME NEW w \in Talkers, TalkStep(w)
        PROVE  ChatInv'
    BY <2>2, OpenStep, ReadingSteps, QuestionStep, ToolStep, ReplyStep, FinishStep, FaultStep,
       LostStep
    DEF TalkStep
  <2>3. CASE UNCHANGED chatVars
    BY <2>3, ChatStutter DEF chatVars, ChatRows
  <2>4. QED
    BY <2>1, <2>2, <2>3, CrashStep, IndexStep DEF ChatNext, ChatStep
<1>3. QED
  BY <1>1, <1>2, PTL DEF ChatSpec

(* Whatever the model answers and whatever overlaps: a question without its  *)
(* reply, and a proposal no reply names, is of a turn still in flight, or  *)
(* of one that was cut off, or its insert failed though carried out.       *)
THEOREM BrokenTurns == ChatSpec => []BrokenTurnHasCause
<1>1. ChatInv => BrokenTurnHasCause
  BY DEF ChatInv
<1>2. QED
  BY <1>1, ChatSafe, PTL

(* Only questions that were answered are remembered, whatever cuts a turn    *)
(* off before or while it is indexed.                                      *)
THEOREM MemoryTrue == ChatSpec => []MemoryOfAnsweredTurns
<1>1. ChatInv => MemoryOfAnsweredTurns
  BY DEF ChatInv
<1>2. QED
  BY <1>1, ChatSafe, PTL

(* What belongs to one user stays with that user: the conversations and      *)

(* What belongs to one user stays with that user: the conversations and      *)
(* what is remembered of them, and the notifications.                      *)
THEOREM OwnersApart == ChatSpec /\ DeliverySpec => []OwnersOnly
<1>1. ChatInv /\ DeliveryInv => OwnersOnly
  BY DEF ChatInv, DeliveryInv, OwnersOnly
<1>2. QED
  BY <1>1, ChatSafe, DeliverySafe, PTL

-----------------------------------------------------------------------------
(* A reply, and a turn before its reply, names only proposals that were made.*)
NamesMade ==
    /\ \A w \in Talkers : talk[w].sources \subseteq staged
    /\ \A c \in Conversations : \A i \in DOMAIN threads[c] : threads[c][i].sources \subseteq staged

LEMMA TurnNamesMade ==
  ASSUME ChatInv, NamesMade, NEW w \in Talkers, TalkStep(w)
  PROVE  \A v \in Talkers : talk'[v].sources \subseteq staged'
<1>1. talk \in [Talkers -> Talk] /\ talk[w] \in Talk
  BY DEF ChatInv, ChatTypes
<1>2. staged \subseteq staged' /\ \A v \in Talkers \ {w} : talk'[v] = talk[v]
  BY <1>1 DEF TalkStep, OpenConversation, ReadHistory, Recall, SaveQuestion, AskProvider,
     RunToolCall, NextCall, SaveReply, FinishTurn, StatementFails, AnswerLost, Close
<1>3. talk'[w].sources \subseteq talk[w].sources \cup staged'
  <2>1. CASE OpenConversation(w)
    <3>1. PICK c : talk' = [talk EXCEPT ![w].pc = "history", ![w].conversation = c]
      BY <2>1 DEF OpenConversation
    <3>2. QED
      BY <1>1, <3>1 DEF Talk
  <2>2. CASE ReadHistory(w)
    <3>1. PICK f : talk' = [talk EXCEPT ![w].pc = "recall", ![w].prompt.history = f]
      BY <2>2 DEF ReadHistory
    <3>2. QED
      BY <1>1, <3>1 DEF Talk
  <2>3. CASE Recall(w)
    <3>1. PICK f, n : talk' = [talk EXCEPT ![w].pc = "question", ![w].prompt.recalled = f,
                                           ![w].at = n]
      BY <2>3 DEF Recall
    <3>2. QED
      BY <1>1, <3>1 DEF Talk
  <2>4. CASE SaveQuestion(w)
    BY <1>1, <2>4 DEF SaveQuestion, Talk
  <2>5. CASE AskProvider(w)
    <3>1. PICK calls, empty, n :
             talk' = [talk EXCEPT ![w].pc = IF calls = 0 THEN "reply" ELSE "tool",
                                  ![w].prompt = Nothing, ![w].at = n,
                                  ![w].calls = calls, ![w].empty = empty]
      BY <2>5 DEF AskProvider
    <3>2. QED
      BY <1>1, <3>1 DEF Talk
  <2>6. CASE RunToolCall(w)
    <3>1. PICK made, listed, n :
             /\ listed \subseteq made
             /\ staged' = staged \cup made
             /\ talk' = [talk EXCEPT ![w].calls = @ - 1, ![w].sources = @ \cup listed,
                                     ![w].at = n,
                                     ![w].pc = IF talk[w].calls = 1 THEN "reply" ELSE "tool"]
      BY <2>6 DEF RunToolCall, NextCall
    <3>2. QED
      BY <1>1, <3>1 DEF Talk
  <2>7. CASE SaveReply(w)
    BY <1>1, <2>7 DEF SaveReply, Talk
  <2>8. CASE FinishTurn(w) \/ StatementFails(w) \/ AnswerLost(w)
    BY <1>1, <2>8 DEF FinishTurn, StatementFails, AnswerLost, Close, Silent
  <2>9. QED
    BY <2>1, <2>2, <2>3, <2>4, <2>5, <2>6, <2>7, <2>8 DEF TalkStep
<1>4. QED
  BY <1>2, <1>3 DEF NamesMade

LEMMA ThreadNamesMade ==
  ASSUME ChatInv, NamesMade, NEW c \in Conversations, NEW m, m.sources \subseteq staged,
         threads' = [threads EXCEPT ![c] = Append(@, m)], staged' = staged
  PROVE  \A d \in Conversations : \A i \in DOMAIN threads'[d] : threads'[d][i].sources \subseteq staged'
<1>1. PICK s : /\ s = threads[c] /\ s \in Seq(MessageRow)
               /\ \A i \in DOMAIN s : s[i].sources \subseteq staged
  BY DEF ChatInv, ChatTypes, ChatRowsOK, NamesMade
<1>2. \A d \in Conversations : threads'[d] = IF d = c THEN Append(s, m) ELSE threads[d]
  BY <1>1 DEF ChatInv, ChatTypes, ChatRowsOK
<1>3. \A i \in DOMAIN Append(s, m) : Append(s, m)[i] = m \/ (i \in DOMAIN s /\ Append(s, m)[i] = s[i])
  BY <1>1
<1>4. QED
  BY <1>1, <1>2, <1>3 DEF NamesMade

LEMMA NamesSafe == ChatSpec => []NamesMade
<1>1. ChatInit => NamesMade
  BY DEF ChatInit, NamesMade, Silent
<1>2. ChatInv /\ NamesMade /\ [ChatNext]_chatVars => NamesMade'
  <2> SUFFICES ASSUME ChatInv, NamesMade, [ChatNext]_chatVars
               PROVE  NamesMade'
    OBVIOUS
  <2>1. ASSUME NEW w \in Talkers, TalkStep(w)
        PROVE  NamesMade'
    <3>1. CASE UNCHANGED threads
      <4>1. staged \subseteq staged'
        BY <2>1 DEF TalkStep, OpenConversation, ReadHistory, Recall, SaveQuestion, AskProvider,
           RunToolCall, SaveReply, FinishTurn, StatementFails, AnswerLost
      <4>2. QED
        BY <2>1, <3>1, <4>1, TurnNamesMade DEF NamesMade
    <3>2. ASSUME talk[w].pc \in {"question", "reply"}, staged' = staged,
                 NEW m, m.sources \subseteq talk[w].sources, Stores(w, m)
          PROVE  NamesMade'
      <4>1. talk[w].conversation \in Conversations
        BY <3>2 DEF ChatInv, TurnFacts
      <4>2. m.sources \subseteq staged
        BY <3>2 DEF NamesMade
      <4>3. QED
        BY <2>1, <3>2, <4>1, <4>2, TurnNamesMade, ThreadNamesMade DEF NamesMade, Stores
    <3>3. CASE SaveQuestion(w) \/ SaveReply(w)
      <4>1. /\ talk[w].pc \in {"question", "reply"} /\ staged' = staged
            /\ \/ Stores(w, Question(talk[w].at))
               \/ Stores(w, Reply(talk[w].place, talk[w].sources, talk[w].at))
        BY <3>3 DEF SaveQuestion, SaveReply, Is
      <4>2. QED
        BY <3>2, <4>1 DEF Question, Reply
    <3>4. CASE AnswerLost(w)
      <4>1. /\ staged' = staged
            /\ \/ UNCHANGED threads
               \/ Is(w, "question") /\ Stores(w, Question(talk[w].at))
               \/ Is(w, "reply") /\ Stores(w, Reply(talk[w].place, talk[w].sources, talk[w].at))
        BY <3>4 DEF AnswerLost
      <4>2. QED
        BY <3>1, <3>2, <4>1 DEF Question, Reply, Is
    <3>5. QED
      BY <2>1, <3>1, <3>3, <3>4 DEF TalkStep, OpenConversation, ReadHistory, Recall, AskProvider,
         RunToolCall, FinishTurn, StatementFails
  <2>2. ASSUME NEW w \in Talkers, NEW u \in Candidates, NEW c \in {NOBODY} \cup Conversations,
               Chat(w, u, c)
        PROVE  NamesMade'
    <3>1. \A v \in Talkers : talk'[v].sources \subseteq staged
      BY <2>2 DEF Chat, ChatInv, ChatTypes, NamesMade, Silent
    <3>2. QED
      BY <2>2, <3>1 DEF Chat, NamesMade
  <2>3. CASE ChatCrash
    BY <2>3 DEF ChatCrash, NamesMade, Silent
  <2>4. CASE UNCHANGED <<threads, staged, talk>>
    BY <2>4 DEF NamesMade
  <2>5. QED
    BY <2>1, <2>2, <2>3, <2>4
    DEF ChatNext, ChatStep, ChatArrive, IndexTurn, chatVars
<1>3. QED
  BY <1>1, <1>2, ChatSafe, PTL DEF ChatSpec

(* The tables and the locals of every turn keep their types, and a reply     *)
(* names only proposals that were made.                                    *)
THEOREM ChatTypesSafe == ChatSpec => []ChatTypeOK
<1>1. ChatInv /\ NamesMade => ChatTypeOK
  <2> SUFFICES ASSUME ChatInv, NamesMade
               PROVE  ChatTypeOK
    OBVIOUS
  <2>1. ASSUME NEW c \in Conversations
        PROVE  threads[c] \in
                  Seq([role : {"user", "assistant"}, answers : Nat, sources : SUBSET staged,
                       at : Nat])
    <3> DEFINE Row == [role : {"user", "assistant"}, answers : Nat, sources : SUBSET staged,
                       at : Nat]
    <3>1. PICK s \in Seq(MessageRow) : s = threads[c]
      BY DEF ChatInv, ChatTypes, ChatRowsOK
    <3>2. Len(s) \in Nat /\ DOMAIN s = 1 .. Len(s) /\ s \in [1 .. Len(s) -> MessageRow]
      BY LenProperties
    <3>3. \A i \in 1 .. Len(s) : s[i] \in Row
      BY <3>1, <3>2 DEF MessageRow, NamesMade
    <3>4. s \in [1 .. Len(s) -> Row]
      BY <3>2, <3>3
    <3> HIDE DEF Row
    <3>5. s \in Seq(Row)
      <4>1. Seq(Row) = UNION {[1 .. n -> Row] : n \in Nat}
        BY SeqDef
      <4>2. PICK n \in Nat : n = Len(s)
        BY <3>2
      <4>3. [1 .. n -> Row] \in {[1 .. k -> Row] : k \in Nat}
        OBVIOUS
      <4>4. QED
        BY <3>4, <4>1, <4>2, <4>3
    <3>6. QED
      BY <3>1, <3>5 DEF Row
  <2>2. QED
    BY <2>1 DEF ChatInv, ChatTypes, ChatRowsOK, ChatTypeOK
<1>2. QED
  BY <1>1, ChatSafe, NamesSafe, PTL

-----------------------------------------------------------------------------
(* The seed.                                                               *)

SeedPC == {"idle", "find", "create", "grant", "done", "died"}

(* The history is read only as far as the seed writes it.                   *)
SeedInv ==
    /\ seeding \in [Seeders -> SeedPC]
    /\ past = [feeds |-> past.feeds, overlapped |-> past.overlapped, seedDied |-> past.seedDied]
    /\ BareAccountHasCause

LEMMA SeederSteps ==
  ASSUME SeedInv, NEW s \in Seeders,
         SeedTables(s) \/ FindAdmin(s) \/ CreateAdmin(s) \/ GrantRole(s) \/ SeedDies(s)
  PROVE  SeedInv'
<1>1. ASSUME NEW from, NEW to \in SeedPC, SeedStep(s, from, to)
      PROVE  /\ seeding' \in [Seeders -> SeedPC]
             /\ seeding[s] = from /\ seeding'[s] = to
             /\ \A other \in Seeders \ {s} : seeding'[other] = seeding[other]
  BY <1>1 DEF SeedStep, SeedInv
<1>2. CASE SeedTables(s)
  <2>1. SeedStep(s, "idle", "find") /\ UNCHANGED <<account, past>>
    BY <1>2 DEF SeedTables
  <2>2. QED
    BY <1>1, <2>1 DEF SeedInv, SeedPC, BareAccountHasCause
<1>3. CASE FindAdmin(s)
  <2>1. PICK to \in {"create", "done"} : SeedStep(s, "find", to) /\ UNCHANGED <<account, past>>
    BY <1>3 DEF FindAdmin
  <2>2. QED
    BY <1>1, <2>1 DEF SeedInv, SeedPC, BareAccountHasCause
<1>4. CASE CreateAdmin(s)
  <2>1. \/ SeedStep(s, "create", "grant") /\ account' = "bare"
        \/ SeedStep(s, "create", "died") /\ UNCHANGED account
    BY <1>4 DEF CreateAdmin
  <2>2. past' = past
    BY <1>4 DEF CreateAdmin
  <2>3. CASE SeedStep(s, "create", "grant")
    BY <1>1, <2>2, <2>3 DEF SeedInv, SeedPC, BareAccountHasCause
  <2>4. CASE SeedStep(s, "create", "died") /\ UNCHANGED account
    BY <1>1, <2>2, <2>4 DEF SeedInv, SeedPC, BareAccountHasCause
  <2>5. QED
    BY <2>1, <2>3, <2>4
<1>5. CASE GrantRole(s)
  <2>1. SeedStep(s, "grant", "done") /\ account' = "complete" /\ past' = past
    BY <1>5 DEF GrantRole
  <2>2. QED
    BY <1>1, <2>1 DEF SeedInv, SeedPC, BareAccountHasCause
<1>6. CASE SeedDies(s)
  <2>1. PICK pc \in {"find", "create", "grant"} : SeedStep(s, pc, "died")
    BY <1>6 DEF SeedDies
  <2>2. /\ past' = [past EXCEPT !.seedDied = @ \/ seeding[s] = "grant"]
        /\ account' = account
    BY <1>6 DEF SeedDies
  <2>3. /\ past' = [feeds |-> past'.feeds, overlapped |-> past'.overlapped,
                    seedDied |-> past'.seedDied]
        /\ past'.seedDied = (past.seedDied \/ seeding[s] = "grant")
    BY <2>2 DEF SeedInv
  <2>4. BareAccountHasCause'
    BY <1>1, <2>1, <2>2, <2>3 DEF SeedInv, SeedPC, BareAccountHasCause
  <2>5. QED
    BY <1>1, <2>1, <2>3, <2>4 DEF SeedInv, SeedPC
<1>7. QED
  BY <1>2, <1>3, <1>4, <1>5, <1>6

LEMMA LoaderSteps ==
  ASSUME SeedInv, LoadNext
  PROVE  SeedInv'
<1>1. UNCHANGED seedVars
  BY DEF LoadNext, StartLoad, UpsertCountry, ReadCities, InsertCities, ReadSheet, UpsertCategory,
     StartMajors, UpsertMajor, ReadPlaces, UpsertInstitution, Verify, BreakOff, UnchangedTables
<1>2. \/ past' = past
      \/ \E feed : past' = [past EXCEPT !.feeds = @ \cup {feed}]
      \/ \E b : past' = [past EXCEPT !.overlapped = b]
  BY DEF LoadNext, StartLoad, UpsertCountry, ReadCities, InsertCities, ReadSheet, UpsertCategory,
     StartMajors, UpsertMajor, ReadPlaces, UpsertInstitution, Verify, BreakOff, UnchangedTables
<1>3. /\ past' = [feeds |-> past'.feeds, overlapped |-> past'.overlapped,
                  seedDied |-> past'.seedDied]
      /\ past'.seedDied = past.seedDied
  BY <1>2 DEF SeedInv
<1>4. QED
  BY <1>1, <1>3 DEF SeedInv, BareAccountHasCause, seedVars

LEMMA SeedSafe == ReferenceSpec => []SeedInv
<1>1. ReferenceInit => SeedInv
  BY DEF ReferenceInit, SeedInv, SeedPC, BareAccountHasCause
<1>2. SeedInv /\ [ReferenceNext]_referenceVars => SeedInv'
  <2> SUFFICES ASSUME SeedInv, [ReferenceNext]_referenceVars
               PROVE  SeedInv'
    OBVIOUS
  <2>1. CASE UNCHANGED referenceVars
    BY <2>1 DEF referenceVars, seedVars, SeedInv, BareAccountHasCause
  <2>2. QED
    BY <2>1, SeederSteps, LoaderSteps DEF ReferenceNext, SeedNext
<1>3. QED
  BY <1>1, <1>2, PTL DEF ReferenceSpec

(* An administrator without a role is left by a run of the seed that died,   *)
(* or one is about to grant it.                                            *)
THEOREM BareAccount == ReferenceSpec => []BareAccountHasCause
<1>1. SeedInv => BareAccountHasCause
  BY DEF SeedInv
<1>2. QED
  BY <1>1, SeedSafe, PTL

-----------------------------------------------------------------------------
(* The loader.  Each action has a lemma that says what it does to the run   *)
(* and to the tables (StartLoadIs ... EndIs); the three invariants,        *)
(* LoadTypes, LoadedInv and CauseInv, are proved from these.               *)

LoadShapes ==
    /\ DOMAIN load = Loaders
    /\ \A l \in Loaders : load[l] = [pc |-> load[l].pc, feed |-> load[l].feed,
           sample |-> load[l].sample, todo |-> load[l].todo, after |-> load[l].after]

(* What a run has still to write, and has prepared to write later.          *)
ItemsTyped(l) ==
    /\ load[l].sample \in BOOLEAN
    /\ IF At(l, "idle") THEN ~load[l].sample ELSE load[l].feed \in Feeds
    /\ At(l, "countries") => load[l].todo \subseteq Countries
    /\ At(l, "cities") => load[l].todo \subseteq City
    /\ At(l, "categories") => \A m \in load[l].after : m.code \in MajorCodes
    /\ At(l, "majors") => \A m \in load[l].todo : m.code \in MajorCodes
    /\ At(l, "institutions") =>
          \A i \in load[l].todo : i.id \in Institutes /\ i.country \in Countries

LoadTypes ==
    /\ LoadShapes
    /\ ReferenceTypeOK
    /\ \A l \in Loaders : ItemsTyped(l)

Others(l) == \A m \in Loaders \ {l} : load'[m] = load[m]

LEMMA Shape ==
  ASSUME LoadShapes, NEW l \in Loaders
  PROVE  \E pc, feed, sample, todo, after : load[l] =
             [pc |-> pc, feed |-> feed, sample |-> sample, todo |-> todo, after |-> after]
BY DEF LoadShapes

LEMMA GotoIs ==
  ASSUME LoadShapes, NEW l \in Loaders, NEW pc, NEW todo, Goto(l, pc, todo)
  PROVE  /\ LoadShapes' /\ Others(l)
         /\ load'[l].pc = pc /\ load'[l].todo = todo /\ load'[l].after = load[l].after
         /\ load'[l].feed = load[l].feed /\ load'[l].sample = load[l].sample
<1>1. load' = [load EXCEPT ![l] = [load[l] EXCEPT !.pc = pc, !.todo = todo]]
  BY DEF Goto, LoadShapes
<1>2. load'[l] = [pc |-> pc, feed |-> load[l].feed, sample |-> load[l].sample,
                  todo |-> todo, after |-> load[l].after]
  <2>1. PICK p, f, s, t, a :
            load[l] = [pc |-> p, feed |-> f, sample |-> s, todo |-> t, after |-> a]
    BY Shape
  <2>2. load'[l] = [load[l] EXCEPT !.pc = pc, !.todo = todo]
    BY <1>1 DEF LoadShapes
  <2>3. QED
    BY <2>1, <2>2
<1>3. DOMAIN load' = Loaders /\ Others(l)
  BY <1>1 DEF LoadShapes, Others
<1>4. LoadShapes'
  BY <1>2, <1>3 DEF LoadShapes, Others
<1>5. QED
  BY <1>2, <1>3, <1>4

LEMMA StartLoadIs ==
  ASSUME LoadShapes, NEW l \in Loaders, StartLoad(l)
  PROVE  \E feed \in Feeds, sample \in BOOLEAN :
         /\ LoadShapes' /\ Others(l) /\ At(l, "idle")
         /\ load'[l] = [pc |-> "countries", feed |-> feed, sample |-> sample,
                        todo |-> SomeCountries(feed, sample), after |-> {}]
         /\ past' = [past EXCEPT !.feeds = @ \cup {feed}]
         /\ tables' = tables /\ seedVars' = seedVars
<1>1. PICK feed \in Feeds, sample \in {"sample" \in DeployCalls, FALSE} :
          /\ load' = [load EXCEPT ![l] =
                 [Unloaded EXCEPT !.pc = "countries", !.feed = feed, !.sample = sample,
                                 !.todo = SomeCountries(feed, sample)]]
          /\ past' = [past EXCEPT !.feeds = @ \cup {feed}]
  BY DEF StartLoad
<1>2. load'[l] = [pc |-> "countries", feed |-> feed, sample |-> sample,
                  todo |-> SomeCountries(feed, sample), after |-> {}]
  BY <1>1 DEF LoadShapes, Unloaded
<1>3. DOMAIN load' = Loaders /\ Others(l)
  BY <1>1 DEF LoadShapes, Others
<1>4. LoadShapes'
  BY <1>2, <1>3 DEF LoadShapes, Others
<1>5. At(l, "idle") /\ tables' = tables /\ seedVars' = seedVars
  BY DEF StartLoad, UnchangedTables
<1>6. sample \in BOOLEAN
  <2>1. ("sample" \in DeployCalls) \in BOOLEAN
    OBVIOUS
  <2>2. QED
    BY <2>1
<1>7. QED
  BY <1>1, <1>2, <1>3, <1>4, <1>5, <1>6

LEMMA ReadSheetIs ==
  ASSUME LoadShapes, NEW l \in Loaders, ReadSheet(l)
  PROVE  /\ LoadShapes' /\ Others(l) /\ At(l, "cities") /\ load[l].todo = {}
         /\ load'[l].pc = "categories"
         /\ load'[l].todo = {load[l].feed.sheet[k].title :
                                k \in NewCategories(load[l].feed.sheet, load[l].sample)}
         /\ load'[l].after = NewMajors(load[l].feed.sheet, load[l].sample)
         /\ load'[l].feed = load[l].feed /\ load'[l].sample = load[l].sample
         /\ tables' = tables /\ past' = past /\ seedVars' = seedVars
<1> DEFINE titles == {load[l].feed.sheet[k].title :
                         k \in NewCategories(load[l].feed.sheet, load[l].sample)}
           rows == NewMajors(load[l].feed.sheet, load[l].sample)
<1> HIDE DEF titles, rows
<1>1. load' = [load EXCEPT ![l] =
          [load[l] EXCEPT !.pc = "categories", !.todo = titles, !.after = rows]]
  BY DEF ReadSheet, LoadShapes, titles, rows
<1>2. load'[l] = [pc |-> "categories", feed |-> load[l].feed, sample |-> load[l].sample,
                  todo |-> titles, after |-> rows]
  <2>1. PICK p, f, s, t, a :
            load[l] = [pc |-> p, feed |-> f, sample |-> s, todo |-> t, after |-> a]
    BY Shape
  <2>2. load'[l] = [load[l] EXCEPT !.pc = "categories", !.todo = titles, !.after = rows]
    BY <1>1 DEF LoadShapes
  <2>3. QED
    BY <2>1, <2>2
<1>3. DOMAIN load' = Loaders /\ Others(l)
  BY <1>1 DEF LoadShapes, Others
<1>4. LoadShapes'
  BY <1>2, <1>3 DEF LoadShapes, Others
<1>5. /\ At(l, "cities") /\ load[l].todo = {}
      /\ tables' = tables /\ past' = past /\ seedVars' = seedVars
  BY DEF ReadSheet, UnchangedTables
<1>6. QED
  BY <1>2, <1>3, <1>4, <1>5 DEF titles, rows

LEMMA StartMajorsIs ==
  ASSUME LoadShapes, NEW l \in Loaders, StartMajors(l)
  PROVE  /\ LoadShapes' /\ Others(l) /\ At(l, "categories") /\ load[l].todo = {}
         /\ load'[l].pc = "majors" /\ load'[l].todo = load[l].after /\ load'[l].after = {}
         /\ load'[l].feed = load[l].feed /\ load'[l].sample = load[l].sample
         /\ tables' = tables /\ past' = past /\ seedVars' = seedVars
<1>1. load' = [load EXCEPT ![l] =
          [load[l] EXCEPT !.pc = "majors", !.todo = load[l].after, !.after = {}]]
  BY DEF StartMajors, LoadShapes
<1>2. load'[l] = [pc |-> "majors", feed |-> load[l].feed, sample |-> load[l].sample,
                  todo |-> load[l].after, after |-> {}]
  <2>1. PICK p, f, s, t, a :
            load[l] = [pc |-> p, feed |-> f, sample |-> s, todo |-> t, after |-> a]
    BY Shape
  <2>2. load'[l] = [load[l] EXCEPT !.pc = "majors", !.todo = load[l].after, !.after = {}]
    BY <1>1 DEF LoadShapes
  <2>3. QED
    BY <2>1, <2>2
<1>3. DOMAIN load' = Loaders /\ Others(l)
  BY <1>1 DEF LoadShapes, Others
<1>4. LoadShapes'
  BY <1>2, <1>3 DEF LoadShapes, Others
<1>5. /\ At(l, "categories") /\ load[l].todo = {}
      /\ tables' = tables /\ past' = past /\ seedVars' = seedVars
  BY DEF StartMajors, UnchangedTables
<1>6. QED
  BY <1>2, <1>3, <1>4, <1>5

LEMMA FirstOfPart ==
  ASSUME NEW sample, NEW part, NEW passing
  PROVE  /\ FirstOf(sample, part, passing) \subseteq passing
         /\ ~sample => FirstOf(sample, part, passing) = passing
BY DEF FirstOf

LEMMA SomeCountriesTyped ==
  ASSUME NEW feed \in Feeds, NEW sample
  PROVE  /\ SomeCountries(feed, sample) \subseteq Countries
         /\ ~sample => SomeCountries(feed, sample) = ToSet(feed.countries)
<1>1. feed.countries \in Seq(Countries)
  BY FeedsAssumption
<1>2. QED
  BY <1>1, FirstOfPart DEF SomeCountries, ToSet

LEMMA NewCitiesTyped ==
  ASSUME NEW l \in Loaders, load[l].feed \in Feeds, cities \in [City -> Nat]
  PROVE  /\ NewCities(l) \subseteq City
         /\ \A city \in NewCities(l) : cities[city] = 0
         /\ ~load[l].sample => \A city \in ToSet(load[l].feed.cities) :
               city[2] \in countries => city \in NewCities(l) \/ cities[city] > 0
<1> DEFINE rows == load[l].feed.cities
           known == {k \in DOMAIN rows : rows[k][2] \in countries}
           first == FirstOf(load[l].sample, "cities", known)
<1>1. rows \in Seq(City)
  BY FeedsAssumption DEF City
<1>2. NewCities(l) = {rows[k] : k \in {k \in first : cities[rows[k]] = 0}}
  BY DEF NewCities
<1>3. first \subseteq known /\ (~load[l].sample => first = known)
  BY FirstOfPart
<1> HIDE DEF first
<1>4. \A k \in known : rows[k] \in City /\ cities[rows[k]] \in Nat
  BY <1>1
<1>5. QED
  BY <1>2, <1>3, <1>4 DEF ToSet

LEMMA NewMajorsAre ==
  ASSUME NEW sheet, NEW sample
  PROVE  /\ NewMajors(sheet, sample) \subseteq
               {MajorAt(sheet, sample, k) : k \in Unseen(sheet, sample)}
         /\ ~sample => NewMajors(sheet, sample) =
               {MajorAt(sheet, sample, k) : k \in Unseen(sheet, sample)}
<1> DEFINE unseen == Unseen(sheet, sample)
           Fellows(k) == {j \in unseen : /\ j <= k
                             /\ CategoryOf(sheet, sample, j) = CategoryOf(sheet, sample, k)}
           some == {k \in unseen :
                       sample => Cardinality(Fellows(k)) <= SampleSize["majorsOfCategory"]}
<1>1. NewMajors(sheet, sample) =
         {MajorAt(sheet, sample, k) : k \in FirstOf(sample, "majors", some)}
  BY DEF NewMajors
<1>2. some \subseteq unseen /\ (~sample => some = unseen)
  OBVIOUS
<1> HIDE DEF some
<1>3. /\ FirstOf(sample, "majors", some) \subseteq some
      /\ ~sample => FirstOf(sample, "majors", some) = some
  BY FirstOfPart
<1>4. QED
  BY <1>1, <1>2, <1>3

LEMMA NewMajorsTyped ==
  ASSUME NEW feed \in Feeds, NEW sample, NEW m \in NewMajors(feed.sheet, sample)
  PROVE  m.code \in MajorCodes
<1>1. PICK k \in Unseen(feed.sheet, sample) : m = MajorAt(feed.sheet, sample, k)
  BY NewMajorsAre
<1>2. k \in DOMAIN feed.sheet /\ feed.sheet[k].kind = "major"
  BY DEF Unseen, MajorRows
<1>3. QED
  BY <1>1, <1>2, FeedsAssumption DEF MajorAt

(* A place is none, or one that was seen, of the country.                   *)
InSeen(place, country, seen) == place = NOWHERE \/ (place \in seen /\ place[2] = country)

LEMMA PlacedTyped ==
  ASSUME NEW l \in Loaders, load[l].feed \in Feeds, NEW seen, NEW first,
         \A co \in Countries : InSeen(first[co], co, seen)
  PROVE  /\ \A i \in Placed(l, seen, first) :
               /\ i.id \in Institutes /\ i.country \in Countries
               /\ i = [id |-> i.id, country |-> i.country, city |-> i.city]
               /\ InSeen(i.city, i.country, seen)
         /\ ~load[l].sample => \A i \in ToSet(load[l].feed.institutions) :
               i.country \in countries => \E row \in Placed(l, seen, first) : row.id = i.id
<1> DEFINE rows == load[l].feed.institutions
           usable == {k \in DOMAIN rows :
                        /\ rows[k].country \in countries
                        /\ load[l].sample => PlaceOf(l, rows[k], seen, first) # NOWHERE}
           some == FirstOf(load[l].sample, "institutions", usable)
           RowAt(k) == [id |-> rows[k].id, country |-> rows[k].country,
                      city |-> PlaceOf(l, rows[k], seen, first)]
<1>1. Placed(l, seen, first) = {RowAt(k) : k \in some}
  BY DEF Placed
<1>2. some \subseteq usable /\ (~load[l].sample => some = usable)
  BY FirstOfPart
<1> HIDE DEF some
<1>3. \A k \in DOMAIN rows : rows[k].id \in Institutes /\ rows[k].country \in Countries
  BY FeedsAssumption DEF ToSet
<1>4. ASSUME NEW k \in DOMAIN rows
      PROVE  InSeen(PlaceOf(l, rows[k], seen, first), rows[k].country, seen)
  <2>1. InSeen(first[rows[k].country], rows[k].country, seen)
    BY <1>3
  <2>2. <<rows[k].province, rows[k].country>>[2] = rows[k].country
    OBVIOUS
  <2>3. QED
    BY <2>1, <2>2 DEF PlaceOf, InSeen
<1>5. ASSUME NEW i \in Placed(l, seen, first)
      PROVE  /\ i.id \in Institutes /\ i.country \in Countries
             /\ i = [id |-> i.id, country |-> i.country, city |-> i.city]
             /\ InSeen(i.city, i.country, seen)
  <2>1. PICK k \in usable : i = RowAt(k)
    BY <1>1, <1>2
  <2>2. /\ i.id = rows[k].id /\ i.country = rows[k].country
        /\ i.city = PlaceOf(l, rows[k], seen, first)
        /\ i = [id |-> i.id, country |-> i.country, city |-> i.city]
    BY <2>1
  <2>3. QED
    BY <1>3, <1>4, <2>2
<1>6. ASSUME ~load[l].sample, NEW i \in ToSet(rows), i.country \in countries
      PROVE  \E row \in Placed(l, seen, first) : row.id = i.id
  <2>1. PICK k \in DOMAIN rows : i = rows[k]
    BY <1>6 DEF ToSet
  <2>2. k \in some
    BY <1>2, <1>6, <2>1
  <2>3. RowAt(k) \in Placed(l, seen, first) /\ RowAt(k).id = i.id
    BY <1>1, <2>1, <2>2
  <2>4. QED
    BY <2>3
<1>7. QED
  BY <1>5, <1>6

LEMMA ReadPlacesIs ==
  ASSUME LoadTypes, NEW l \in Loaders, ReadPlaces(l)
  PROVE  \E todo :
         /\ LoadShapes' /\ Others(l) /\ At(l, "majors") /\ load[l].todo = {}
         /\ load'[l].pc = "institutions" /\ load'[l].todo = todo
         /\ load'[l].feed = load[l].feed /\ load'[l].sample = load[l].sample
         /\ tables' = tables /\ past' = past /\ seedVars' = seedVars
         /\ \A i \in todo :
               /\ i.id \in Institutes /\ i.country \in Countries
               /\ InSeen(i.city, i.country, {c \in City : cities[c] > 0})
         /\ ~load[l].sample => \A i \in ToSet(load[l].feed.institutions) :
               i.country \in countries => \E row \in todo : row.id = i.id
<1> DEFINE present == {c \in City : cities[c] > 0}
<1> DEFINE Firsts(first, seen) ==
           \A co \in Countries :
              IF \E c \in seen : c[2] = co THEN first[co] \in seen /\ first[co][2] = co
              ELSE first[co] = NOWHERE
<1>1. PICK seen \in SUBSET present :
         \E first \in [Countries -> {NOWHERE} \cup seen] :
            Firsts(first, seen) /\ Goto(l, "institutions", Placed(l, seen, first))
  BY Zenon DEF ReadPlaces
<1>2. PICK first \in [Countries -> {NOWHERE} \cup seen] :
          Firsts(first, seen) /\ Goto(l, "institutions", Placed(l, seen, first))
  BY <1>1
<1>3. /\ At(l, "majors") /\ load[l].todo = {}
      /\ tables' = tables /\ past' = past /\ seedVars' = seedVars
  BY DEF ReadPlaces, UnchangedTables
<1>4. \A co \in Countries : InSeen(first[co], co, seen)
  BY <1>2 DEF InSeen
<1>5. load[l].feed \in Feeds
  BY <1>3 DEF LoadTypes, ItemsTyped, At
<1> DEFINE todo == Placed(l, seen, first)
<1>6. /\ \A i \in todo :
            /\ i.id \in Institutes /\ i.country \in Countries
            /\ InSeen(i.city, i.country, seen)
      /\ ~load[l].sample => \A i \in ToSet(load[l].feed.institutions) :
            i.country \in countries => \E row \in todo : row.id = i.id
  BY <1>4, <1>5, PlacedTyped
<1>7. Goto(l, "institutions", todo)
  BY <1>2
<1> HIDE DEF todo
<1>8. LoadShapes /\ LoadShapes'
  BY <1>7, GotoIs DEF LoadTypes
<1>9. /\ Others(l) /\ load'[l].pc = "institutions" /\ load'[l].todo = todo
      /\ load'[l].feed = load[l].feed /\ load'[l].sample = load[l].sample
  BY <1>7, <1>8, GotoIs
<1>10. \A i \in todo : InSeen(i.city, i.country, present)
  BY <1>6 DEF InSeen
<1>11. QED
  BY <1>3, <1>6, <1>8, <1>9, <1>10
(* A statement of run l that leaves it at pc.                               *)
Step(l, pc) ==
    /\ LoadShapes' /\ Others(l) /\ load'[l].pc = pc
    /\ load'[l].feed = load[l].feed /\ load'[l].sample = load[l].sample
    /\ seedVars' = seedVars

LEMMA UpsertCountryIs ==
  ASSUME LoadShapes, NEW l \in Loaders, UpsertCountry(l)
  PROVE  \E country \in load[l].todo :
         /\ Step(l, "countries") /\ At(l, "countries")
         /\ load'[l].todo = load[l].todo \ {country}
         /\ countries' = countries \cup {country}
         /\ UNCHANGED <<cities, categories, majors, institutions, past>>
BY GotoIs DEF UpsertCountry, UnchangedTables, Step

LEMMA ReadCitiesIs ==
  ASSUME LoadShapes, NEW l \in Loaders, ReadCities(l)
  PROVE  /\ Step(l, "cities") /\ At(l, "countries") /\ load[l].todo = {}
         /\ load'[l].todo = NewCities(l)
         /\ past' = [past EXCEPT !.overlapped = @ \/ Overlapping(l)]
         /\ UNCHANGED <<countries, cities, categories, majors, institutions>>
BY GotoIs DEF ReadCities, UnchangedTables, Step, tables

LEMMA InsertCitiesIs ==
  ASSUME LoadShapes, NEW l \in Loaders, InsertCities(l)
  PROVE  \E batch \in SUBSET load[l].todo :
         /\ Step(l, "cities") /\ At(l, "cities")
         /\ load'[l].todo = load[l].todo \ batch
         /\ cities' = [c \in City |-> cities[c] + (IF c \in batch THEN 1 ELSE 0)]
         /\ UNCHANGED <<countries, categories, majors, institutions, past>>
BY GotoIs DEF InsertCities, UnchangedTables, Step

LEMMA UpsertCategoryIs ==
  ASSUME LoadShapes, NEW l \in Loaders, UpsertCategory(l)
  PROVE  \E title \in load[l].todo :
         /\ Step(l, "categories") /\ At(l, "categories")
         /\ load'[l].todo = load[l].todo \ {title} /\ load'[l].after = load[l].after
         /\ categories' = categories \cup {title}
         /\ UNCHANGED <<countries, cities, majors, institutions, past>>
BY GotoIs DEF UpsertCategory, UnchangedTables, Step

LEMMA UpsertMajorIs ==
  ASSUME LoadShapes, NEW l \in Loaders, UpsertMajor(l)
  PROVE  \E major \in load[l].todo :
         /\ Step(l, "majors") /\ At(l, "majors")
         /\ load'[l].todo = load[l].todo \ {major}
         /\ majors' = Upserted(majors, major.code,
                               [title |-> major.title, category |-> major.category])
         /\ UNCHANGED <<countries, cities, categories, institutions, past>>
BY GotoIs DEF UpsertMajor, UnchangedTables, Step

LEMMA UpsertInstitutionIs ==
  ASSUME LoadShapes, NEW l \in Loaders, UpsertInstitution(l)
  PROVE  \E inst \in load[l].todo :
         /\ Step(l, "institutions") /\ At(l, "institutions")
         /\ load'[l].todo = load[l].todo \ {inst}
         /\ institutions' = Upserted(institutions, inst.id,
                                     [country |-> inst.country, city |-> inst.city])
         /\ UNCHANGED <<countries, cities, categories, majors, past>>
BY GotoIs DEF UpsertInstitution, UnchangedTables, Step

LEMMA EndIs ==
  ASSUME LoadShapes, NEW l \in Loaders, Verify(l) \/ BreakOff(l)
  PROVE  \E pc :
         /\ Step(l, pc) /\ load'[l].todo = {}
         /\ \/ pc = "refused" /\ (RepeatedCity \/ RepeatedMajor)
            \/ pc = "done" /\ At(l, "institutions") /\ load[l].todo = {}
            \/ pc = "broken"
         /\ ~At(l, "idle")
         /\ UNCHANGED <<countries, cities, categories, majors, institutions, past>>
<1>1. CASE Verify(l)
  <2>1. CASE RepeatedCity \/ RepeatedMajor
    <3>1. Goto(l, "refused", {})
      BY <1>1, <2>1 DEF Verify
    <3>2. QED
      BY <1>1, <2>1, <3>1, GotoIs DEF Verify, UnchangedTables, Step, tables, At
  <2>2. CASE ~(RepeatedCity \/ RepeatedMajor)
    <3>1. Goto(l, "done", {})
      BY <1>1, <2>2 DEF Verify
    <3>2. QED
      BY <1>1, <2>2, <3>1, GotoIs DEF Verify, UnchangedTables, Step, tables, At
  <2>3. QED
    BY <2>1, <2>2
<1>2. CASE BreakOff(l)
  BY <1>2, GotoIs DEF BreakOff, UnchangedTables, Step, tables, At, Ended
<1>3. QED
  BY <1>1, <1>2

LEMMA TypesStep ==
  ASSUME LoadTypes, NEW l \in Loaders,
         \/ StartLoad(l) \/ UpsertCountry(l) \/ ReadCities(l) \/ InsertCities(l) \/ ReadSheet(l)
         \/ UpsertCategory(l) \/ StartMajors(l) \/ UpsertMajor(l) \/ ReadPlaces(l)
         \/ UpsertInstitution(l) \/ Verify(l) \/ BreakOff(l)
  PROVE  LoadTypes'
<1>1. LoadShapes /\ ReferenceTypeOK /\ \A m \in Loaders : ItemsTyped(m)
  BY DEF LoadTypes
<1>2. ASSUME Others(l), NEW m \in Loaders \ {l}
      PROVE  ItemsTyped(m)' /\ load'[m].feed \in {NOWHERE} \cup Feeds
  BY <1>1, <1>2 DEF Others, ItemsTyped, At, ReferenceTypeOK
<1>3. ASSUME LoadShapes', Others(l), ItemsTyped(l)', load'[l].feed \in {NOWHERE} \cup Feeds,
             countries' \subseteq Countries, cities' \in [City -> Nat],
             DOMAIN majors' \subseteq MajorCodes, DOMAIN institutions' \subseteq Institutes,
             \A i \in DOMAIN institutions' : institutions'[i].country \in Countries,
             account' = account
      PROVE  LoadTypes'
  BY <1>1, <1>2, <1>3 DEF LoadTypes, ReferenceTypeOK
<1>4. /\ countries \subseteq Countries /\ cities \in [City -> Nat]
      /\ DOMAIN majors \subseteq MajorCodes /\ DOMAIN institutions \subseteq Institutes
      /\ \A i \in DOMAIN institutions : institutions[i].country \in Countries
      /\ load[l].feed \in {NOWHERE} \cup Feeds
      /\ load[l].sample \in BOOLEAN
      /\ ~At(l, "idle") => load[l].feed \in Feeds
  BY <1>1 DEF ReferenceTypeOK, ItemsTyped
<1>5. CASE StartLoad(l)
  <2>1. PICK feed \in Feeds, sample \in BOOLEAN :
           /\ LoadShapes' /\ Others(l)
           /\ load'[l] = [pc |-> "countries", feed |-> feed, sample |-> sample,
                          todo |-> SomeCountries(feed, sample), after |-> {}]
           /\ tables' = tables /\ seedVars' = seedVars
    BY <1>1, <1>5, StartLoadIs
  <2>2. ItemsTyped(l)' /\ load'[l].feed \in Feeds
    BY <2>1, SomeCountriesTyped DEF ItemsTyped, At
  <2>3. QED
    BY <1>3, <1>4, <2>1, <2>2 DEF tables, seedVars
<1>6. CASE UpsertCountry(l)
  <2>1. PICK country \in load[l].todo :
         /\ Step(l, "countries") /\ At(l, "countries")
         /\ load'[l].todo = load[l].todo \ {country}
         /\ countries' = countries \cup {country}
         /\ UNCHANGED <<cities, categories, majors, institutions, past>>
    BY <1>1, <1>6, UpsertCountryIs
  <2>2. load[l].todo \subseteq Countries /\ load[l].feed \in Feeds
    BY <1>1, <2>1 DEF ItemsTyped, At
  <2>3. ItemsTyped(l)'
    BY <1>4, <2>1, <2>2 DEF ItemsTyped, At, Step
  <2>4. QED
    BY <1>3, <1>4, <2>1, <2>2, <2>3 DEF Step, seedVars
<1>7. CASE ReadCities(l)
  <2>1. /\ Step(l, "cities") /\ At(l, "countries")
        /\ load'[l].todo = NewCities(l)
        /\ UNCHANGED <<countries, cities, categories, majors, institutions>>
    BY <1>1, <1>7, ReadCitiesIs
  <2>2. load[l].feed \in Feeds
    BY <1>1, <2>1 DEF ItemsTyped, At
  <2>3. ItemsTyped(l)'
    BY <1>4, <2>1, <2>2, NewCitiesTyped DEF ItemsTyped, At, Step
  <2>4. QED
    BY <1>3, <1>4, <2>1, <2>2, <2>3 DEF Step, seedVars
<1>8. CASE InsertCities(l)
  <2>1. PICK batch \in SUBSET load[l].todo :
         /\ Step(l, "cities") /\ At(l, "cities")
         /\ load'[l].todo = load[l].todo \ batch
         /\ cities' = [c \in City |-> cities[c] + (IF c \in batch THEN 1 ELSE 0)]
         /\ UNCHANGED <<countries, categories, majors, institutions, past>>
    BY <1>1, <1>8, InsertCitiesIs
  <2>2. load[l].todo \subseteq City /\ load[l].feed \in Feeds
    BY <1>1, <2>1 DEF ItemsTyped, At
  <2>3. ItemsTyped(l)'
    BY <1>4, <2>1, <2>2 DEF ItemsTyped, At, Step
  <2>4. cities' \in [City -> Nat]
    BY <1>4, <2>1
  <2>5. QED
    BY <1>3, <1>4, <2>1, <2>2, <2>3, <2>4 DEF Step, seedVars
<1>9. CASE ReadSheet(l)
  <2>1. /\ LoadShapes' /\ Others(l) /\ At(l, "cities")
        /\ load'[l].pc = "categories"
        /\ load'[l].after = NewMajors(load[l].feed.sheet, load[l].sample)
        /\ load'[l].feed = load[l].feed /\ load'[l].sample = load[l].sample
        /\ tables' = tables /\ seedVars' = seedVars
    BY <1>1, <1>9, ReadSheetIs
  <2>2. load[l].feed \in Feeds
    BY <1>1, <2>1 DEF ItemsTyped, At
  <2>3. ItemsTyped(l)'
    BY <1>4, <2>1, <2>2, NewMajorsTyped DEF ItemsTyped, At
  <2>4. QED
    BY <1>3, <1>4, <2>1, <2>2, <2>3 DEF tables, seedVars
<1>10. CASE UpsertCategory(l)
  <2>1. PICK title \in load[l].todo :
         /\ Step(l, "categories") /\ At(l, "categories")
         /\ load'[l].after = load[l].after
         /\ UNCHANGED <<countries, cities, majors, institutions, past>>
    BY <1>1, <1>10, UpsertCategoryIs
  <2>2. load[l].feed \in Feeds /\ \A m \in load[l].after : m.code \in MajorCodes
    BY <1>1, <2>1 DEF ItemsTyped, At
  <2>3. ItemsTyped(l)'
    BY <1>4, <2>1, <2>2 DEF ItemsTyped, At, Step
  <2>4. QED
    BY <1>3, <1>4, <2>1, <2>2, <2>3 DEF Step, seedVars
<1>11. CASE StartMajors(l)
  <2>1. /\ LoadShapes' /\ Others(l) /\ At(l, "categories")
        /\ load'[l].pc = "majors" /\ load'[l].todo = load[l].after
        /\ load'[l].feed = load[l].feed /\ load'[l].sample = load[l].sample
        /\ tables' = tables /\ seedVars' = seedVars
    BY <1>1, <1>11, StartMajorsIs
  <2>2. load[l].feed \in Feeds /\ \A m \in load[l].after : m.code \in MajorCodes
    BY <1>1, <2>1 DEF ItemsTyped, At
  <2>3. ItemsTyped(l)'
    BY <1>4, <2>1, <2>2 DEF ItemsTyped, At
  <2>4. QED
    BY <1>3, <1>4, <2>1, <2>2, <2>3 DEF tables, seedVars
<1>12. CASE UpsertMajor(l)
  <2>1. PICK major \in load[l].todo :
         /\ Step(l, "majors") /\ At(l, "majors")
         /\ load'[l].todo = load[l].todo \ {major}
         /\ majors' = Upserted(majors, major.code,
                               [title |-> major.title, category |-> major.category])
         /\ UNCHANGED <<countries, cities, categories, institutions, past>>
    BY <1>1, <1>12, UpsertMajorIs
  <2>2. load[l].feed \in Feeds /\ \A m \in load[l].todo : m.code \in MajorCodes
    BY <1>1, <2>1 DEF ItemsTyped, At
  <2>3. ItemsTyped(l)'
    BY <1>4, <2>1, <2>2 DEF ItemsTyped, At, Step
  <2>4. DOMAIN majors' \subseteq MajorCodes
    BY <1>4, <2>1, <2>2 DEF Upserted
  <2>5. QED
    BY <1>3, <1>4, <2>1, <2>2, <2>3, <2>4 DEF Step, seedVars
<1>13. CASE ReadPlaces(l)
  <2>1. PICK todo :
         /\ LoadShapes' /\ Others(l) /\ At(l, "majors")
         /\ load'[l].pc = "institutions" /\ load'[l].todo = todo
         /\ load'[l].feed = load[l].feed /\ load'[l].sample = load[l].sample
         /\ tables' = tables /\ seedVars' = seedVars
         /\ \A i \in todo : i.id \in Institutes /\ i.country \in Countries
    BY <1>13, ReadPlacesIs
  <2>2. load[l].feed \in Feeds
    BY <1>1, <2>1 DEF ItemsTyped, At
  <2>3. ItemsTyped(l)'
    BY <1>4, <2>1, <2>2 DEF ItemsTyped, At
  <2>4. QED
    BY <1>3, <1>4, <2>1, <2>2, <2>3 DEF tables, seedVars
<1>14. CASE UpsertInstitution(l)
  <2>1. PICK inst \in load[l].todo :
         /\ Step(l, "institutions") /\ At(l, "institutions")
         /\ load'[l].todo = load[l].todo \ {inst}
         /\ institutions' = Upserted(institutions, inst.id,
                                     [country |-> inst.country, city |-> inst.city])
         /\ UNCHANGED <<countries, cities, categories, majors, past>>
    BY <1>1, <1>14, UpsertInstitutionIs
  <2>2. /\ load[l].feed \in Feeds
        /\ \A i \in load[l].todo : i.id \in Institutes /\ i.country \in Countries
    BY <1>1, <2>1 DEF ItemsTyped, At
  <2>3. ItemsTyped(l)'
    BY <1>4, <2>1, <2>2 DEF ItemsTyped, At, Step
  <2>4. /\ DOMAIN institutions' \subseteq Institutes
        /\ \A i \in DOMAIN institutions' : institutions'[i].country \in Countries
    BY <1>4, <2>1, <2>2 DEF Upserted
  <2>5. QED
    BY <1>3, <1>4, <2>1, <2>2, <2>3, <2>4 DEF Step, seedVars
<1>15. CASE Verify(l) \/ BreakOff(l)
  <2>1. PICK pc :
         /\ Step(l, pc) /\ pc \in {"refused", "done", "broken"}
         /\ ~At(l, "idle")
         /\ UNCHANGED <<countries, cities, categories, majors, institutions, past>>
    BY <1>1, <1>15, EndIs
  <2>2. ItemsTyped(l)'
    BY <1>4, <2>1 DEF ItemsTyped, At, Step
  <2>3. QED
    BY <1>3, <1>4, <2>1, <2>2 DEF Step, seedVars
<1>16. QED
  BY <1>5, <1>6, <1>7, <1>8, <1>9, <1>10, <1>11, <1>12, <1>13, <1>14, <1>15

LEMMA LoadTypesSafe == ReferenceSpec => []LoadTypes
<1>1. ReferenceInit => LoadTypes
  <2> SUFFICES ASSUME ReferenceInit PROVE LoadTypes
    OBVIOUS
  <2>1. \A l \in Loaders : load[l] = [pc |-> "idle", feed |-> NOWHERE, sample |-> FALSE, todo |-> {},
                                      after |-> {}]
    BY DEF ReferenceInit, Unloaded
  <2>2. DOMAIN load = Loaders
    BY DEF ReferenceInit
  <2>3. LoadShapes
    BY <2>1, <2>2 DEF LoadShapes
  <2>4. \A l \in Loaders : ItemsTyped(l)
    <3>1. \A l \in Loaders : load[l].pc = "idle" /\ load[l].sample = FALSE
      BY <2>1
    <3>2. QED
      BY <3>1 DEF ItemsTyped, At
  <2>5. DOMAIN majors = {} /\ DOMAIN institutions = {}
    BY DEF ReferenceInit
  <2>6. cities \in [City -> Nat] /\ countries = {} /\ account = "none"
    BY DEF ReferenceInit
  <2>7. ReferenceTypeOK
    BY <2>1, <2>5, <2>6 DEF ReferenceTypeOK
  <2>8. QED
    BY <2>3, <2>4, <2>7 DEF LoadTypes
<1>2. LoadTypes /\ [ReferenceNext]_referenceVars => LoadTypes'
  <2> SUFFICES ASSUME LoadTypes, [ReferenceNext]_referenceVars PROVE LoadTypes'
    OBVIOUS
  <2>1. CASE LoadNext
    BY <2>1, TypesStep DEF LoadNext
  <2>2. ASSUME UNCHANGED <<tables, load>>, account' \in {"none", "bare", "complete"}
        PROVE  LoadTypes'
    BY <2>2 DEF LoadTypes, LoadShapes, ReferenceTypeOK, ItemsTyped, At, tables
  <2>3. CASE SeedNext
    <3>1. UNCHANGED <<tables, load>>
      BY <2>3 DEF SeedNext, SeedTables, FindAdmin, CreateAdmin, GrantRole, SeedDies, SeedStep
    <3>2. account' \in {"none", "bare", "complete"}
      BY <2>3 DEF SeedNext, SeedTables, FindAdmin, CreateAdmin, GrantRole, SeedDies, SeedStep,
         LoadTypes, ReferenceTypeOK
    <3>3. QED
      BY <2>2, <3>1, <3>2
  <2>4. CASE UNCHANGED referenceVars
    BY <2>2, <2>4 DEF referenceVars, tables, seedVars, LoadTypes, ReferenceTypeOK
  <2>5. QED
    BY <2>1, <2>3, <2>4 DEF ReferenceNext
<1>3. QED
  BY <1>1, <1>2, PTL DEF ReferenceSpec

(* Types of the variables, whatever the sources publish.                    *)
THEOREM ReferenceTypesSafe == ReferenceSpec => []ReferenceTypeOK
<1>1. LoadTypes => ReferenceTypeOK
  BY DEF LoadTypes
<1>2. QED
  BY <1>1, LoadTypesSafe, PTL

(* What a full run has loaded, but for the rest it still holds.            *)
CountriesIn(l, rest) == ToSet(load[l].feed.countries) \subseteq countries \cup rest
CitiesIn(l, rest) ==
    \A city \in ToSet(load[l].feed.cities) :
        city[2] \in ToSet(load[l].feed.countries) => cities[city] > 0 \/ city \in rest
CategoriesIn(l, rest) ==
    {load[l].feed.sheet[k].title : k \in NewCategories(load[l].feed.sheet, FALSE)}
        \subseteq categories \cup rest
MajorsIn(l, rest) ==
    \A m \in NewMajors(load[l].feed.sheet, FALSE) : m.code \in DOMAIN majors \/ m \in rest
InstitutionsIn(l, rest) ==
    \A i \in ToSet(load[l].feed.institutions) :
        i.country \in ToSet(load[l].feed.countries) =>
            i.id \in DOMAIN institutions \/ \E row \in rest : row.id = i.id

LoadedSoFar(l) ==
    ~load[l].sample =>
        /\ At(l, "countries") => CountriesIn(l, load[l].todo)
        /\ load[l].pc \in {"cities", "categories", "majors", "institutions", "done"} =>
              CountriesIn(l, {})
        /\ At(l, "cities") => CitiesIn(l, load[l].todo)
        /\ load[l].pc \in {"categories", "majors", "institutions", "done"} => CitiesIn(l, {})
        /\ At(l, "categories") =>
              /\ CategoriesIn(l, load[l].todo)
              /\ load[l].after = NewMajors(load[l].feed.sheet, FALSE)
        /\ load[l].pc \in {"majors", "institutions", "done"} => CategoriesIn(l, {})
        /\ At(l, "majors") => MajorsIn(l, load[l].todo)
        /\ load[l].pc \in {"institutions", "done"} => MajorsIn(l, {})
        /\ At(l, "institutions") => InstitutionsIn(l, load[l].todo)
        /\ At(l, "done") => InstitutionsIn(l, {})

(* An institution, stored or to be stored, is in a stored city of its        *)
(* country or in none.                                                     *)
CitiesStored == {c \in City : cities[c] > 0}
RightPlaces ==
    /\ \A i \in DOMAIN institutions :
          InSeen(institutions[i].city, institutions[i].country, CitiesStored)
    /\ \A l \in Loaders : At(l, "institutions") =>
          \A i \in load[l].todo : InSeen(i.city, i.country, CitiesStored)

LoadedInv == (\A l \in Loaders : LoadedSoFar(l)) /\ RightPlaces

(* Nothing is removed from the tables. *)
TablesGrow ==
    /\ countries \subseteq countries' /\ categories \subseteq categories'
    /\ \A c \in City : cities[c] > 0 => cities'[c] > 0
    /\ DOMAIN majors \subseteq DOMAIN majors' /\ DOMAIN institutions \subseteq DOMAIN institutions'

LEMMA FeedCities ==
  ASSUME NEW feed \in Feeds
  PROVE  ToSet(feed.cities) \subseteq City
<1>1. feed.cities \in Seq(City)
  BY FeedsAssumption DEF City
<1>2. QED
  BY <1>1 DEF ToSet

LEMMA PartsStay ==
  ASSUME LoadTypes, TablesGrow, NEW m \in Loaders, load'[m].feed = load[m].feed, ~At(m, "idle"),
         NEW rest
  PROVE  /\ CountriesIn(m, rest) => CountriesIn(m, rest)'
         /\ CitiesIn(m, rest) => CitiesIn(m, rest)'
         /\ CategoriesIn(m, rest) => CategoriesIn(m, rest)'
         /\ MajorsIn(m, rest) => MajorsIn(m, rest)'
         /\ InstitutionsIn(m, rest) => InstitutionsIn(m, rest)'
<1>1. ToSet(load[m].feed.cities) \subseteq City
  BY FeedCities DEF LoadTypes, ItemsTyped
<1>2. CitiesIn(m, rest) => CitiesIn(m, rest)'
  BY <1>1 DEF CitiesIn, TablesGrow
<1>3. CountriesIn(m, rest) => CountriesIn(m, rest)'
  BY DEF CountriesIn, TablesGrow
<1>4. CategoriesIn(m, rest) => CategoriesIn(m, rest)'
  <2>1. load'[m].feed.sheet = load[m].feed.sheet
    OBVIOUS
  <2>2. NewCategories(load'[m].feed.sheet, FALSE) = NewCategories(load[m].feed.sheet, FALSE)
    OBVIOUS
  <2>3. QED
    BY <2>1, <2>2 DEF CategoriesIn, TablesGrow
<1>5. MajorsIn(m, rest) => MajorsIn(m, rest)'
  BY DEF MajorsIn, TablesGrow
<1>6. InstitutionsIn(m, rest) => InstitutionsIn(m, rest)'
  BY DEF InstitutionsIn, TablesGrow
<1>7. QED
  BY <1>2, <1>3, <1>4, <1>5, <1>6

LEMMA StaysLoaded ==
  ASSUME LoadTypes, TablesGrow, NEW m \in Loaders, load'[m] = load[m], LoadedSoFar(m)
  PROVE  LoadedSoFar(m)'
<1>1. load'[m] = load[m]
  OBVIOUS
<1>2. CASE At(m, "idle")
  BY <1>1, <1>2 DEF At, LoadedSoFar
<1>3. CASE ~At(m, "idle")
  <2>1. PICK rest : rest = load[m].todo
    OBVIOUS
  <2>2. /\ CountriesIn(m, rest) => CountriesIn(m, rest)'
        /\ CitiesIn(m, rest) => CitiesIn(m, rest)'
        /\ CategoriesIn(m, rest) => CategoriesIn(m, rest)'
        /\ MajorsIn(m, rest) => MajorsIn(m, rest)'
        /\ InstitutionsIn(m, rest) => InstitutionsIn(m, rest)'
    BY <1>1, <1>3, PartsStay
  <2>3. /\ CountriesIn(m, {}) => CountriesIn(m, {})'
        /\ CitiesIn(m, {}) => CitiesIn(m, {})'
        /\ CategoriesIn(m, {}) => CategoriesIn(m, {})'
        /\ MajorsIn(m, {}) => MajorsIn(m, {})'
        /\ InstitutionsIn(m, {}) => InstitutionsIn(m, {})'
    BY <1>1, <1>3, PartsStay
  <2>4. load'[m].todo = rest
    BY <1>1, <2>1
  <2>5. QED
    BY <1>1, <2>1, <2>2, <2>3, <2>4 DEF LoadedSoFar, At
<1>4. QED
  BY <1>2, <1>3

LEMMA OthersLoaded ==
  ASSUME LoadTypes, TablesGrow, NEW l \in Loaders, Others(l), NEW m \in Loaders \ {l},
         LoadedSoFar(m)
  PROVE  LoadedSoFar(m)'
BY StaysLoaded DEF Others

LEMMA PlacesStay ==
  ASSUME TablesGrow, RightPlaces, NEW l \in Loaders, Others(l),
         \A i \in DOMAIN institutions' :
             \/ i \in DOMAIN institutions /\ institutions'[i] = institutions[i]
             \/ InSeen(institutions'[i].city, institutions'[i].country, CitiesStored),
         load'[l].pc = "institutions" =>
             \A i \in load'[l].todo : InSeen(i.city, i.country, CitiesStored)
  PROVE  RightPlaces'
<1>1. CitiesStored \subseteq CitiesStored'
  BY DEF TablesGrow, CitiesStored
<1>2. ASSUME NEW place, NEW country, InSeen(place, country, CitiesStored)
      PROVE  InSeen(place, country, CitiesStored')
  BY <1>1, <1>2 DEF InSeen
<1>3. \A i \in DOMAIN institutions' :
         InSeen(institutions'[i].city, institutions'[i].country, CitiesStored')
  BY <1>2 DEF RightPlaces
<1>4. \A m \in Loaders : load'[m].pc = "institutions" =>
         \A i \in load'[m].todo : InSeen(i.city, i.country, CitiesStored')
  BY <1>2 DEF RightPlaces, Others, At
<1>5. QED
  BY <1>3, <1>4 DEF RightPlaces, At

LEMMA LoadedStep ==
  ASSUME LoadTypes, LoadedInv, NEW l \in Loaders,
         \/ StartLoad(l) \/ UpsertCountry(l) \/ ReadCities(l) \/ InsertCities(l) \/ ReadSheet(l)
         \/ UpsertCategory(l) \/ StartMajors(l) \/ UpsertMajor(l) \/ ReadPlaces(l)
         \/ UpsertInstitution(l) \/ Verify(l) \/ BreakOff(l)
  PROVE  LoadedInv'
<1>1. /\ LoadShapes /\ ReferenceTypeOK /\ \A m \in Loaders : ItemsTyped(m)
      /\ RightPlaces /\ \A m \in Loaders : LoadedSoFar(m)
      /\ cities \in [City -> Nat]
  BY DEF LoadTypes, LoadedInv, ReferenceTypeOK
<1>2. ASSUME TablesGrow, Others(l), LoadedSoFar(l)',
             institutions' = institutions, load'[l].pc # "institutions"
      PROVE  LoadedInv'
  BY <1>1, <1>2, OthersLoaded, PlacesStay DEF LoadedInv
<1>3. tables' = tables => TablesGrow
  BY DEF tables, TablesGrow
<1>4. /\ load[l].sample \in BOOLEAN /\ (~At(l, "idle") => load[l].feed \in Feeds)
  BY <1>1 DEF ItemsTyped
<1>5. CASE StartLoad(l)
  <2>1. PICK feed \in Feeds, sample \in BOOLEAN :
           /\ LoadShapes' /\ Others(l)
           /\ load'[l] = [pc |-> "countries", feed |-> feed, sample |-> sample,
                          todo |-> SomeCountries(feed, sample), after |-> {}]
           /\ tables' = tables
    BY <1>1, <1>5, StartLoadIs
  <2>2. LoadedSoFar(l)'
    BY <2>1, SomeCountriesTyped DEF LoadedSoFar, At, CountriesIn
  <2>3. QED
    BY <1>2, <1>3, <2>1, <2>2 DEF tables
<1>6. CASE UpsertCountry(l)
  <2>1. PICK country \in load[l].todo :
         /\ Step(l, "countries") /\ At(l, "countries")
         /\ load'[l].todo = load[l].todo \ {country}
         /\ countries' = countries \cup {country}
         /\ UNCHANGED <<cities, categories, majors, institutions, past>>
    BY <1>1, <1>6, UpsertCountryIs
  <2>2. TablesGrow
    BY <2>1 DEF TablesGrow
  <2>3. LoadedSoFar(l)'
    BY <1>1, <2>1 DEF LoadedSoFar, At, CountriesIn, Step
  <2>4. QED
    BY <1>2, <2>1, <2>2, <2>3 DEF Step
<1>7. CASE ReadCities(l)
  <2>1. /\ Step(l, "cities") /\ At(l, "countries") /\ load[l].todo = {}
        /\ load'[l].todo = NewCities(l)
        /\ UNCHANGED <<countries, cities, categories, majors, institutions>>
    BY <1>1, <1>7, ReadCitiesIs
  <2>2. TablesGrow
    BY <2>1 DEF TablesGrow
  <2>3. ~load[l].sample => CountriesIn(l, {}) /\ CitiesIn(l, NewCities(l))
    <3>1. load[l].feed \in Feeds
      BY <1>4, <2>1 DEF At
    <3>2. HAVE ~load[l].sample
    <3>3. ToSet(load[l].feed.countries) \subseteq countries
      BY <1>1, <2>1, <3>2 DEF LoadedSoFar, At, CountriesIn
    <3>4. QED
      BY <1>1, <3>1, <3>2, <3>3, NewCitiesTyped DEF CountriesIn, CitiesIn
  <2>4. LoadedSoFar(l)'
    BY <2>1, <2>3 DEF LoadedSoFar, At, CountriesIn, CitiesIn, Step
  <2>5. QED
    BY <1>2, <2>1, <2>2, <2>4 DEF Step
<1>8. CASE InsertCities(l)
  <2>1. PICK batch \in SUBSET load[l].todo :
         /\ Step(l, "cities") /\ At(l, "cities")
         /\ load'[l].todo = load[l].todo \ batch
         /\ cities' = [c \in City |-> cities[c] + (IF c \in batch THEN 1 ELSE 0)]
         /\ UNCHANGED <<countries, categories, majors, institutions, past>>
    BY <1>1, <1>8, InsertCitiesIs
  <2>2. \A c \in City : cities'[c] >= cities[c] /\ (c \in batch => cities'[c] > 0)
    BY <1>1, <2>1
  <2>3. TablesGrow
    BY <1>1, <2>1, <2>2 DEF TablesGrow
  <2>4. ToSet(load[l].feed.cities) \subseteq City
    BY <1>4, <2>1, FeedCities DEF At
  <2>5. ~load[l].sample => CountriesIn(l, {}) /\ CitiesIn(l, load[l].todo)
    BY <1>1, <2>1 DEF LoadedSoFar, At
  <2>6. LoadedSoFar(l)'
    BY <1>1, <2>1, <2>2, <2>4, <2>5 DEF LoadedSoFar, At, CountriesIn, CitiesIn, Step
  <2>7. QED
    BY <1>2, <2>1, <2>3, <2>6 DEF Step
<1>9. CASE ReadSheet(l)
  <2>1. /\ LoadShapes' /\ Others(l) /\ At(l, "cities") /\ load[l].todo = {}
        /\ load'[l].pc = "categories"
        /\ load'[l].todo = {load[l].feed.sheet[k].title :
                              k \in NewCategories(load[l].feed.sheet, load[l].sample)}
        /\ load'[l].after = NewMajors(load[l].feed.sheet, load[l].sample)
        /\ load'[l].feed = load[l].feed /\ load'[l].sample = load[l].sample
        /\ tables' = tables
    BY <1>1, <1>9, ReadSheetIs
  <2>2. ~load[l].sample =>
           /\ CountriesIn(l, {}) /\ CitiesIn(l, {}) /\ CategoriesIn(l, load'[l].todo)
           /\ load'[l].after = NewMajors(load[l].feed.sheet, FALSE)
    <3>1. HAVE ~load[l].sample
    <3>2. load[l].sample = FALSE
      BY <1>4, <3>1
    <3>3. CountriesIn(l, {}) /\ CitiesIn(l, {})
      BY <1>1, <2>1, <3>1 DEF LoadedSoFar, At
    <3>4. QED
      BY <2>1, <3>2, <3>3 DEF CategoriesIn
  <2>3. /\ CountriesIn(l, {}) => CountriesIn(l, {})'
        /\ CitiesIn(l, {}) => CitiesIn(l, {})'
    BY <2>1 DEF CountriesIn, CitiesIn, tables
  <2>4. CategoriesIn(l, load'[l].todo) => CategoriesIn(l, load[l].todo)'
    BY <2>1 DEF CategoriesIn, tables
  <2>5. LoadedSoFar(l)'
    BY <2>1, <2>2, <2>3, <2>4 DEF LoadedSoFar, At
  <2>6. QED
    BY <1>2, <1>3, <2>1, <2>5 DEF tables
<1>10. CASE UpsertCategory(l)
  <2>1. PICK title \in load[l].todo :
         /\ Step(l, "categories") /\ At(l, "categories")
         /\ load'[l].todo = load[l].todo \ {title} /\ load'[l].after = load[l].after
         /\ categories' = categories \cup {title}
         /\ UNCHANGED <<countries, cities, majors, institutions, past>>
    BY <1>1, <1>10, UpsertCategoryIs
  <2>2. TablesGrow
    BY <2>1 DEF TablesGrow
  <2>3. ~load[l].sample =>
           /\ CountriesIn(l, {}) /\ CitiesIn(l, {}) /\ CategoriesIn(l, load[l].todo)
           /\ load[l].after = NewMajors(load[l].feed.sheet, FALSE)
    BY <1>1, <2>1 DEF LoadedSoFar, At
  <2>4. /\ CountriesIn(l, {}) => CountriesIn(l, {})'
        /\ CitiesIn(l, {}) => CitiesIn(l, {})'
    BY <2>1 DEF CountriesIn, CitiesIn, Step
  <2>5. CategoriesIn(l, load[l].todo) => CategoriesIn(l, load[l].todo)'
    BY <2>1 DEF CategoriesIn, Step
  <2>6. LoadedSoFar(l)'
    BY <2>1, <2>3, <2>4, <2>5 DEF LoadedSoFar, At, Step
  <2>7. QED
    BY <1>2, <2>1, <2>2, <2>6 DEF Step
<1>11. CASE StartMajors(l)
  <2>1. /\ LoadShapes' /\ Others(l) /\ At(l, "categories") /\ load[l].todo = {}
        /\ load'[l].pc = "majors" /\ load'[l].todo = load[l].after
        /\ load'[l].feed = load[l].feed /\ load'[l].sample = load[l].sample
        /\ tables' = tables
    BY <1>1, <1>11, StartMajorsIs
  <2>2. ~load[l].sample =>
           /\ CountriesIn(l, {}) /\ CitiesIn(l, {}) /\ CategoriesIn(l, {})
           /\ load[l].after = NewMajors(load[l].feed.sheet, FALSE)
    BY <1>1, <2>1 DEF LoadedSoFar, At
  <2>3. /\ CountriesIn(l, {}) => CountriesIn(l, {})'
        /\ CitiesIn(l, {}) => CitiesIn(l, {})'
        /\ CategoriesIn(l, {}) => CategoriesIn(l, {})'
    BY <2>1 DEF CountriesIn, CitiesIn, CategoriesIn, tables
  <2>4. load[l].after = NewMajors(load[l].feed.sheet, FALSE) => MajorsIn(l, load[l].todo)'
    BY <2>1 DEF MajorsIn
  <2>5. LoadedSoFar(l)'
    BY <2>1, <2>2, <2>3, <2>4 DEF LoadedSoFar, At
  <2>6. QED
    BY <1>2, <1>3, <2>1, <2>5 DEF tables
<1>12. CASE UpsertMajor(l)
  <2>1. PICK major \in load[l].todo :
         /\ Step(l, "majors") /\ At(l, "majors")
         /\ load'[l].todo = load[l].todo \ {major}
         /\ majors' = Upserted(majors, major.code,
                               [title |-> major.title, category |-> major.category])
         /\ UNCHANGED <<countries, cities, categories, institutions, past>>
    BY <1>1, <1>12, UpsertMajorIs
  <2>2. DOMAIN majors' = DOMAIN majors \cup {major.code}
    BY <2>1 DEF Upserted
  <2>3. TablesGrow
    BY <2>1, <2>2 DEF TablesGrow
  <2>4. ~load[l].sample =>
           /\ CountriesIn(l, {}) /\ CitiesIn(l, {}) /\ CategoriesIn(l, {})
           /\ MajorsIn(l, load[l].todo)
    BY <1>1, <2>1 DEF LoadedSoFar, At
  <2>5. /\ CountriesIn(l, {}) => CountriesIn(l, {})'
        /\ CitiesIn(l, {}) => CitiesIn(l, {})'
        /\ CategoriesIn(l, {}) => CategoriesIn(l, {})'
    BY <2>1 DEF CountriesIn, CitiesIn, CategoriesIn, Step
  <2>6. MajorsIn(l, load[l].todo) => MajorsIn(l, load[l].todo)'
    BY <2>1, <2>2 DEF MajorsIn, Step
  <2>7. LoadedSoFar(l)'
    BY <2>1, <2>4, <2>5, <2>6 DEF LoadedSoFar, At, Step
  <2>8. QED
    BY <1>2, <2>1, <2>3, <2>7 DEF Step
<1>13. CASE ReadPlaces(l)
  <2>1. PICK todo :
         /\ LoadShapes' /\ Others(l) /\ At(l, "majors") /\ load[l].todo = {}
         /\ load'[l].pc = "institutions" /\ load'[l].todo = todo
         /\ load'[l].feed = load[l].feed /\ load'[l].sample = load[l].sample
         /\ tables' = tables
         /\ \A i \in todo :
               /\ i.id \in Institutes /\ i.country \in Countries
               /\ InSeen(i.city, i.country, {c \in City : cities[c] > 0})
         /\ ~load[l].sample => \A i \in ToSet(load[l].feed.institutions) :
               i.country \in countries => \E row \in todo : row.id = i.id
    BY <1>13, ReadPlacesIs
  <2>2. ~load[l].sample =>
           /\ CountriesIn(l, {}) /\ CitiesIn(l, {}) /\ CategoriesIn(l, {}) /\ MajorsIn(l, {})
    BY <1>1, <2>1 DEF LoadedSoFar, At
  <2>3. /\ CountriesIn(l, {}) => CountriesIn(l, {})'
        /\ CitiesIn(l, {}) => CitiesIn(l, {})'
        /\ CategoriesIn(l, {}) => CategoriesIn(l, {})'
        /\ MajorsIn(l, {}) => MajorsIn(l, {})'
    BY <2>1 DEF CountriesIn, CitiesIn, CategoriesIn, MajorsIn, tables
  <2>4. ~load[l].sample => InstitutionsIn(l, todo)
    BY <2>1, <2>2 DEF InstitutionsIn, CountriesIn
  <2>5. InstitutionsIn(l, todo) => InstitutionsIn(l, load[l].todo)'
    BY <2>1 DEF InstitutionsIn, tables
  <2>6. LoadedSoFar(l)'
    BY <2>1, <2>2, <2>3, <2>4, <2>5 DEF LoadedSoFar, At
  <2>7. RightPlaces'
    BY <1>1, <1>3, <2>1, PlacesStay DEF CitiesStored, tables
  <2>8. QED
    BY <1>1, <1>3, <2>1, <2>6, <2>7, OthersLoaded DEF LoadedInv
<1>14. CASE UpsertInstitution(l)
  <2>1. PICK inst \in load[l].todo :
         /\ Step(l, "institutions") /\ At(l, "institutions")
         /\ load'[l].todo = load[l].todo \ {inst}
         /\ institutions' = Upserted(institutions, inst.id,
                                     [country |-> inst.country, city |-> inst.city])
         /\ UNCHANGED <<countries, cities, categories, majors, past>>
    BY <1>1, <1>14, UpsertInstitutionIs
  <2>2. DOMAIN institutions' = DOMAIN institutions \cup {inst.id}
    BY <2>1 DEF Upserted
  <2>3. TablesGrow
    BY <2>1, <2>2 DEF TablesGrow
  <2>4. ~load[l].sample =>
           /\ CountriesIn(l, {}) /\ CitiesIn(l, {}) /\ CategoriesIn(l, {}) /\ MajorsIn(l, {})
           /\ InstitutionsIn(l, load[l].todo)
    BY <1>1, <2>1 DEF LoadedSoFar, At
  <2>5. /\ CountriesIn(l, {}) => CountriesIn(l, {})'
        /\ CitiesIn(l, {}) => CitiesIn(l, {})'
        /\ CategoriesIn(l, {}) => CategoriesIn(l, {})'
        /\ MajorsIn(l, {}) => MajorsIn(l, {})'
    BY <2>1 DEF CountriesIn, CitiesIn, CategoriesIn, MajorsIn, Step
  <2>6. InstitutionsIn(l, load[l].todo) => InstitutionsIn(l, load[l].todo)'
    BY <2>1, <2>2 DEF InstitutionsIn, Step
  <2>7. LoadedSoFar(l)'
    BY <2>1, <2>4, <2>5, <2>6 DEF LoadedSoFar, At, Step
  <2>8. \A i \in load[l].todo : InSeen(i.city, i.country, CitiesStored)
    BY <1>1, <2>1 DEF RightPlaces
  <2>9. \A i \in DOMAIN institutions' :
           \/ i \in DOMAIN institutions /\ institutions'[i] = institutions[i]
           \/ InSeen(institutions'[i].city, institutions'[i].country, CitiesStored)
    <3>1. ASSUME NEW i \in DOMAIN institutions', i = inst.id
          PROVE  InSeen(institutions'[i].city, institutions'[i].country, CitiesStored)
      <4>1. institutions'[i] = [country |-> inst.country, city |-> inst.city]
        BY <2>1, <2>2, <3>1 DEF Upserted
      <4>2. institutions'[i].city = inst.city /\ institutions'[i].country = inst.country
        BY <4>1
      <4>3. QED
        BY <2>8, <4>2
    <3>2. ASSUME NEW i \in DOMAIN institutions', i # inst.id
          PROVE  i \in DOMAIN institutions /\ institutions'[i] = institutions[i]
      BY <2>1, <2>2, <3>2 DEF Upserted
    <3>3. QED
      BY <3>1, <3>2
  <2>10. RightPlaces'
    BY <1>1, <2>1, <2>3, <2>8, <2>9, PlacesStay DEF Step
  <2>11. QED
    BY <1>1, <2>1, <2>3, <2>7, <2>10, OthersLoaded DEF LoadedInv, Step
<1>15. CASE Verify(l) \/ BreakOff(l)
  <2>1. PICK pc :
         /\ Step(l, pc)
         /\ \/ pc = "refused"
            \/ pc = "done" /\ At(l, "institutions") /\ load[l].todo = {}
            \/ pc = "broken"
         /\ UNCHANGED <<countries, cities, categories, majors, institutions, past>>
    BY <1>1, <1>15, EndIs
  <2>2. TablesGrow
    BY <2>1 DEF TablesGrow
  <2>3. CASE pc = "done" /\ At(l, "institutions") /\ load[l].todo = {}
    <3>1. ~load[l].sample =>
             /\ CountriesIn(l, {}) /\ CitiesIn(l, {}) /\ CategoriesIn(l, {}) /\ MajorsIn(l, {})
             /\ InstitutionsIn(l, {})
      BY <1>1, <2>3 DEF LoadedSoFar, At
    <3>2. /\ CountriesIn(l, {}) => CountriesIn(l, {})'
          /\ CitiesIn(l, {}) => CitiesIn(l, {})'
          /\ CategoriesIn(l, {}) => CategoriesIn(l, {})'
          /\ MajorsIn(l, {}) => MajorsIn(l, {})'
          /\ InstitutionsIn(l, {}) => InstitutionsIn(l, {})'
      BY <2>1 DEF CountriesIn, CitiesIn, CategoriesIn, MajorsIn, InstitutionsIn, Step
    <3>3. LoadedSoFar(l)'
      BY <2>1, <2>3, <3>1, <3>2 DEF LoadedSoFar, At, Step
    <3>4. QED
      BY <1>2, <2>1, <2>2, <2>3, <3>3 DEF Step
  <2>4. CASE pc \in {"refused", "broken"}
    <3>1. LoadedSoFar(l)'
      BY <2>1, <2>4 DEF LoadedSoFar, At, Step
    <3>2. QED
      BY <1>2, <2>1, <2>2, <2>4, <3>1 DEF Step
  <2>5. QED
    BY <2>1, <2>3, <2>4
<1>16. QED
  BY <1>5, <1>6, <1>7, <1>8, <1>9, <1>10, <1>11, <1>12, <1>13, <1>14, <1>15

LEMMA LoadedSafe == ReferenceSpec => []LoadedInv
<1>1. ReferenceInit => LoadedInv
  <2> SUFFICES ASSUME ReferenceInit PROVE LoadedInv
    OBVIOUS
  <2>1. \A l \in Loaders : load[l].pc = "idle"
    BY DEF ReferenceInit, Unloaded
  <2>2. DOMAIN institutions = {}
    BY DEF ReferenceInit
  <2>3. \A l \in Loaders : LoadedSoFar(l)
    BY <2>1 DEF LoadedSoFar, At
  <2>4. QED
    BY <2>1, <2>2, <2>3 DEF LoadedInv, RightPlaces, At
<1>2. LoadTypes /\ LoadedInv /\ [ReferenceNext]_referenceVars => LoadedInv'
  <2> SUFFICES ASSUME LoadTypes, LoadedInv, [ReferenceNext]_referenceVars PROVE LoadedInv'
    OBVIOUS
  <2>1. CASE LoadNext
    BY <2>1, LoadedStep DEF LoadNext
  <2>2. ASSUME UNCHANGED <<tables, load>> PROVE LoadedInv'
    <3>1. TablesGrow /\ load' = load /\ institutions' = institutions
      BY <2>2 DEF tables, TablesGrow
    <3>2. CitiesStored' = CitiesStored
      BY <2>2 DEF tables, CitiesStored
    <3>3. RightPlaces'
      BY <3>1, <3>2 DEF LoadedInv, RightPlaces, At
    <3>4. ASSUME NEW l \in Loaders PROVE LoadedSoFar(l)'
      BY <3>1, StaysLoaded DEF LoadedInv
    <3>5. QED
      BY <3>3, <3>4 DEF LoadedInv
  <2>3. CASE SeedNext
    <3>1. UNCHANGED <<tables, load>>
      BY <2>3 DEF SeedNext, SeedTables, FindAdmin, CreateAdmin, GrantRole, SeedDies, SeedStep
    <3>2. QED
      BY <2>2, <3>1
  <2>4. CASE UNCHANGED referenceVars
    BY <2>2, <2>4 DEF referenceVars
  <2>5. QED
    BY <2>1, <2>3, <2>4 DEF ReferenceNext
<1>3. QED
  BY <1>1, <1>2, LoadTypesSafe, PTL DEF ReferenceSpec

(* A full run that ended well has left everything its sources publish in the *)
(* tables, and every institution in a city of its own country or in none:  *)
(* whatever the sources publish, whichever runs broke off before it and    *)
(* whichever run beside it.                                                *)
THEOREM DoneLoaded == ReferenceSpec => []DoneHasLoaded
<1>1. LoadTypes /\ LoadedInv => DoneHasLoaded
  <2> SUFFICES ASSUME LoadTypes, LoadedInv, NEW l \in Loaders, At(l, "done"), ~load[l].sample
               PROVE  LET feed == load[l].feed
                          sheet == feed.sheet
                          Here(country) == country \in ToSet(feed.countries)
                      IN /\ ToSet(feed.countries) \subseteq countries
                         /\ \A city \in ToSet(feed.cities) : Here(city[2]) => cities[city] > 0
                         /\ {sheet[k].title : k \in NewCategories(sheet, FALSE)} \subseteq categories
                         /\ {m.code : m \in NewMajors(sheet, FALSE)} \subseteq DOMAIN majors
                         /\ \A i \in ToSet(feed.institutions) : Here(i.country) =>
                               /\ i.id \in DOMAIN institutions
                               /\ LET row == institutions[i.id]
                                  IN row.city # NOWHERE =>
                                        row.city[2] = row.country /\ cities[row.city] > 0
    BY DEF DoneHasLoaded
  <2>1. LoadedSoFar(l) /\ RightPlaces
    BY DEF LoadedInv
  <2>2. /\ CountriesIn(l, {}) /\ CitiesIn(l, {}) /\ CategoriesIn(l, {}) /\ MajorsIn(l, {})
        /\ InstitutionsIn(l, {})
    BY <2>1 DEF LoadedSoFar, At
  <2>3. \A i \in DOMAIN institutions : institutions[i].city # NOWHERE =>
           /\ institutions[i].city[2] = institutions[i].country
           /\ cities[institutions[i].city] > 0
    BY <2>1 DEF RightPlaces, InSeen, CitiesStored
  <2>4. {m.code : m \in NewMajors(load[l].feed.sheet, FALSE)} \subseteq DOMAIN majors
    BY <2>2 DEF MajorsIn
  <2>5. \A city \in ToSet(load[l].feed.cities) :
           city[2] \in ToSet(load[l].feed.countries) => cities[city] > 0
    BY <2>2 DEF CitiesIn
  <2>6. ToSet(load[l].feed.countries) \subseteq countries
    BY <2>2 DEF CountriesIn
  <2>7. \A i \in ToSet(load[l].feed.institutions) :
           i.country \in ToSet(load[l].feed.countries) => i.id \in DOMAIN institutions
    BY <2>2 DEF InstitutionsIn
  <2>8. QED
    BY <2>2, <2>3, <2>4, <2>5, <2>6, <2>7 DEF CategoriesIn
<1>2. QED
  BY <1>1, LoadTypesSafe, LoadedSafe, PTL

(* Of one prefix one category leads. *)
LEMMA OneLead ==
  ASSUME NEW feed \in Feeds, NEW j \in Leads(feed.sheet), NEW k \in Leads(feed.sheet),
         feed.sheet[j].prefix = feed.sheet[k].prefix
  PROVE  j = k
<1>1. j \in Nat /\ k \in Nat /\ j \in DOMAIN feed.sheet /\ k \in DOMAIN feed.sheet
  BY FeedsAssumption DEF Leads
<1>2. ~(j < k) /\ ~(k < j)
  BY <1>1 DEF Leads
<1>3. QED
  BY <1>1, <1>2

LeadsBefore(sheet, sample, k) ==
    {j \in NewCategories(sheet, sample) : j < k /\ sheet[j].prefix = sheet[k].prefix}

LEMMA CategoryIs ==
  ASSUME NEW feed \in Feeds, NEW sample
  PROVE  \A k : \A j \in LeadsBefore(feed.sheet, sample, k) :
            j \in Leads(feed.sheet) /\ CategoryOf(feed.sheet, sample, k) = feed.sheet[j].title
<1> DEFINE sheet == feed.sheet
<1> TAKE k
<1> DEFINE before == LeadsBefore(sheet, sample, k)
<1> TAKE j \in before
<1>1. CategoryOf(sheet, sample, k) =
         IF before = {} THEN NOWHERE ELSE sheet[CHOOSE i \in before : TRUE].title
  BY DEF CategoryOf, LeadsBefore
<1>2. before \subseteq Leads(sheet)
  BY FirstOfPart DEF LeadsBefore, NewCategories
<1>3. before = {j}
  BY <1>2, OneLead DEF LeadsBefore
<1> HIDE DEF before
<1>4. (CHOOSE i \in before : TRUE) = j
  <2>1. (CHOOSE i \in before : TRUE) \in before
    BY <1>3
  <2>2. QED
    BY <1>3, <2>1
<1>5. QED
  BY <1>1, <1>2, <1>3, <1>4

LEMMA CategoryOfFull ==
  ASSUME NEW feed \in Feeds
  PROVE  \A k : \A j \in LeadsBefore(feed.sheet, FALSE, k) :
            j \in Leads(feed.sheet) /\ CategoryOf(feed.sheet, FALSE, k) = feed.sheet[j].title
BY CategoryIs

LEMMA CategoryOfSample ==
  ASSUME NEW feed \in Feeds
  PROVE  \A k : \A j \in LeadsBefore(feed.sheet, TRUE, k) :
            j \in Leads(feed.sheet) /\ CategoryOf(feed.sheet, TRUE, k) = feed.sheet[j].title
BY CategoryIs

LEMMA HasCategory ==
  ASSUME NEW sheet, NEW sample, NEW k, CategoryOf(sheet, sample, k) # NOWHERE
  PROVE  \E j : j \in LeadsBefore(sheet, sample, k)
BY DEF CategoryOf, LeadsBefore

LEMMA SampleOfFull ==
  ASSUME NEW feed \in Feeds, ~Namesakes(feed.sheet), NEW k \in Unseen(feed.sheet, TRUE)
  PROVE  MajorAt(feed.sheet, TRUE, k) \in NewMajors(feed.sheet, FALSE)
<1> DEFINE sheet == feed.sheet
<1>1. k \in MajorRows(sheet) /\ CategoryOf(sheet, TRUE, k) # NOWHERE
      /\ \A j \in MajorRows(sheet) : j < k => ~SameTitle(sheet, TRUE, j, k)
  BY DEF Unseen
<1>2. PICK c : c \in LeadsBefore(sheet, TRUE, k)
  BY <1>1, HasCategory
<1>3. c \in Leads(sheet) /\ CategoryOf(sheet, TRUE, k) = sheet[c].title
  <2>1. \A j \in LeadsBefore(sheet, TRUE, k) :
           j \in Leads(sheet) /\ CategoryOf(sheet, TRUE, k) = sheet[j].title
    BY CategoryOfSample
  <2>2. QED
    BY <1>2, <2>1
<1>4. /\ NewCategories(sheet, FALSE) = Leads(sheet)
      /\ NewCategories(sheet, TRUE) \subseteq Leads(sheet)
  BY FirstOfPart DEF NewCategories
<1>5. c \in LeadsBefore(sheet, FALSE, k)
  BY <1>2, <1>4 DEF LeadsBefore
<1>6. CategoryOf(sheet, FALSE, k) = sheet[c].title
  <2>1. \A j \in LeadsBefore(sheet, FALSE, k) : CategoryOf(sheet, FALSE, k) = sheet[j].title
    BY CategoryOfFull
  <2>2. QED
    BY <1>5, <2>1
<1>7. ASSUME NEW j \in MajorRows(sheet), j < k, SameTitle(sheet, FALSE, j, k) PROVE FALSE
  <2>1. CategoryOf(sheet, FALSE, j) = sheet[c].title /\ sheet[j].title = sheet[k].title
    BY <1>6, <1>7 DEF SameTitle
  <2>2. PICK d : d \in LeadsBefore(sheet, FALSE, j)
    BY <1>1, <1>3, <2>1, HasCategory
  <2>3. d \in Leads(sheet) /\ CategoryOf(sheet, FALSE, j) = sheet[d].title
    <3>1. \A e \in LeadsBefore(sheet, FALSE, j) :
             e \in Leads(sheet) /\ CategoryOf(sheet, FALSE, j) = sheet[e].title
      BY CategoryOfFull
    <3>2. QED
      BY <2>2, <3>1
  <2>4. d = c
    BY <1>3, <2>1, <2>3 DEF Namesakes
  <2>5. c \in LeadsBefore(sheet, TRUE, j)
    BY <1>2, <2>2, <2>4 DEF LeadsBefore
  <2>6. CategoryOf(sheet, TRUE, j) = sheet[c].title
    <3>1. \A e \in LeadsBefore(sheet, TRUE, j) : CategoryOf(sheet, TRUE, j) = sheet[e].title
      BY CategoryOfSample
    <3>2. QED
      BY <2>5, <3>1
  <2>7. SameTitle(sheet, TRUE, j, k)
    BY <1>3, <2>1, <2>6 DEF SameTitle
  <2>8. QED
    BY <1>1, <1>7, <2>7
<1>8. k \in Unseen(sheet, FALSE)
  BY <1>1, <1>7 DEF Unseen
<1>9. MajorAt(sheet, TRUE, k) = MajorAt(sheet, FALSE, k)
  BY <1>3, <1>6 DEF MajorAt
<1>10. QED
  BY <1>8, <1>9, NewMajorsAre

LEMMA SampleMajors ==
  ASSUME NEW feed \in Feeds, NEW sample \in BOOLEAN, sample => ~Namesakes(feed.sheet)
  PROVE  NewMajors(feed.sheet, sample) \subseteq NewMajors(feed.sheet, FALSE)
<1>1. CASE sample = FALSE
  BY <1>1
<1>2. CASE sample = TRUE
  <2>1. NewMajors(feed.sheet, TRUE) \subseteq
           {MajorAt(feed.sheet, TRUE, k) : k \in Unseen(feed.sheet, TRUE)}
    BY NewMajorsAre
  <2>2. QED
    BY <1>2, <2>1, SampleOfFull
<1>3. QED
  BY <1>1, <1>2

LEMMA TitlesOnce ==
  ASSUME NEW feed \in Feeds, NEW m \in NewMajors(feed.sheet, FALSE),
         NEW n \in NewMajors(feed.sheet, FALSE), m.title = n.title, m.category = n.category
  PROVE  m = n
<1> DEFINE sheet == feed.sheet
<1>1. PICK j \in Unseen(sheet, FALSE) : m = MajorAt(sheet, FALSE, j)
  BY NewMajorsAre
<1>2. PICK k \in Unseen(sheet, FALSE) : n = MajorAt(sheet, FALSE, k)
  BY NewMajorsAre
<1>3. SameTitle(sheet, FALSE, j, k) /\ SameTitle(sheet, FALSE, k, j)
  BY <1>1, <1>2 DEF SameTitle, MajorAt
<1>4. ~(j < k) /\ ~(k < j)
  BY <1>3 DEF Unseen
<1>5. j \in Nat /\ k \in Nat
  BY FeedsAssumption DEF Unseen, MajorRows
<1>6. j = k
  BY <1>4, <1>5
<1>7. QED
  BY <1>1, <1>2, <1>6

(* Between its read of the cities and its last insert a run is alone, unless *)
(* the history says otherwise, and its cities have no row.                 *)
CitiesOnce ==
    past.overlapped \/
        /\ \A c \in City : cities[c] <= 1
        /\ \A l \in Loaders : At(l, "cities") => \A c \in load[l].todo : cities[c] = 0
        /\ \A l, m \in Loaders : At(l, "cities") /\ At(m, "cities") => l = m

NamesakesPast == \E l \in Loaders : load[l].sample /\ Namesakes(load[l].feed.sheet)
OfFeeds(m) == \E feed \in past.feeds : m \in NewMajors(feed.sheet, FALSE)
RowOf(m) == [title |-> m.title, category |-> m.category]

(* Every major, stored or to be stored, is one a full run of some feed so far *)
(* would store.                                                            *)
MajorsOfFeeds ==
    NamesakesPast \/
        /\ \A code \in DOMAIN majors :
              \E m : OfFeeds(m) /\ m.code = code /\ majors[code] = RowOf(m)
        /\ \A l \in Loaders :
              /\ At(l, "categories") => \A m \in load[l].after : OfFeeds(m)
              /\ At(l, "majors") => \A m \in load[l].todo : OfFeeds(m)

FeedsKept ==
    /\ past.feeds \subseteq Feeds /\ IsFiniteSet(past.feeds)
    /\ \A l \in Loaders : ~At(l, "idle") => load[l].feed \in past.feeds

(* Why a check may have failed, in a form that every step keeps.           *)
Cause == past.overlapped \/ NamesakesPast \/ \E f, g \in past.feeds : f # g
RefusedForCause == (\E l \in Loaders : At(l, "refused")) => Cause

CauseInv == CitiesOnce /\ MajorsOfFeeds /\ FeedsKept /\ RefusedForCause

(* A check that fails has a cause then.                                     *)
LEMMA FailsForCause ==
  ASSUME LoadTypes, CauseInv, RepeatedCity \/ RepeatedMajor
  PROVE  Cause
<1>1. CASE RepeatedCity
  <2>1. PICK c \in City : cities[c] > 1
    BY <1>1 DEF RepeatedCity
  <2>2. cities[c] \in Nat
    BY <2>1 DEF LoadTypes, ReferenceTypeOK
  <2>3. past.overlapped
    BY <2>1, <2>2 DEF CauseInv, CitiesOnce
  <2>4. QED
    BY <2>3 DEF Cause
<1>2. CASE RepeatedMajor
  <2>1. PICK c, d \in DOMAIN majors : c # d /\ majors[c] = majors[d]
    BY <1>2 DEF RepeatedMajor
  <2> SUFFICES ASSUME ~NamesakesPast, \A f, g \in past.feeds : f = g PROVE FALSE
    BY DEF Cause
  <2>2. PICK m : OfFeeds(m) /\ m.code = c /\ majors[c] = RowOf(m)
    BY <2>1 DEF CauseInv, MajorsOfFeeds
  <2>3. PICK n : OfFeeds(n) /\ n.code = d /\ majors[d] = RowOf(n)
    BY <2>1 DEF CauseInv, MajorsOfFeeds
  <2>4. PICK feed \in past.feeds : m \in NewMajors(feed.sheet, FALSE)
    BY <2>2 DEF OfFeeds
  <2>5. n \in NewMajors(feed.sheet, FALSE)
    BY <2>3, <2>4 DEF OfFeeds
  <2>6. RowOf(m) = RowOf(n)
    BY <2>1, <2>2, <2>3
  <2>7. m.title = n.title /\ m.category = n.category
    BY <2>6 DEF RowOf
  <2>8. feed \in Feeds
    BY <2>4 DEF CauseInv, FeedsKept
  <2>9. m = n
    BY <2>4, <2>5, <2>7, <2>8, TitlesOnce
  <2>10. QED
    BY <2>1, <2>2, <2>3, <2>9
<1>3. QED
  BY <1>1, <1>2

(* Nothing that counts as a cause is forgotten.                             *)
PastGrows ==
    /\ past.feeds \subseteq past'.feeds /\ (past.overlapped => past'.overlapped)
    /\ \A l \in Loaders : load[l].sample => load'[l].sample /\ load'[l].feed = load[l].feed

LEMMA CauseStays ==
  ASSUME PastGrows
  PROVE  /\ Cause => Cause'
         /\ NamesakesPast => NamesakesPast'
         /\ \A m : OfFeeds(m) => OfFeeds(m)'
<1>1. NamesakesPast => NamesakesPast'
  BY DEF PastGrows, NamesakesPast
<1>2. Cause => Cause'
  BY <1>1 DEF PastGrows, Cause
<1>3. \A m : OfFeeds(m) => OfFeeds(m)'
  BY DEF PastGrows, OfFeeds
<1>4. QED
  BY <1>1, <1>2, <1>3

LEMMA FeedsStay ==
  ASSUME FeedsKept, PastGrows, NEW l \in Loaders, Others(l),
         past'.feeds \subseteq Feeds, IsFiniteSet(past'.feeds),
         load'[l].feed \in past'.feeds
  PROVE  FeedsKept'
BY DEF FeedsKept, PastGrows, Others, At

LEMMA CitiesOnceStays ==
  ASSUME CitiesOnce, PastGrows, NEW l \in Loaders, Others(l), cities' = cities,
         load'[l].pc # "cities"
  PROVE  CitiesOnce'
BY DEF CitiesOnce, PastGrows, Others, At

LEMMA MajorsStay ==
  ASSUME MajorsOfFeeds, PastGrows, NEW l \in Loaders, Others(l), majors' = majors,
         NamesakesPast \/ (load'[l].pc = "categories" => \A m \in load'[l].after : OfFeeds(m)),
         NamesakesPast \/ (load'[l].pc = "majors" => \A m \in load'[l].todo : OfFeeds(m))
  PROVE  MajorsOfFeeds'
<1>1. CASE NamesakesPast
  BY <1>1, CauseStays DEF MajorsOfFeeds
<1>2. CASE ~NamesakesPast
  <2>1. \A m : OfFeeds(m) => OfFeeds(m)'
    BY CauseStays
  <2>2. \A code \in DOMAIN majors' :
           \E m : OfFeeds(m)' /\ m.code = code /\ majors'[code] = RowOf(m)
    BY <1>2, <2>1 DEF MajorsOfFeeds
  <2>3. ASSUME NEW k \in Loaders
        PROVE  /\ load'[k].pc = "categories" => \A m \in load'[k].after : OfFeeds(m)'
               /\ load'[k].pc = "majors" => \A m \in load'[k].todo : OfFeeds(m)'
    BY <1>2, <2>1 DEF MajorsOfFeeds, Others, At
  <2>4. QED
    BY <2>2, <2>3 DEF MajorsOfFeeds, At, RowOf
<1>3. QED
  BY <1>1, <1>2

LEMMA RefusedStays ==
  ASSUME RefusedForCause, PastGrows, NEW l \in Loaders, Others(l),
         load'[l].pc = "refused" => Cause
  PROVE  RefusedForCause'
BY CauseStays DEF RefusedForCause, Others, At

(* A step that writes neither cities nor majors, and reads neither.         *)
LEMMA CauseStepBeside ==
  ASSUME CauseInv, NEW l \in Loaders, Others(l), cities' = cities, majors' = majors,
         past' = past, load'[l].feed = load[l].feed, load'[l].sample = load[l].sample,
         ~At(l, "idle"), load'[l].pc \notin {"cities", "categories", "majors"},
         load'[l].pc = "refused" => Cause
  PROVE  CauseInv'
<1>1. PastGrows /\ past'.feeds = past.feeds
  BY DEF PastGrows, Others
<1>2. FeedsKept'
  BY <1>1, FeedsStay DEF CauseInv, FeedsKept
<1>3. CitiesOnce' /\ MajorsOfFeeds' /\ RefusedForCause'
  BY <1>1, CitiesOnceStays, MajorsStay, RefusedStays DEF CauseInv
<1>4. QED
  BY <1>2, <1>3 DEF CauseInv

LEMMA CauseStep ==
  ASSUME LoadTypes, SeedInv, CauseInv, NEW l \in Loaders,
         \/ StartLoad(l) \/ UpsertCountry(l) \/ ReadCities(l) \/ InsertCities(l) \/ ReadSheet(l)
         \/ UpsertCategory(l) \/ StartMajors(l) \/ UpsertMajor(l) \/ ReadPlaces(l)
         \/ UpsertInstitution(l) \/ Verify(l) \/ BreakOff(l)
  PROVE  CauseInv'
<1>1. /\ LoadShapes /\ ReferenceTypeOK /\ \A m \in Loaders : ItemsTyped(m)
      /\ CitiesOnce /\ MajorsOfFeeds /\ FeedsKept /\ RefusedForCause
      /\ cities \in [City -> Nat] /\ load[l].sample \in BOOLEAN
  BY DEF LoadTypes, CauseInv, ReferenceTypeOK, ItemsTyped
<1>2. ASSUME Others(l), past' = past, load'[l].feed = load[l].feed,
             load'[l].sample = load[l].sample
      PROVE  PastGrows
  BY <1>2 DEF PastGrows, Others
<1>3. ASSUME Others(l), past' = past, load'[l].feed = load[l].feed,
             load'[l].sample = load[l].sample, ~At(l, "idle")
      PROVE  FeedsKept'
  BY <1>1, <1>2, <1>3, FeedsStay DEF FeedsKept
<1>4. CASE StartLoad(l)
  <2>1. PICK feed \in Feeds, sample \in BOOLEAN :
           /\ LoadShapes' /\ Others(l) /\ At(l, "idle")
           /\ load'[l] = [pc |-> "countries", feed |-> feed, sample |-> sample,
                          todo |-> SomeCountries(feed, sample), after |-> {}]
           /\ past' = [past EXCEPT !.feeds = @ \cup {feed}]
           /\ tables' = tables
    BY <1>1, <1>4, StartLoadIs
  <2>2. load'[l].pc = "countries" /\ load'[l].feed = feed
    BY <2>1
  <2>3. past'.feeds = past.feeds \cup {feed} /\ past'.overlapped = past.overlapped
    BY <2>1 DEF SeedInv
  <2>4. PastGrows
    BY <1>1, <2>1, <2>3 DEF PastGrows, Others, ItemsTyped
  <2>5. past'.feeds \subseteq Feeds /\ IsFiniteSet(past'.feeds)
    BY <1>1, <2>3, FS_AddElement DEF FeedsKept
  <2>6. FeedsKept'
    BY <1>1, <2>1, <2>2, <2>3, <2>4, <2>5, FeedsStay
  <2>7. CitiesOnce' /\ MajorsOfFeeds' /\ RefusedForCause'
    BY <1>1, <2>1, <2>2, <2>4, CitiesOnceStays, MajorsStay, RefusedStays DEF tables
  <2>8. QED
    BY <2>6, <2>7 DEF CauseInv
<1>5. CASE UpsertCountry(l)
  <2>1. PICK country \in load[l].todo :
         /\ Step(l, "countries") /\ At(l, "countries")
         /\ UNCHANGED <<cities, categories, majors, institutions, past>>
    BY <1>1, <1>5, UpsertCountryIs
  <2>2. QED
    BY <2>1, CauseStepBeside DEF Step, At
<1>6. CASE ReadCities(l)
  <2>1. /\ Step(l, "cities") /\ At(l, "countries")
        /\ load'[l].todo = NewCities(l)
        /\ past' = [past EXCEPT !.overlapped = @ \/ Overlapping(l)]
        /\ UNCHANGED <<countries, cities, categories, majors, institutions>>
    BY <1>1, <1>6, ReadCitiesIs
  <2>2. /\ past'.feeds = past.feeds
        /\ past'.overlapped = (past.overlapped \/ Overlapping(l))
    BY <2>1 DEF SeedInv
  <2>3. PastGrows
    BY <2>1, <2>2 DEF PastGrows, Step, Others
  <2>4. load[l].feed \in past.feeds /\ load[l].feed \in Feeds
    BY <1>1, <2>1 DEF FeedsKept, At
  <2>5. FeedsKept'
    BY <1>1, <2>1, <2>2, <2>3, <2>4, FeedsStay DEF FeedsKept, Step
  <2>6. MajorsOfFeeds' /\ RefusedForCause'
    BY <1>1, <2>1, <2>3, MajorsStay, RefusedStays DEF Step
  <2>7. CitiesOnce'
    <3> SUFFICES ASSUME ~past'.overlapped PROVE CitiesOnce'
      BY DEF CitiesOnce
    <3>1. ~past.overlapped /\ \A m \in Loaders \ {l} : ~At(m, "cities")
      BY <2>2 DEF Overlapping
    <3>2. \A c \in load'[l].todo : cities[c] = 0
      BY <1>1, <2>1, <2>4, NewCitiesTyped
    <3>3. \A m \in Loaders \ {l} : load'[m].pc # "cities"
      BY <2>1, <3>1 DEF Step, Others, At
    <3>4. QED
      BY <1>1, <2>1, <3>1, <3>2, <3>3 DEF CitiesOnce, At
  <2>8. QED
    BY <2>5, <2>6, <2>7 DEF CauseInv
<1>7. CASE InsertCities(l)
  <2>1. PICK batch \in SUBSET load[l].todo :
         /\ Step(l, "cities") /\ At(l, "cities")
         /\ load'[l].todo = load[l].todo \ batch
         /\ cities' = [c \in City |-> cities[c] + (IF c \in batch THEN 1 ELSE 0)]
         /\ UNCHANGED <<countries, categories, majors, institutions, past>>
    BY <1>1, <1>7, InsertCitiesIs
  <2>2. FeedsKept' /\ MajorsOfFeeds' /\ RefusedForCause'
    BY <1>1, <1>2, <1>3, <2>1, MajorsStay, RefusedStays DEF Step, At
  <2>3. CitiesOnce'
    <3> SUFFICES ASSUME ~past.overlapped PROVE CitiesOnce'
      BY <2>1 DEF CitiesOnce
    <3>1. /\ \A c \in City : cities[c] <= 1
          /\ \A c \in load[l].todo : cities[c] = 0
          /\ \A m \in Loaders \ {l} : ~At(m, "cities")
      BY <1>1, <2>1 DEF CitiesOnce
    <3>2. \A m \in Loaders \ {l} : load'[m].pc # "cities"
      BY <2>1, <3>1 DEF Step, Others, At
    <3>3. \A c \in City : cities'[c] <= 1
      BY <1>1, <2>1, <3>1
    <3>4. load[l].todo \subseteq City
      BY <1>1, <2>1 DEF ItemsTyped
    <3>5. \A c \in load'[l].todo : cities'[c] = 0
      BY <1>1, <2>1, <3>1, <3>4
    <3>6. QED
      BY <3>2, <3>3, <3>5 DEF CitiesOnce, At
  <2>4. QED
    BY <2>2, <2>3 DEF CauseInv
<1>8. CASE ReadSheet(l)
  <2>1. /\ LoadShapes' /\ Others(l) /\ At(l, "cities")
        /\ load'[l].pc = "categories"
        /\ load'[l].after = NewMajors(load[l].feed.sheet, load[l].sample)
        /\ load'[l].feed = load[l].feed /\ load'[l].sample = load[l].sample
        /\ tables' = tables /\ past' = past
    BY <1>1, <1>8, ReadSheetIs
  <2>2. load[l].feed \in past.feeds /\ load[l].feed \in Feeds
    BY <1>1, <2>1 DEF FeedsKept, At
  <2>3. ~NamesakesPast => \A m \in load'[l].after : OfFeeds(m)
    <3>1. HAVE ~NamesakesPast
    <3>2. load[l].sample => ~Namesakes(load[l].feed.sheet)
      BY <3>1 DEF NamesakesPast
    <3>3. NewMajors(load[l].feed.sheet, load[l].sample)
             \subseteq NewMajors(load[l].feed.sheet, FALSE)
      BY <1>1, <2>2, <3>2, SampleMajors
    <3>4. QED
      BY <2>1, <2>2, <3>3 DEF OfFeeds
  <2>4. FeedsKept'
    BY <1>3, <2>1 DEF At
  <2>5. MajorsOfFeeds'
    BY <1>1, <1>2, <2>1, <2>3, MajorsStay DEF tables
  <2>6. CitiesOnce' /\ RefusedForCause'
    BY <1>1, <1>2, <2>1, CitiesOnceStays, RefusedStays DEF tables
  <2>7. QED
    BY <2>4, <2>5, <2>6 DEF CauseInv
<1>9. CASE UpsertCategory(l)
  <2>1. PICK title \in load[l].todo :
         /\ Step(l, "categories") /\ At(l, "categories")
         /\ load'[l].after = load[l].after
         /\ UNCHANGED <<countries, cities, majors, institutions, past>>
    BY <1>1, <1>9, UpsertCategoryIs
  <2>2. NamesakesPast \/ \A m \in load'[l].after : OfFeeds(m)
    BY <1>1, <2>1 DEF MajorsOfFeeds
  <2>3. FeedsKept'
    BY <1>3, <2>1 DEF At, Step
  <2>4. CitiesOnce' /\ MajorsOfFeeds' /\ RefusedForCause'
    BY <1>1, <1>2, <2>1, <2>2, CitiesOnceStays, MajorsStay, RefusedStays DEF Step
  <2>5. QED
    BY <2>3, <2>4 DEF CauseInv
<1>10. CASE StartMajors(l)
  <2>1. /\ LoadShapes' /\ Others(l) /\ At(l, "categories")
        /\ load'[l].pc = "majors" /\ load'[l].todo = load[l].after
        /\ load'[l].feed = load[l].feed /\ load'[l].sample = load[l].sample
        /\ tables' = tables /\ past' = past
    BY <1>1, <1>10, StartMajorsIs
  <2>2. NamesakesPast \/ \A m \in load'[l].todo : OfFeeds(m)
    BY <1>1, <2>1 DEF MajorsOfFeeds
  <2>3. FeedsKept'
    BY <1>3, <2>1 DEF At
  <2>4. CitiesOnce' /\ MajorsOfFeeds' /\ RefusedForCause'
    BY <1>1, <1>2, <2>1, <2>2, CitiesOnceStays, MajorsStay, RefusedStays DEF tables
  <2>5. QED
    BY <2>3, <2>4 DEF CauseInv
<1>11. CASE UpsertMajor(l)
  <2>1. PICK major \in load[l].todo :
         /\ Step(l, "majors") /\ At(l, "majors")
         /\ load'[l].todo = load[l].todo \ {major}
         /\ majors' = Upserted(majors, major.code,
                               [title |-> major.title, category |-> major.category])
         /\ UNCHANGED <<countries, cities, categories, institutions, past>>
    BY <1>1, <1>11, UpsertMajorIs
  <2>2. FeedsKept' /\ CitiesOnce' /\ RefusedForCause'
    BY <1>1, <1>2, <1>3, <2>1, CitiesOnceStays, RefusedStays DEF Step, At
  <2>3. MajorsOfFeeds'
    <3> SUFFICES ASSUME ~NamesakesPast PROVE MajorsOfFeeds'
      BY <1>2, <2>1, CauseStays DEF MajorsOfFeeds, Step
    <3>1. \A m : OfFeeds(m) => OfFeeds(m)'
      BY <1>2, <2>1, CauseStays DEF Step
    <3>2. \A m \in load[l].todo : OfFeeds(m)
      BY <1>1, <2>1 DEF MajorsOfFeeds
    <3>3. ASSUME NEW code \in DOMAIN majors'
          PROVE  \E m : OfFeeds(m) /\ m.code = code /\ majors'[code] = RowOf(m)
      <4>1. CASE code = major.code
        <5>1. majors'[code] = RowOf(major)
          BY <2>1, <3>3, <4>1 DEF Upserted, RowOf
        <5>2. QED
          BY <2>1, <3>2, <4>1, <5>1
      <4>2. CASE code # major.code
        <5>1. code \in DOMAIN majors /\ majors'[code] = majors[code]
          BY <2>1, <3>3, <4>2 DEF Upserted
        <5>2. QED
          BY <1>1, <5>1 DEF MajorsOfFeeds
      <4>3. QED
        BY <4>1, <4>2
    <3>4. ASSUME NEW k \in Loaders
          PROVE  /\ load'[k].pc = "categories" => \A m \in load'[k].after : OfFeeds(m)
                 /\ load'[k].pc = "majors" => \A m \in load'[k].todo : OfFeeds(m)
      BY <1>1, <2>1, <3>2 DEF MajorsOfFeeds, Step, Others, At
    <3>5. QED
      BY <3>1, <3>3, <3>4 DEF MajorsOfFeeds, At, RowOf
  <2>4. QED
    BY <2>2, <2>3 DEF CauseInv
<1>12. CASE ReadPlaces(l)
  <2>1. PICK todo :
         /\ LoadShapes' /\ Others(l) /\ At(l, "majors")
         /\ load'[l].pc = "institutions"
         /\ load'[l].feed = load[l].feed /\ load'[l].sample = load[l].sample
         /\ tables' = tables /\ past' = past
    BY <1>12, ReadPlacesIs
  <2>2. QED
    BY <2>1, CauseStepBeside DEF At, tables
<1>13. CASE UpsertInstitution(l)
  <2>1. PICK inst \in load[l].todo :
         /\ Step(l, "institutions") /\ At(l, "institutions")
         /\ UNCHANGED <<countries, cities, categories, majors, past>>
    BY <1>1, <1>13, UpsertInstitutionIs
  <2>2. QED
    BY <2>1, CauseStepBeside DEF Step, At
<1>14. CASE Verify(l) \/ BreakOff(l)
  <2>1. PICK pc :
         /\ Step(l, pc) /\ pc \in {"refused", "done", "broken"}
         /\ pc = "refused" => RepeatedCity \/ RepeatedMajor
         /\ ~At(l, "idle")
         /\ UNCHANGED <<countries, cities, categories, majors, institutions, past>>
    BY <1>1, <1>14, EndIs
  <2>2. pc = "refused" => Cause
    BY <2>1, FailsForCause
  <2>3. QED
    BY <2>1, <2>2, CauseStepBeside DEF Step
<1>15. QED
  BY <1>4, <1>5, <1>6, <1>7, <1>8, <1>9, <1>10, <1>11, <1>12, <1>13, <1>14

LEMMA CauseSafe == ReferenceSpec => []CauseInv
<1>1. ReferenceInit => CauseInv
  <2> SUFFICES ASSUME ReferenceInit PROVE CauseInv
    OBVIOUS
  <2>1. \A l \in Loaders : load[l].pc = "idle"
    BY DEF ReferenceInit, Unloaded
  <2>2. DOMAIN majors = {} /\ past.feeds = {} /\ \A c \in City : cities[c] = 0
    BY DEF ReferenceInit
  <2>3. IsFiniteSet(past.feeds)
    BY <2>2, FS_EmptySet
  <2>4. CitiesOnce /\ MajorsOfFeeds /\ FeedsKept /\ RefusedForCause
    BY <2>1, <2>2, <2>3 DEF CitiesOnce, MajorsOfFeeds, FeedsKept, RefusedForCause, At
  <2>5. QED
    BY <2>4 DEF CauseInv
<1>2. LoadTypes /\ SeedInv /\ CauseInv /\ [ReferenceNext]_referenceVars => CauseInv'
  <2> SUFFICES ASSUME LoadTypes, SeedInv, CauseInv, [ReferenceNext]_referenceVars PROVE CauseInv'
    OBVIOUS
  <2>1. CASE LoadNext
    BY <2>1, CauseStep DEF LoadNext
  <2>2. ASSUME UNCHANGED <<tables, load>>,
               past'.feeds = past.feeds, past'.overlapped = past.overlapped
        PROVE  CauseInv'
    <3>1. CitiesOnce'
      BY <2>2 DEF CauseInv, CitiesOnce, At, tables
    <3>2. MajorsOfFeeds'
      BY <2>2 DEF CauseInv, MajorsOfFeeds, NamesakesPast, OfFeeds, RowOf, At, tables
    <3>3. FeedsKept' /\ RefusedForCause'
      BY <2>2 DEF CauseInv, FeedsKept, RefusedForCause, Cause, NamesakesPast, At
    <3>4. QED
      BY <3>1, <3>2, <3>3 DEF CauseInv
  <2>3. CASE SeedNext
    <3>1. UNCHANGED <<tables, load>>
      BY <2>3 DEF SeedNext, SeedTables, FindAdmin, CreateAdmin, GrantRole, SeedDies, SeedStep
    <3>2. past' = past \/ \E b : past' = [past EXCEPT !.seedDied = b]
      BY <2>3 DEF SeedNext, SeedTables, FindAdmin, CreateAdmin, GrantRole, SeedDies
    <3>3. past'.feeds = past.feeds /\ past'.overlapped = past.overlapped
      BY <3>2 DEF SeedInv
    <3>4. QED
      BY <2>2, <3>1, <3>3
  <2>4. CASE UNCHANGED referenceVars
    BY <2>2, <2>4 DEF referenceVars
  <2>5. QED
    BY <2>1, <2>3, <2>4 DEF ReferenceNext
<1>3. QED
  BY <1>1, <1>2, LoadTypesSafe, SeedSafe, PTL DEF ReferenceSpec

(* A deployment that ends badly has a cause.  The check that closes a run    *)
(* fails only where runs inserted cities at the same time, the sources had *)
(* changed, or a sheet has two categories of one title; the administrator  *)
(* is without a role only after a death between the two inserts.           *)
THEOREM DeploymentsHaveCause == ReferenceSpec => []DeploymentHasCause
<1>1. LoadTypes /\ SeedInv /\ CauseInv => DeploymentHasCause
  <2> SUFFICES ASSUME SeedInv, CauseInv, \E l \in Loaders : At(l, "refused")
               PROVE  \/ past.overlapped \/ Cardinality(past.feeds) > 1
                      \/ \E l \in Loaders : load[l].sample /\ Namesakes(load[l].feed.sheet)
    BY DEF DeploymentHasCause, FailedCheckHasCause, SeedInv
  <2>1. Cause
    BY DEF CauseInv, RefusedForCause
  <2>2. ASSUME NEW f \in past.feeds, NEW g \in past.feeds, f # g
        PROVE  Cardinality(past.feeds) > 1
    <3>1. IsFiniteSet(past.feeds)
      BY DEF CauseInv, FeedsKept
    <3>2. Cardinality({f, g}) = 2
      <4>1. IsFiniteSet({f}) /\ Cardinality({f}) = 1
        BY FS_Singleton
      <4>2. {f, g} = {f} \cup {g} /\ g \notin {f}
        BY <2>2
      <4>3. Cardinality({f} \cup {g}) = 1 + 1
        BY <4>1, <4>2, FS_AddElement
      <4>4. QED
        BY <4>2, <4>3
    <3>3. {f, g} \subseteq past.feeds
      OBVIOUS
    <3>4. Cardinality(past.feeds) \in Nat /\ Cardinality({f, g}) <= Cardinality(past.feeds)
      BY <3>1, <3>3, FS_Subset, FS_CardinalityType
    <3>5. QED
      BY <3>2, <3>4
  <2>3. QED
    BY <2>1, <2>2 DEF Cause, NamesakesPast
<1>2. QED
  BY <1>1, LoadTypesSafe, SeedSafe, CauseSafe, PTL

-----------------------------------------------------------------------------
(* The cache of the matches.                                               *)

(* An answer is true since synced: what later versions there are began then  *)
(* or afterwards.                                                          *)
TrueSince(u, version, synced) ==
    /\ synced <= clock
    /\ version < Len(turns[u]) => turns[u][version + 1] >= synced

Entries == [owner : MatchUsers, version : Nat, synced : Nat, until : Nat]
AskPC == {"idle", "query", "store", "answered"}
MatchAsk == [pc : AskPC, user : {ABSENT} \cup MatchUsers, q : {ABSENT} \cup MatchQueries,
             owner : {ABSENT} \cup MatchUsers, version : Nat, synced : Nat]

MatchTypes ==
    /\ clock \in Nat
    /\ turns \in [MatchUsers -> Seq(Nat)]
    /\ cache \in [MatchUsers \X MatchQueries -> {ABSENT} \cup Entries]
    /\ ask \in [Asks -> MatchAsk]

MatchAskFacts(r) ==
    /\ r.pc \in {"query", "store", "answered"} => r.user \in MatchUsers /\ r.synced <= clock
    /\ r.pc \in {"query", "store"} => r.q \in MatchQueries
    /\ r.pc \in {"store", "answered"} =>
          /\ r.owner = r.user /\ r.version <= Len(turns[r.user])
          /\ TrueSince(r.user, r.version, r.synced)

EntryFacts(u, e) ==
    e.owner = u /\ e.version <= Len(turns[u]) /\ TrueSince(u, e.version, e.synced)

MatchInv ==
    /\ MatchTypes
    /\ \A u \in MatchUsers : \A i \in DOMAIN turns[u] : turns[u][i] <= clock
    /\ \A r \in Asks : MatchAskFacts(ask[r])
    /\ \A u \in MatchUsers, q \in MatchQueries :
          cache[<<u, q>>] # ABSENT => EntryFacts(u, cache[<<u, q>>])

LEMMA AskGoesOn ==
  ASSUME MatchInv, NEW r \in Asks, NEW a \in MatchAsk, ask' = [ask EXCEPT ![r] = a],
         MatchAskFacts(a), UNCHANGED <<clock, turns, cache>>
  PROVE  MatchInv'
<1>1. ask' \in [Asks -> MatchAsk] /\ \A k \in Asks : ask'[k] = IF k = r THEN a ELSE ask[k]
  BY DEF MatchInv, MatchTypes
<1>2. \A k \in Asks : MatchAskFacts(ask[k])'
  BY <1>1 DEF MatchInv, MatchAskFacts, TrueSince
<1>3. QED
  BY <1>1, <1>2 DEF MatchInv, MatchTypes, EntryFacts, TrueSince

LEMMA AskSteps ==
  ASSUME MatchInv, NEW r \in Asks, NEW u \in MatchUsers, NEW q \in MatchQueries,
         AskMatches(r, u, q)
  PROVE  MatchInv'
<1>1. UNCHANGED <<clock, turns, cache>>
  BY DEF AskMatches
<1>2. CASE Kept(CacheKey(u, q)) /\ Hit(r, u, q, cache[CacheKey(u, q)])
  <2> DEFINE e == cache[<<u, q>>]
             a == [pc |-> "answered", user |-> u, q |-> q, owner |-> e.owner,
                   version |-> e.version, synced |-> e.synced]
  <2>1. e \in Entries /\ EntryFacts(u, e) /\ ask' = [ask EXCEPT ![r] = a]
    BY <1>2 DEF Kept, CacheKey, Hit, MatchInv, MatchTypes
  <2>2. a \in MatchAsk
    BY <2>1 DEF MatchAsk, AskPC, Entries
  <2>3. MatchAskFacts(a)
    BY <2>1 DEF MatchAskFacts, EntryFacts, TrueSince
  <2>4. QED
    BY <1>1, <2>1, <2>2, <2>3, AskGoesOn
<1>3. CASE Missed(r, u, q)
  <2> DEFINE a == [Unasked EXCEPT !.pc = "query", !.user = u, !.q = q, !.synced = clock]
  <2>1. clock \in Nat /\ clock <= clock
    BY DEF MatchInv, MatchTypes
  <2>2. a \in MatchAsk
    BY <2>1 DEF MatchAsk, AskPC, Unasked
  <2>3. a.pc = "query" /\ a.user = u /\ a.q = q /\ a.synced = clock
    BY DEF Unasked
  <2>4. MatchAskFacts(a)
    BY <2>1, <2>3 DEF MatchAskFacts
  <2>5. ask' = [ask EXCEPT ![r] = a]
    BY <1>3 DEF Missed
  <2>6. QED
    BY <1>1, <2>2, <2>4, <2>5, AskGoesOn
<1>4. QED
  BY <1>2, <1>3 DEF AskMatches

LEMMA QuerySteps ==
  ASSUME MatchInv, NEW r \in Asks, QueryMatches(r) \/ QueryFails(r)
  PROVE  MatchInv'
<1>1. UNCHANGED <<clock, turns, cache>>
  BY DEF QueryMatches, QueryFails
<1>2. CASE QueryFails(r)
  <2>1. Unasked \in MatchAsk /\ MatchAskFacts(Unasked)
    BY DEF MatchAsk, AskPC, Unasked, MatchAskFacts
  <2>2. QED
    BY <1>1, <1>2, <2>1, AskGoesOn DEF QueryFails
<1>3. CASE QueryMatches(r)
  <2>1. ask[r] \in MatchAsk /\ MatchAskFacts(ask[r]) /\ ask[r].pc = "query"
    BY <1>3 DEF MatchInv, MatchTypes, QueryMatches
  <2> DEFINE u == ask[r].user
             a == [ask[r] EXCEPT !.pc = "store", !.owner = u, !.version = Len(turns[u])]
  <2>2. u \in MatchUsers /\ ask[r].q \in MatchQueries /\ Len(turns[u]) \in Nat
    BY <2>1 DEF MatchAskFacts, MatchInv, MatchTypes
  <2>3. a \in MatchAsk
    BY <2>1, <2>2 DEF MatchAsk, AskPC
  <2>4. /\ a.pc = "store" /\ a.user = u /\ a.q = ask[r].q /\ a.owner = u
        /\ a.version = Len(turns[u]) /\ a.synced = ask[r].synced
    BY <2>1 DEF MatchAsk
  <2>5. MatchAskFacts(a)
    BY <2>1, <2>2, <2>4 DEF MatchAskFacts, TrueSince
  <2>6. ask' = [ask EXCEPT ![r] = a]
    BY <1>3 DEF QueryMatches, MatchInv, MatchTypes
  <2>7. QED
    BY <1>1, <2>3, <2>5, <2>6, AskGoesOn
<1>4. QED
  BY <1>2, <1>3

LEMMA StoreStep ==
  ASSUME MatchInv, NEW r \in Asks, StoreMatches(r)
  PROVE  MatchInv'
<1>1. ask[r] \in MatchAsk /\ MatchAskFacts(ask[r]) /\ ask[r].pc = "store"
  BY DEF MatchInv, MatchTypes, StoreMatches
<1>2. PICK u \in MatchUsers, q \in MatchQueries : u = ask[r].user /\ q = ask[r].q
  BY <1>1 DEF MatchAskFacts
<1>3. PICK e : e = [owner |-> ask[r].owner, version |-> ask[r].version, synced |-> ask[r].synced,
                    until |-> clock + CacheTTL[ask[r].q]]
  OBVIOUS
<1>4. e \in Entries /\ EntryFacts(u, e)
  <2>1. clock + CacheTTL[q] \in Nat
    BY TTLAssumption DEF MatchInv, MatchTypes
  <2>2. /\ ask[r].owner \in MatchUsers /\ ask[r].version \in Nat /\ ask[r].synced \in Nat
        /\ ask[r].owner = u /\ ask[r].version <= Len(turns[u])
        /\ TrueSince(u, ask[r].version, ask[r].synced)
    BY <1>1, <1>2 DEF MatchAskFacts, MatchAsk
  <2>3. e \in Entries
    BY <1>2, <1>3, <2>1, <2>2 DEF Entries
  <2>4. QED
    BY <1>3, <2>2, <2>3 DEF EntryFacts
<1>5. UNCHANGED <<clock, turns>> /\ cache' \in {cache, [cache EXCEPT ![<<u, q>>] = e]}
  BY <1>2, <1>3 DEF StoreMatches, CacheKey
<1>6. /\ cache' \in [MatchUsers \X MatchQueries -> {ABSENT} \cup Entries]
      /\ \A v \in MatchUsers, k \in MatchQueries :
            cache'[<<v, k>>] # ABSENT => EntryFacts(v, cache'[<<v, k>>])
  <2>1. CASE cache' = cache
    BY <2>1 DEF MatchInv, MatchTypes
  <2>2. CASE cache' = [cache EXCEPT ![<<u, q>>] = e]
    <3>1. \A v \in MatchUsers, k \in MatchQueries :
             \/ v = u /\ k = q /\ cache'[<<v, k>>] = e
             \/ cache'[<<v, k>>] = cache[<<v, k>>]
      BY <2>2 DEF MatchInv, MatchTypes
    <3>2. QED
      BY <1>4, <2>2, <3>1 DEF MatchInv, MatchTypes
  <2>3. QED
    BY <1>5, <2>1, <2>2
<1>7. PICK a \in MatchAsk : a = [ask[r] EXCEPT !.pc = "answered"]
  BY <1>1 DEF MatchAsk, AskPC
<1>8. /\ a.pc = "answered" /\ a.user = u /\ a.owner = ask[r].owner
      /\ a.version = ask[r].version /\ a.synced = ask[r].synced
  BY <1>1, <1>2, <1>7 DEF MatchAsk
<1>9. MatchAskFacts(a)
  BY <1>1, <1>2, <1>8 DEF MatchAskFacts
<1>10. ask' = [ask EXCEPT ![r] = a]
  BY <1>7 DEF StoreMatches, MatchInv, MatchTypes
<1>11. ask' \in [Asks -> MatchAsk] /\ \A k \in Asks : MatchAskFacts(ask'[k])
  BY <1>9, <1>10 DEF MatchInv, MatchTypes
<1>12. QED
  BY <1>5, <1>6, <1>11 DEF MatchInv, MatchTypes, EntryFacts, MatchAskFacts, TrueSince

(* Time goes on and scores are computed anew: what was true stays true since.*)
Later ==
    /\ clock' \in Nat /\ clock <= clock' /\ turns' \in [MatchUsers -> Seq(Nat)]
    /\ \A u \in MatchUsers : \A i \in DOMAIN turns'[u] : turns'[u][i] <= clock'
    /\ \A u \in MatchUsers, version \in Nat, synced \in Nat :
          version <= Len(turns[u]) /\ TrueSince(u, version, synced) =>
             version <= Len(turns'[u]) /\ TrueSince(u, version, synced)'

LEMMA LaterSteps ==
  ASSUME MatchInv, Tick \/ \E u \in MatchUsers : Recompute(u)
  PROVE  MatchInv'
<1>1. UNCHANGED <<cache, ask>>
  BY DEF Tick, Recompute
<1>2. Later
  <2>1. CASE Tick
    <3>1. clock' = clock + 1 /\ turns' = turns /\ clock \in Nat
      BY <2>1 DEF Tick, MatchInv, MatchTypes
    <3>2. \A u \in MatchUsers : \A i \in DOMAIN turns[u] : turns[u][i] \in Nat /\ turns[u][i] <= clock
      BY DEF MatchInv, MatchTypes
    <3>3. QED
      BY <3>1, <3>2 DEF MatchInv, MatchTypes, TrueSince, Later
  <2>2. ASSUME NEW u \in MatchUsers, Recompute(u)
        PROVE  Later
    <3>1. clock' = clock /\ clock \in Nat /\ turns' = [turns EXCEPT ![u] = Append(turns[u], clock)]
      BY <2>2 DEF Recompute, MatchInv, MatchTypes
    <3>2. /\ turns[u] \in Seq(Nat) /\ Append(turns[u], clock) \in Seq(Nat)
          /\ Len(turns[u]) \in Nat /\ DOMAIN turns[u] = 1 .. Len(turns[u])
          /\ DOMAIN Append(turns[u], clock) = 1 .. Len(turns[u]) + 1
          /\ Len(Append(turns[u], clock)) = Len(turns[u]) + 1
          /\ Append(turns[u], clock)[Len(turns[u]) + 1] = clock
          /\ \A i \in 1 .. Len(turns[u]) : Append(turns[u], clock)[i] = turns[u][i]
      BY <3>1 DEF MatchInv, MatchTypes
    <3>3. \A v \in MatchUsers : turns'[v] = IF v = u THEN Append(turns[u], clock) ELSE turns[v]
      BY <3>1 DEF MatchInv, MatchTypes
    <3>4. turns' \in [MatchUsers -> Seq(Nat)]
      BY <3>1, <3>2 DEF MatchInv, MatchTypes
    <3>5. \A v \in MatchUsers : \A i \in DOMAIN turns'[v] : turns'[v][i] <= clock'
      BY <3>1, <3>2, <3>3 DEF MatchInv
    <3>6. ASSUME NEW v \in MatchUsers, NEW version \in Nat, NEW synced \in Nat,
                 version <= Len(turns[v]), TrueSince(v, version, synced)
          PROVE  version <= Len(turns'[v]) /\ TrueSince(v, version, synced)'
      <4>1. CASE v # u
        BY <3>1, <3>3, <3>6, <4>1 DEF TrueSince
      <4>2. CASE v = u
        <5>1. CASE version < Len(turns[u])
          <6>1. version + 1 \in 1 .. Len(turns[u])
            BY <3>2, <5>1
          <6>2. QED
            BY <3>1, <3>2, <3>3, <3>6, <4>2, <5>1, <6>1 DEF TrueSince
        <5>2. CASE version = Len(turns[u])
          BY <3>1, <3>2, <3>3, <3>6, <4>2, <5>2 DEF TrueSince
        <5>3. QED
          BY <3>2, <3>6, <4>2, <5>1, <5>2
      <4>3. QED
        BY <4>1, <4>2
    <3>7. QED
      BY <3>1, <3>4, <3>5, <3>6 DEF Later
  <2>3. QED
    BY <2>1, <2>2
<1>3. \A r \in Asks : MatchAskFacts(ask[r])'
  <2> SUFFICES ASSUME NEW r \in Asks
               PROVE  MatchAskFacts(ask[r])'
    OBVIOUS
  <2>1. ask[r] \in MatchAsk /\ MatchAskFacts(ask[r]) /\ ask'[r] = ask[r]
    BY <1>1 DEF MatchInv, MatchTypes
  <2>2. ask[r].synced <= clock => ask[r].synced <= clock'
    BY <1>2, <2>1 DEF Later, MatchAsk, MatchInv, MatchTypes
  <2>3. QED
    BY <1>2, <2>1, <2>2 DEF Later, MatchAskFacts, MatchAsk
<1>4. \A u \in MatchUsers, q \in MatchQueries :
         cache'[<<u, q>>] # ABSENT => EntryFacts(u, cache[<<u, q>>])'
  <2> SUFFICES ASSUME NEW u \in MatchUsers, NEW q \in MatchQueries, cache[<<u, q>>] # ABSENT
               PROVE  EntryFacts(u, cache[<<u, q>>])'
    BY <1>1
  <2>1. PICK e \in Entries : e = cache[<<u, q>>] /\ EntryFacts(u, e)
    BY DEF MatchInv, MatchTypes
  <2>2. EntryFacts(u, e)'
    BY <1>2, <2>1 DEF Later, EntryFacts, Entries
  <2>3. QED
    BY <1>1, <2>1, <2>2
<1>5. QED
  BY <1>1, <1>2, <1>3, <1>4 DEF Later, MatchInv, MatchTypes

LEMMA MatchStutter ==
  ASSUME MatchInv, UNCHANGED matchVars
  PROVE  MatchInv'
  BY DEF MatchInv, MatchTypes, MatchAskFacts, EntryFacts, TrueSince, matchVars

LEMMA MatchSafe == CatalogueSpec => []MatchInv
<1>1. CatalogueInit => MatchInv
  <2> SUFFICES ASSUME MatchInit
               PROVE  MatchInv
    BY DEF CatalogueInit
  <2>1. <<0>> \in Seq(Nat) /\ Len(<<0>>) = 1 /\ <<0>>[1] = 0 /\ DOMAIN <<0>> = {1}
    OBVIOUS
  <2>2. MatchTypes
    BY <2>1 DEF MatchInit, MatchTypes, Unasked, MatchAsk, AskPC
  <2>3. \A r \in Asks : MatchAskFacts(ask[r])
    BY DEF MatchInit, MatchAskFacts, Unasked
  <2>4. QED
    BY <2>1, <2>2, <2>3 DEF MatchInit, MatchInv
<1>2. MatchInv /\ [CatalogueNext]_catalogueVars => MatchInv'
  <2> SUFFICES ASSUME MatchInv, [CatalogueNext]_catalogueVars
               PROVE  MatchInv'
    OBVIOUS
  <2>1. CASE ListNext
    BY <2>1, MatchStutter DEF ListNext, WalkStep, RowStep, StartWalk, ReadKept, ReadRows, ReadTotal,
       TurnPage, Forget,
       AddRow, RemoveRow, RewriteRow, MarkAllAsRead, PassDeadline
  <2>2. CASE MatchNext
    BY <2>2, AskSteps, QuerySteps, StoreStep, LaterSteps DEF MatchNext
  <2>3. CASE UNCHANGED catalogueVars
    BY <2>3, MatchStutter DEF catalogueVars
  <2>4. QED
    BY <2>1, <2>2, <2>3 DEF CatalogueNext
<1>3. QED
  BY <1>1, <1>2, PTL DEF CatalogueSpec

(* An answer is true since its synced_at, also one from the cache.          *)
THEOREM ServedTrue == CatalogueSpec => []ServedIsTrueSince
<1>1. MatchInv => ServedIsTrueSince
  BY DEF MatchInv, MatchAskFacts, TrueSince, ServedIsTrueSince
<1>2. QED
  BY <1>1, MatchSafe, PTL


-----------------------------------------------------------------------------
(* The pages of a list.                                                    *)

WalkPC == {"idle", "page", "ended"}
PageRows == [shown : Seq(ListRows), of : SUBSET ListRows]
WalkRow == [pc : WalkPC, q : {ABSENT} \cup ListQueries, page : Nat,
            rows : {ABSENT} \cup PageRows, total : {ABSENT} \cup Nat,
            asOf : SUBSET Nat, hit : BOOLEAN, seen : Seq(ListRows),
            first : SUBSET ListRows, last : SUBSET ListRows, left : SUBSET ListRows,
            came : SUBSET ListRows, tied : SUBSET ListRows, short : BOOLEAN]

ListTypes ==
    /\ stored \subseteq ListRows /\ OneVersion(stored)
    /\ overdue \subseteq Nat
    /\ walk \in [Walkers -> WalkRow]

-----------------------------------------------------------------------------
(* Order and place.                                                        *)

(* The rows a page shows before a row that ties with none.                 *)
Ahead(q, rows, x) == {y \in rows : y # x /\ Before(q, y, x)}

LEMMA AheadCounted ==
  ASSUME NEW q, NEW rows \in SUBSET ListRows, NEW x \in rows
  PROVE  /\ IsFiniteSet(rows) /\ IsFiniteSet(Ahead(q, rows, x))
         /\ Cardinality(rows) \in Nat /\ Cardinality(Ahead(q, rows, x)) \in Nat
         /\ Cardinality(Ahead(q, rows, x)) < Cardinality(rows)
<1>1. IsFiniteSet(rows)
  BY RowsAssumption, FS_Subset
<1>2. Ahead(q, rows, x) \subseteq rows \ {x}
  BY DEF Ahead
<1>3. /\ IsFiniteSet(rows \ {x}) /\ Cardinality(rows \ {x}) = Cardinality(rows) - 1
  BY <1>1, FS_RemoveElement
<1>4. IsFiniteSet(Ahead(q, rows, x)) /\ Cardinality(Ahead(q, rows, x)) <= Cardinality(rows \ {x})
  BY <1>2, <1>3, FS_Subset
<1>5. Cardinality(rows) \in Nat /\ Cardinality(Ahead(q, rows, x)) \in Nat
  BY <1>1, <1>4, FS_CardinalityType
<1>6. QED
  BY <1>1, <1>3, <1>4, <1>5

LEMMA FewerAhead ==
  ASSUME NEW q, NEW rows \in SUBSET ListRows, NEW more \in SUBSET ListRows,
         NEW x \in rows, x \in more, Ahead(q, rows, x) \subseteq Ahead(q, more, x)
  PROVE  /\ Cardinality(Ahead(q, rows, x)) \in Nat /\ Cardinality(Ahead(q, more, x)) \in Nat
         /\ Cardinality(Ahead(q, rows, x)) <= Cardinality(Ahead(q, more, x))
<1>1. /\ IsFiniteSet(Ahead(q, more, x))
      /\ Cardinality(Ahead(q, rows, x)) \in Nat /\ Cardinality(Ahead(q, more, x)) \in Nat
  BY AheadCounted
<1>2. QED
  BY <1>1, FS_Subset

LEMMA OrderTypes ==
  ASSUME NEW q, NEW rows \in SUBSET ListRows, NEW order \in Orders(q, rows)
  PROVE  order \in Seq(rows) /\ Len(order) = Cardinality(rows)
<1>1. Cardinality(rows) \in Nat
  BY RowsAssumption, FS_Subset, FS_CardinalityType
<1>2. order \in [1 .. Cardinality(rows) -> rows]
  BY DEF Orders, SetToSeqs
<1>3. QED
  BY <1>1, <1>2

(* The place of a row that ties with none is one more than what is ahead.   *)
LEMMA PlaceInOrder ==
  ASSUME NEW q, NEW rows \in SUBSET ListRows, NEW order \in Orders(q, rows),
         NEW x \in rows \ Tied(q, rows)
  PROVE  \E i \in 1 .. Len(order) : order[i] = x /\ i = Cardinality(Ahead(q, rows, x)) + 1
<1> DEFINE n == Cardinality(rows)
<1>1. IsFiniteSet(rows) /\ n \in Nat
  BY AheadCounted
<1>2. /\ order \in [1 .. n -> rows]
      /\ \A i, j \in 1 .. n : i # j => order[i] # order[j]
      /\ \A i, j \in 1 .. n : i < j => Before(q, order[i], order[j])
  BY DEF Orders, SetToSeqs
<1>3. Len(order) = n
  BY OrderTypes
<1>4. \A y \in rows : \E i \in 1 .. n : order[i] = y
  <2>1. order \in Injection(1 .. n, rows)
    BY <1>2 DEF Injection, IsInjective
  <2>2. Cardinality(1 .. n) = n
    BY <1>1, FS_Interval
  <2>3. order \in Surjection(1 .. n, rows)
    BY <1>1, <2>1, <2>2, FS_Injection
  <2>4. QED
    BY <2>3 DEF Surjection
<1>5. PICK i \in 1 .. n : order[i] = x
  BY <1>4
<1>6. Ahead(q, rows, x) = {order[j] : j \in 1 .. i - 1}
  <2>1. ASSUME NEW j \in 1 .. i - 1
        PROVE  order[j] \in Ahead(q, rows, x)
    <3>1. j \in 1 .. n /\ j < i
      BY <1>1
    <3>2. QED
      BY <1>2, <1>5, <3>1 DEF Ahead
  <2>2. ASSUME NEW y \in Ahead(q, rows, x)
        PROVE  \E j \in 1 .. i - 1 : order[j] = y
    <3>1. y \in rows /\ y # x /\ Before(q, y, x)
      BY DEF Ahead
    <3>2. \E j \in 1 .. n : order[j] = y
      BY <1>4, <3>1
    <3>3. PICK j \in 1 .. n : order[j] = y
      BY <3>2
    <3>4. ~(i < j)
      <4> SUFFICES ASSUME i < j
                   PROVE  FALSE
        OBVIOUS
      <4>1. Before(q, x, y)
        BY <1>2, <1>5, <3>3
      <4>2. QED
        BY <3>1, <4>1 DEF Ties, Tied
    <3>5. j # i
      BY <1>5, <3>1, <3>3
    <3>6. QED
      BY <1>1, <3>3, <3>4, <3>5
  <2>3. QED
    BY <2>1, <2>2
<1>7. Cardinality(Ahead(q, rows, x)) = i - 1
  <2> DEFINE f == [j \in 1 .. i - 1 |-> order[j]]
  <2>1. \A j, k \in 1 .. i - 1 : order[j] = order[k] => j = k
    BY <1>1, <1>2
  <2>2. f \in Bijection(1 .. i - 1, Ahead(q, rows, x))
    BY <1>6, <2>1 DEF Bijection, Injection, Surjection, IsInjective
  <2>3. IsFiniteSet(1 .. i - 1) /\ Cardinality(1 .. i - 1) = i - 1
    <3>1. i - 1 \in Nat
      BY <1>1
    <3>2. /\ IsFiniteSet(1 .. i - 1)
          /\ Cardinality(1 .. i - 1) = IF 1 > i - 1 THEN 0 ELSE (i - 1) - 1 + 1
      BY <3>1, FS_Interval
    <3>3. QED
      BY <3>1, <3>2
  <2>4. QED
    BY <2>2, <2>3, FS_Bijection DEF ExistsBijection
<1>8. QED
  BY <1>1, <1>3, <1>5, <1>7

LEMMA LesserOfTwo ==
  ASSUME NEW a \in Nat, NEW b \in Nat
  PROVE  Min({a, b}) = IF a <= b THEN a ELSE b
<1> DEFINE m == IF a <= b THEN a ELSE b
<1>1. m \in {a, b} /\ \A y \in {a, b} : m <= y
  OBVIOUS
<1>2. \A z \in {a, b} : (\A y \in {a, b} : z <= y) => z = m
  OBVIOUS
<1>3. QED
  BY <1>1, <1>2 DEF Min

(* What a page shows of an order: the rows at the places it stands for.     *)
LEMMA PageShows ==
  ASSUME NEW S, NEW order \in Seq(S), NEW page \in Nat \ {0}
  PROVE  /\ PageOf(order, page) \in Seq(S)
         /\ Skip(page) \in Nat /\ Skip(page) + PageSize = page * PageSize
         /\ \A j \in DOMAIN PageOf(order, page) :
               /\ j \in Nat \ {0} /\ j <= PageSize /\ Skip(page) + j \in 1 .. Len(order)
               /\ PageOf(order, page)[j] = order[Skip(page) + j]
         /\ \A i \in 1 .. Len(order) : Skip(page) < i /\ i <= page * PageSize =>
               i - Skip(page) \in DOMAIN PageOf(order, page)
<1>1. PageSize \in Nat \ {0}
  BY PageAssumption
<1>2. PICK k \in Nat : k = Skip(page)
  BY <1>1 DEF Skip
<1>3. Skip(page) + PageSize = page * PageSize
  BY <1>1 DEF Skip
<1>4. PICK b \in Nat : /\ b = Min({Len(order), k + PageSize})
                       /\ b = IF Len(order) <= k + PageSize THEN Len(order) ELSE k + PageSize
  <2>1. Len(order) \in Nat /\ k + PageSize \in Nat
    BY <1>1
  <2>2. QED
    BY <2>1, LesserOfTwo
<1>5. PICK s : s = SubSeq(order, k + 1, b) /\ PageOf(order, page) = s
  BY <1>2, <1>4 DEF PageOf
<1>6. b <= Len(order)
  BY <1>1, <1>4
<1>7. /\ s \in Seq(S)
      /\ Len(s) = IF k + 1 <= b THEN b - (k + 1) + 1 ELSE 0
      /\ \A i \in 1 .. b - (k + 1) + 1 : s[i] = order[(k + 1) + i - 1]
  <2>1. \A i \in k + 1 .. b : order[i] \in S
    BY <1>6
  <2>2. QED
    BY <1>5, <2>1, SubSeqProperties
<1>8. DOMAIN s = 1 .. Len(s)
  BY <1>7, LenProperties
<1>9. ASSUME NEW j \in DOMAIN s
      PROVE  /\ j \in Nat \ {0} /\ j <= PageSize /\ k + j \in 1 .. Len(order)
             /\ s[j] = order[k + j]
  <2>1. k + 1 <= b /\ j \in 1 .. b - (k + 1) + 1
    BY <1>7, <1>8
  <2>2. s[j] = order[(k + 1) + j - 1] /\ (k + 1) + j - 1 = k + j
    BY <1>7, <2>1
  <2>3. QED
    BY <1>1, <1>4, <1>6, <2>1, <2>2
<1>10. ASSUME NEW i \in 1 .. Len(order), k < i, i <= k + PageSize
       PROVE  i - k \in DOMAIN s
  <2>1. i <= b /\ k + 1 <= b
    BY <1>1, <1>4, <1>10
  <2>2. QED
    BY <1>7, <1>8, <1>10, <2>1
<1>11. QED
  BY <1>2, <1>3, <1>5, <1>7, <1>9, <1>10

(* A page cut from the rows O shows each of them at most once, and those that *)
(* tie with none if their place is on it.                                  *)
PageCut(q, O, page, shown) ==
    /\ shown \in Seq(ListRows) /\ ToSet(shown) \subseteq O
    /\ \A i, j \in DOMAIN shown : shown[i] = shown[j] => i = j
    /\ \A x \in O \ Tied(q, O) :
          x \in ToSet(shown) <=> /\ Skip(page) <= Cardinality(Ahead(q, O, x))
                                 /\ Cardinality(Ahead(q, O, x)) < page * PageSize

LEMMA PageIsCut ==
  ASSUME NEW q, NEW O \in SUBSET ListRows, NEW order \in Orders(q, O), NEW page \in Nat \ {0}
  PROVE  PageCut(q, O, page, PageOf(order, page))
<1>0. order \in Seq(O) /\ \A i, j \in 1 .. Len(order) : order[i] = order[j] => i = j
  <2>1. Cardinality(O) \in Nat
    BY RowsAssumption, FS_Subset, FS_CardinalityType
  <2>2. \A i, j \in 1 .. Cardinality(O) : i # j => order[i] # order[j]
    BY DEF Orders, SetToSeqs
  <2>3. QED
    BY <2>1, <2>2, OrderTypes
<1>1. /\ PageOf(order, page) \in Seq(O)
      /\ Skip(page) \in Nat /\ Skip(page) + PageSize = page * PageSize
      /\ \A j \in DOMAIN PageOf(order, page) :
            /\ j \in Nat \ {0} /\ j <= PageSize /\ Skip(page) + j \in 1 .. Len(order)
            /\ PageOf(order, page)[j] = order[Skip(page) + j]
      /\ \A i \in 1 .. Len(order) : Skip(page) < i /\ i <= page * PageSize =>
            i - Skip(page) \in DOMAIN PageOf(order, page)
  BY <1>0, PageShows
<1>2. PICK k \in Nat : k = Skip(page)
  BY <1>1
<1> DEFINE shown == PageOf(order, page)
<1> HIDE DEF shown
<1>3. /\ shown \in Seq(O) /\ k + PageSize = page * PageSize
      /\ \A j \in DOMAIN shown :
            /\ j \in Nat \ {0} /\ j <= PageSize /\ k + j \in 1 .. Len(order)
            /\ shown[j] = order[k + j]
      /\ \A i \in 1 .. Len(order) : k < i /\ i <= page * PageSize => i - k \in DOMAIN shown
  BY <1>1, <1>2 DEF shown
<1>4. PageSize \in Nat \ {0} /\ page * PageSize \in Nat
  BY PageAssumption
<1>5. shown \in Seq(ListRows) /\ ToSet(shown) \subseteq O
  BY <1>3, SeqMonotonic, LenProperties DEF ToSet
<1>6. \A i, j \in DOMAIN shown : shown[i] = shown[j] => i = j
  <2> SUFFICES ASSUME NEW i \in DOMAIN shown, NEW j \in DOMAIN shown, shown[i] = shown[j]
               PROVE  i = j
    OBVIOUS
  <2>1. /\ i \in Nat /\ j \in Nat /\ k + i \in 1 .. Len(order) /\ k + j \in 1 .. Len(order)
        /\ order[k + i] = order[k + j]
    BY <1>3
  <2>2. k + i = k + j
    BY <1>0, <2>1
  <2>3. QED
    BY <2>1, <2>2
<1>7. ASSUME NEW x \in O \ Tied(q, O)
      PROVE  x \in ToSet(shown) <=> /\ k <= Cardinality(Ahead(q, O, x))
                                    /\ Cardinality(Ahead(q, O, x)) < page * PageSize
  <2>1. PICK i \in 1 .. Len(order) : order[i] = x /\ i = Cardinality(Ahead(q, O, x)) + 1
    BY PlaceInOrder
  <2>2. Cardinality(Ahead(q, O, x)) \in Nat
    BY AheadCounted
  <2>3. ASSUME x \in ToSet(shown)
        PROVE  k < i /\ i <= page * PageSize
    <3>1. PICK j \in DOMAIN shown : shown[j] = x
      BY <2>3 DEF ToSet
    <3>2. j \in Nat \ {0} /\ j <= PageSize /\ k + j \in 1 .. Len(order) /\ order[k + j] = x
      BY <1>3, <3>1
    <3>3. i = k + j
      BY <1>0, <2>1, <3>2
    <3>4. QED
      BY <1>3, <1>4, <3>2, <3>3
  <2>4. ASSUME k < i, i <= page * PageSize
        PROVE  x \in ToSet(shown)
    <3>1. i - k \in DOMAIN shown
      BY <1>3, <2>4
    <3>2. shown[i - k] = order[k + (i - k)] /\ k + (i - k) = i
      BY <1>3, <2>1, <3>1
    <3>3. QED
      BY <2>1, <3>1, <3>2 DEF ToSet
  <2>5. QED
    BY <1>4, <2>1, <2>2, <2>3, <2>4
<1>8. QED
  BY <1>2, <1>5, <1>6, <1>7 DEF PageCut, shown

(* hasNext is true as long as the count says that rows are left.            *)
LEMMA NextWhileRowsLeft ==
  ASSUME NEW page \in Nat, NEW total \in Nat, total > page * PageSize
  PROVE  HasNext(page, total)
<1>1. PageSize \in Nat \ {0}
  BY PageAssumption
<1>2. total + PageSize - 1 >= (page + 1) * PageSize
  BY <1>1
<1>3. (total + PageSize - 1) \div PageSize >= page + 1
  BY <1>1, <1>2
<1>4. QED
  BY <1>1, <1>3 DEF HasNext

LEMMA ShownAfterPage ==
  ASSUME NEW S, NEW s \in Seq(S), NEW t \in Seq(S)
  PROVE  s \o t \in Seq(S) /\ ToSet(s \o t) = ToSet(s) \cup ToSet(t)
<1>1. /\ Len(s) \in Nat /\ DOMAIN s = 1 .. Len(s)
      /\ Len(t) \in Nat /\ DOMAIN t = 1 .. Len(t)
  BY LenProperties
<1>2. /\ s \o t \in Seq(S) /\ Len(s \o t) = Len(s) + Len(t)
      /\ \A i \in 1 .. Len(s) + Len(t) :
            (s \o t)[i] = IF i <= Len(s) THEN s[i] ELSE t[i - Len(s)]
  BY ConcatProperties
<1>3. DOMAIN (s \o t) = 1 .. Len(s) + Len(t)
  BY <1>2, LenProperties
<1>4. ASSUME NEW i \in DOMAIN s
      PROVE  i \in DOMAIN (s \o t) /\ (s \o t)[i] = s[i]
  BY <1>1, <1>2, <1>3
<1>5. ASSUME NEW i \in DOMAIN t
      PROVE  Len(s) + i \in DOMAIN (s \o t) /\ (s \o t)[Len(s) + i] = t[i]
  <2>1. Len(s) + i \in 1 .. Len(s) + Len(t) /\ ~(Len(s) + i <= Len(s))
        /\ (Len(s) + i) - Len(s) = i
    BY <1>1
  <2>2. QED
    BY <1>2, <1>3, <2>1
<1>6. ASSUME NEW i \in DOMAIN (s \o t)
      PROVE  (s \o t)[i] \in ToSet(s) \cup ToSet(t)
  <2>1. CASE i <= Len(s)
    BY <1>1, <1>2, <1>3, <2>1 DEF ToSet
  <2>2. CASE ~(i <= Len(s))
    <3>1. i - Len(s) \in DOMAIN t
      BY <1>1, <1>3, <2>2
    <3>2. QED
      BY <1>2, <1>3, <2>2, <3>1 DEF ToSet
  <2>3. QED
    BY <2>1, <2>2
<1>7. ToSet(s \o t) \subseteq ToSet(s) \cup ToSet(t)
  BY <1>6 DEF ToSet
<1>8. ToSet(s) \subseteq ToSet(s \o t)
  BY <1>4 DEF ToSet
<1>9. ToSet(t) \subseteq ToSet(s \o t)
  BY <1>5 DEF ToSet
<1>10. QED
  BY <1>2, <1>7, <1>8, <1>9

-----------------------------------------------------------------------------
(* A walk.                                                                 *)

(* What a page was cut from: rows the query wants, in an order of the list. *)
PageFacts(q, page, rows, asOf) ==
    /\ rows \in PageRows
    /\ \E order \in Orders(q, rows.of) : rows.shown = PageOf(order, page)
    /\ \A row \in rows.of : Where(q, row, asOf)

AnswerFacts(answer) ==
    /\ answer.total \in Nat /\ answer.asOf \in SUBSET Nat
    /\ PageFacts(answer.q, answer.page, answer.rows, answer.asOf)

(* A row of the first page's list that is still to be shown is in the last   *)
(* page's too, and has as many rows ahead of it as were skipped; one that   *)
(* was shown has fewer.                                                    *)
Coming(w, x) == x \in w.last /\ Cardinality(Ahead(w.q, w.last, x)) >= Skip(w.page)
Gone(w, x) == x \in w.last => Cardinality(Ahead(w.q, w.last, x)) < Skip(w.page)

WalkFacts(w) ==
    /\ w.pc = "page" =>
          /\ w.page > 0
          /\ w.rows # ABSENT => PageFacts(w.q, w.page, w.rows, w.asOf)
          /\ w.page = 1 => w.first = {} /\ w.seen = <<>>
          /\ \A x \in w.first \ ToSet(w.seen) : Displaced(w, x, w.left) \/ Coming(w, x)
          /\ \A x \in ToSet(w.seen) : Displaced(w, x, w.came) \/ Gone(w, x)
    /\ w.pc = "ended" /\ ~w.short =>
          \A x \in w.first : x \in ToSet(w.seen) \/ Displaced(w, x, w.left)
    /\ \A i, j \in DOMAIN w.seen : i # j /\ w.seen[i] = w.seen[j] => Displaced(w, w.seen[i], w.came)

ListInv ==
    /\ ListTypes
    /\ \A c \in Walkers : WalkFacts(walk[c])
    /\ \A answer \in kept : AnswerFacts(answer)
    /\ \A answer, other \in kept : SamePage(answer, other) => answer = other

LEMMA WalkGoesOn ==
  ASSUME ListInv, NEW c \in Walkers, NEW v \in WalkRow, walk' = [walk EXCEPT ![c] = v],
         UNCHANGED <<stored, overdue, kept>>, WalkFacts(v)
  PROVE  ListInv'
<1>1. walk' \in [Walkers -> WalkRow] /\ \A d \in Walkers : walk'[d] = IF d = c THEN v ELSE walk[d]
  BY DEF ListInv, ListTypes
<1>2. \A d \in Walkers : WalkFacts(walk'[d])
  BY <1>1 DEF ListInv
<1>3. QED
  BY <1>1, <1>2 DEF ListInv, ListTypes

LEMMA StartStep ==
  ASSUME ListInv, NEW c \in Walkers, StartWalk(c)
  PROVE  ListInv'
<1>1. PICK q \in ListQueries :
         walk' = [walk EXCEPT ![c] = [Resting EXCEPT !.pc = "page", !.q = q, !.page = 1,
                                                     !.asOf = overdue]]
  BY DEF StartWalk
<1> DEFINE v == [Resting EXCEPT !.pc = "page", !.q = q, !.page = 1, !.asOf = overdue]
<1>2. v \in WalkRow
  <2>1. Resting \in WalkRow
    BY DEF Resting, WalkRow, WalkPC
  <2>2. QED
    BY <2>1 DEF WalkRow, WalkPC, ListInv, ListTypes
<1>3. /\ v.pc = "page" /\ v.page = 1 /\ v.rows = ABSENT
      /\ v.first = {} /\ v.seen = <<>>
  BY DEF Resting
<1>4. WalkFacts(v)
  BY <1>3 DEF WalkFacts, ToSet
<1>5. QED
  BY <1>1, <1>2, <1>4, WalkGoesOn DEF StartWalk

(* The locals of a walk while it waits for its page.                        *)
LEMMA PageArrives ==
  ASSUME ListInv, NEW c \in Walkers, walk[c].pc = "page",
         NEW rows \in {ABSENT} \cup PageRows, NEW total \in {ABSENT} \cup Nat,
         NEW asOf \in SUBSET Nat, NEW hit \in BOOLEAN,
         walk' = [walk EXCEPT ![c] = [walk[c] EXCEPT !.rows = rows, !.total = total,
                                                    !.asOf = asOf, !.hit = hit]],
         rows # ABSENT => PageFacts(walk[c].q, walk[c].page, rows, asOf),
         UNCHANGED <<stored, overdue, kept>>
  PROVE  ListInv'
<1> DEFINE w == walk[c]
           v == [w EXCEPT !.rows = rows, !.total = total, !.asOf = asOf, !.hit = hit]
<1>1. w \in WalkRow /\ WalkFacts(w)
  BY DEF ListInv, ListTypes
<1>2. v \in WalkRow
  BY <1>1 DEF WalkRow
<1>3. /\ v.pc = w.pc /\ v.q = w.q /\ v.page = w.page /\ v.rows = rows /\ v.asOf = asOf
      /\ v.seen = w.seen /\ v.first = w.first /\ v.last = w.last /\ v.left = w.left
      /\ v.came = w.came /\ v.tied = w.tied /\ v.short = w.short
  BY <1>1 DEF WalkRow
<1> HIDE DEF v
<1>4. WalkFacts(v)
  BY <1>1, <1>3 DEF WalkFacts, Displaced, Coming, Gone
<1>5. walk' = [walk EXCEPT ![c] = v]
  BY DEF v
<1>6. QED
  BY <1>2, <1>4, <1>5, WalkGoesOn

LEMMA ReadSteps ==
  ASSUME ListInv, NEW c \in Walkers,
         ReadRows(c) \/ ReadTotal(c) \/ \E answer \in kept : ReadKept(c, answer)
  PROVE  ListInv'
<1> DEFINE w == walk[c]
<1>1. w \in WalkRow /\ WalkFacts(w)
  BY DEF ListInv, ListTypes
<1>2. /\ w.rows \in {ABSENT} \cup PageRows /\ w.total \in {ABSENT} \cup Nat
      /\ w.asOf \in SUBSET Nat /\ w.hit \in BOOLEAN
  BY <1>1 DEF WalkRow
<1>3. CASE ReadRows(c)
  <2>1. PICK order \in Orders(w.q, Selected(c)) :
           walk' = [walk EXCEPT ![c].rows = [shown |-> PageOf(order, w.page), of |-> Selected(c)]]
    BY <1>3 DEF ReadRows
  <2>2. Selected(c) \in SUBSET ListRows /\ \A row \in Selected(c) : Where(w.q, row, w.asOf)
    BY DEF ListInv, ListTypes, Selected, Wanted
  <2>3. w.pc = "page" /\ w.page \in Nat \ {0}
    BY <1>1, <1>3 DEF ReadRows, WalkFacts, WalkRow
  <2>4. PICK rows : rows = [shown |-> PageOf(order, w.page), of |-> Selected(c)]
    OBVIOUS
  <2>5. PageOf(order, w.page) \in Seq(ListRows)
    BY <2>2, <2>3, PageIsCut DEF PageCut
  <2>6. rows \in PageRows /\ PageFacts(w.q, w.page, rows, w.asOf)
    BY <2>2, <2>4, <2>5 DEF PageRows, PageFacts
  <2>7. walk' = [walk EXCEPT ![c] = [w EXCEPT !.rows = rows, !.total = w.total,
                                              !.asOf = w.asOf, !.hit = w.hit]]
    BY <1>1, <2>1, <2>4 DEF ListInv, ListTypes, WalkRow
  <2>8. QED
    BY <1>2, <1>3, <2>3, <2>6, <2>7, PageArrives DEF ReadRows
<1>4. CASE ReadTotal(c)
  <2>1. PICK total \in Nat : total = Cardinality(Selected(c))
    BY RowsAssumption, FS_Subset, FS_CardinalityType DEF ListInv, ListTypes, Selected, Wanted
  <2>2. walk' = [walk EXCEPT ![c] = [w EXCEPT !.rows = w.rows, !.total = total,
                                              !.asOf = w.asOf, !.hit = w.hit]]
    BY <1>1, <1>4, <2>1 DEF ReadTotal, ListInv, ListTypes, WalkRow
  <2>3. w.rows # ABSENT => PageFacts(w.q, w.page, w.rows, w.asOf)
    BY <1>1, <1>4 DEF ReadTotal, WalkFacts
  <2>4. w.pc = "page" /\ UNCHANGED <<stored, overdue, kept>>
    BY <1>4 DEF ReadTotal
  <2>5. QED
    BY <1>2, <2>1, <2>2, <2>3, <2>4, PageArrives
<1>5. ASSUME NEW answer \in kept, ReadKept(c, answer)
      PROVE  ListInv'
  <2>1. AnswerFacts(answer) /\ answer.q = w.q /\ answer.page = w.page /\ w.pc = "page"
    BY <1>5 DEF ReadKept, ListInv
  <2>2. /\ answer.rows \in PageRows /\ answer.total \in Nat /\ answer.asOf \in SUBSET Nat
        /\ PageFacts(w.q, w.page, answer.rows, answer.asOf)
    BY <2>1 DEF AnswerFacts, PageFacts
  <2>3. walk' = [walk EXCEPT ![c] = [w EXCEPT !.rows = answer.rows, !.total = answer.total,
                                              !.asOf = answer.asOf, !.hit = TRUE]]
    BY <1>1, <1>5 DEF ReadKept, ListInv, ListTypes, WalkRow
  <2>4. QED
    BY <1>5, <2>1, <2>2, <2>3, PageArrives DEF ReadKept
<1>6. QED
  BY <1>3, <1>4, <1>5

(* What a walk knows after its page.                                        *)
LEMMA ShownFields ==
  ASSUME NEW w \in WalkRow, w.rows \in PageRows, w.total \in Nat, overdue \subseteq Nat,
         NEW next \in BOOLEAN
  PROVE  LET v == Shown(w, next) IN
         /\ v \in WalkRow
         /\ v.pc = (IF next THEN "page" ELSE "ended") /\ v.q = w.q
         /\ v.page = (IF next THEN w.page + 1 ELSE w.page)
         /\ v.rows = ABSENT
         /\ v.seen = w.seen \o w.rows.shown
         /\ v.first = (IF w.page = 1 THEN w.rows.of ELSE w.first)
         /\ v.last = w.rows.of
         /\ v.left = w.left \cup (w.last \ w.rows.of)
         /\ v.came = (IF w.page = 1 THEN w.came ELSE w.came \cup (w.rows.of \ w.last))
         /\ v.tied = w.tied \cup Tied(w.q, w.rows.of)
         /\ v.short = (w.total < Cardinality(w.rows.of))
<1>1. /\ w.seen \in Seq(ListRows) /\ w.rows.shown \in Seq(ListRows)
      /\ w.rows.of \in SUBSET ListRows /\ w.page \in Nat
      /\ w.first \in SUBSET ListRows /\ w.last \in SUBSET ListRows /\ w.left \in SUBSET ListRows
      /\ w.came \in SUBSET ListRows /\ w.tied \in SUBSET ListRows /\ w.asOf \in SUBSET Nat
  BY DEF WalkRow, PageRows
<1>2. PICK seen : seen = w.seen \o w.rows.shown /\ seen \in Seq(ListRows)
  BY <1>1, ConcatProperties
<1>3. PICK tied \in SUBSET ListRows : tied = w.tied \cup Tied(w.q, w.rows.of)
  BY <1>1 DEF Tied
<1>4. PICK pc \in WalkPC : pc = IF next THEN "page" ELSE "ended"
  BY DEF WalkPC
<1>5. PICK page \in Nat : page = IF next THEN w.page + 1 ELSE w.page
  BY <1>1
<1>6. PICK asOf \in SUBSET Nat : asOf = IF next THEN overdue ELSE w.asOf
  BY <1>1
<1>7. PICK first \in SUBSET ListRows : first = IF w.page = 1 THEN w.rows.of ELSE w.first
  BY <1>1
<1>8. PICK left \in SUBSET ListRows : left = w.left \cup (w.last \ w.rows.of)
  BY <1>1
<1>9. PICK came \in SUBSET ListRows :
          came = IF w.page = 1 THEN w.came ELSE w.came \cup (w.rows.of \ w.last)
  BY <1>1
<1>10. PICK short \in BOOLEAN : short = (w.total < Cardinality(w.rows.of))
  <2>1. Cardinality(w.rows.of) \in Nat
    BY <1>1, RowsAssumption, FS_Subset, FS_CardinalityType
  <2>2. (w.total < Cardinality(w.rows.of)) \in BOOLEAN
    BY <2>1
  <2>3. QED
    BY <2>2, Zenon
<1>11. PICK v : v = Shown(w, next)
  OBVIOUS
<1>12. v = [w EXCEPT !.pc = pc, !.page = page, !.rows = ABSENT, !.total = ABSENT,
                     !.hit = FALSE, !.asOf = asOf, !.seen = seen, !.first = first,
                     !.last = w.rows.of, !.left = left, !.came = came,
                     !.tied = tied, !.short = short]
  BY <1>2, <1>3, <1>4, <1>5, <1>6, <1>7, <1>8, <1>9, <1>10, <1>11 DEF Shown, WalkRow
<1>13. v \in WalkRow
  BY <1>1, <1>2, <1>12 DEF WalkRow
<1>14. /\ v.pc = pc /\ v.q = w.q /\ v.page = page /\ v.rows = ABSENT /\ v.seen = seen
       /\ v.first = first /\ v.last = w.rows.of /\ v.left = left /\ v.came = came
       /\ v.tied = tied /\ v.short = short
  BY <1>12 DEF WalkRow
<1>15. QED
  BY <1>2, <1>3, <1>4, <1>5, <1>7, <1>8, <1>9, <1>10, <1>11, <1>13, <1>14

(* The next page keeps what the walk knows, and where there is none nothing  *)
(* was to come.                                                            *)
LEMMA PageTurned ==
  ASSUME NEW w \in WalkRow, WalkFacts(w), w.pc = "page", w.rows # ABSENT, w.total \in Nat,
         NEW v \in WalkRow,
         v.pc = (IF HasNext(w.page, w.total) THEN "page" ELSE "ended"), v.q = w.q,
         v.page = (IF HasNext(w.page, w.total) THEN w.page + 1 ELSE w.page),
         v.rows = ABSENT,
         v.seen = w.seen \o w.rows.shown,
         v.first = (IF w.page = 1 THEN w.rows.of ELSE w.first),
         v.last = w.rows.of,
         v.left = w.left \cup (w.last \ w.rows.of),
         v.came = (IF w.page = 1 THEN w.came ELSE w.came \cup (w.rows.of \ w.last)),
         v.tied = w.tied \cup Tied(w.q, w.rows.of),
         v.short = (w.total < Cardinality(w.rows.of))
  PROVE  WalkFacts(v)
<1>1. PICK O, shown : O = w.rows.of /\ shown = w.rows.shown
  OBVIOUS
<1>2. PICK q, p : q = w.q /\ p = w.page
  OBVIOUS
<1>3. p \in Nat \ {0} /\ p * PageSize \in Nat /\ p * PageSize > 0
  BY <1>2, PageAssumption DEF WalkFacts, WalkRow
<1>4. PageCut(q, O, p, shown) /\ O \in SUBSET ListRows
  <2>1. /\ w.rows \in PageRows
        /\ \E order \in Orders(w.q, w.rows.of) : w.rows.shown = PageOf(order, w.page)
    BY DEF WalkFacts, PageFacts
  <2>2. w.rows.of \in SUBSET ListRows
    BY <2>1 DEF PageRows
  <2>3. QED
    BY <1>1, <1>2, <1>3, <2>1, <2>2, PageIsCut
<1>5. /\ w.seen \in Seq(ListRows) /\ shown \in Seq(ListRows) /\ w.last \in SUBSET ListRows
      /\ ToSet(v.seen) = ToSet(w.seen) \cup ToSet(shown) /\ v.seen = w.seen \o shown
  BY <1>1, <1>4, ShownAfterPage DEF WalkRow, PageCut
<1>6. /\ Skip(1) = 0 /\ Skip(p) \in Nat /\ Skip(p + 1) = p * PageSize /\ Skip(p) <= p * PageSize
  <2>1. (1 - 1) * PageSize = 0 /\ (p + 1) - 1 = p /\ (p - 1) * PageSize \in Nat
        /\ (p - 1) * PageSize + PageSize = p * PageSize
    BY <1>3, PageAssumption
  <2>2. QED
    BY <2>1, PageAssumption DEF Skip
<1>7. /\ \A x : Displaced(w, x, w.left) => Displaced(v, x, v.left)
      /\ \A x : Displaced(w, x, w.came) => Displaced(v, x, v.came)
  BY DEF Displaced
<1>8. \A x \in O : Cardinality(Ahead(q, O, x)) \in Nat /\ Cardinality(O) \in Nat
                      /\ Cardinality(Ahead(q, O, x)) < Cardinality(O)
  BY <1>4, AheadCounted
<1>9. ASSUME NEW x \in v.first \ ToSet(v.seen), ~Displaced(v, x, v.left)
      PROVE  x \in O /\ Cardinality(Ahead(q, O, x)) >= p * PageSize
  <2>1. x \notin Tied(q, O) /\ x \notin ToSet(shown) /\ x \notin ToSet(w.seen)
    BY <1>1, <1>2, <1>5, <1>9 DEF Displaced
  <2>2. x \in O /\ Skip(p) <= Cardinality(Ahead(q, O, x))
    <3>1. CASE p = 1
      BY <1>1, <1>2, <1>6, <1>8, <1>9, <3>1
    <3>2. CASE p # 1
      <4>1. x \in w.first /\ ~Displaced(w, x, w.left)
        BY <1>2, <1>7, <1>9, <3>2
      <4>2. x \in w.last /\ Cardinality(Ahead(q, w.last, x)) >= Skip(p)
        BY <1>2, <2>1, <4>1 DEF WalkFacts, Coming
      <4>3. x \in O
        BY <1>1, <1>9, <4>2 DEF Displaced
      <4>4. Ahead(q, w.last, x) \subseteq Ahead(q, O, x)
        BY <1>1, <1>2, <1>9 DEF Ahead, Displaced
      <4>5. /\ Cardinality(Ahead(q, w.last, x)) \in Nat
            /\ Cardinality(Ahead(q, w.last, x)) <= Cardinality(Ahead(q, O, x))
        BY <1>4, <1>5, <4>2, <4>3, <4>4, FewerAhead
      <4>6. QED
        BY <1>6, <1>8, <4>2, <4>3, <4>5
    <3>3. QED
      BY <3>1, <3>2
  <2>3. ~(Cardinality(Ahead(q, O, x)) < p * PageSize)
    BY <1>4, <2>1, <2>2 DEF PageCut
  <2>4. QED
    BY <1>3, <1>8, <2>2, <2>3
<1>10. ASSUME NEW x \in ToSet(w.seen), x \in O, ~Displaced(v, x, v.came)
       PROVE  Cardinality(Ahead(q, O, x)) < Skip(p)
  <2>1. p # 1
    BY <1>2, <1>10 DEF WalkFacts, ToSet
  <2>2. ~Displaced(w, x, w.came) /\ v.came = w.came \cup (O \ w.last)
    BY <1>1, <1>2, <1>7, <1>10, <2>1
  <2>3. x \in w.last
    BY <1>10, <2>2 DEF Displaced
  <2>4. Cardinality(Ahead(q, w.last, x)) < Skip(p)
    BY <1>2, <1>10, <2>2, <2>3 DEF WalkFacts, Gone
  <2>5. Ahead(q, O, x) \subseteq Ahead(q, w.last, x)
    BY <1>2, <1>10, <2>2 DEF Ahead, Displaced
  <2>6. /\ Cardinality(Ahead(q, w.last, x)) \in Nat
        /\ Cardinality(Ahead(q, O, x)) <= Cardinality(Ahead(q, w.last, x))
    BY <1>4, <1>5, <1>10, <2>3, <2>5, FewerAhead
  <2>7. QED
    BY <1>6, <1>8, <1>10, <2>4, <2>6
<1>11. ASSUME NEW x \in ToSet(v.seen), ~Displaced(v, x, v.came), x \in O
       PROVE  Cardinality(Ahead(q, O, x)) < p * PageSize
  <2>1. CASE x \in ToSet(w.seen)
    <3>1. Cardinality(Ahead(q, O, x)) < Skip(p)
      BY <1>10, <1>11, <2>1
    <3>2. QED
      BY <1>3, <1>6, <1>8, <1>11, <3>1
  <2>2. CASE x \in ToSet(shown)
    <3>1. x \notin Tied(q, O)
      BY <1>1, <1>2, <1>11 DEF Displaced
    <3>2. QED
      BY <1>4, <1>11, <2>2, <3>1 DEF PageCut
  <2>3. QED
    BY <1>5, <1>11, <2>1, <2>2
<1>12. ASSUME NEW i \in DOMAIN v.seen, NEW j \in DOMAIN v.seen, i # j, v.seen[i] = v.seen[j]
       PROVE  Displaced(v, v.seen[i], v.came)
  <2>1. PICK s, x : s = w.seen /\ x = v.seen[i] /\ s \in Seq(ListRows)
    BY <1>5
  <2>2. /\ Len(s) \in Nat /\ DOMAIN s = 1 .. Len(s)
        /\ Len(shown) \in Nat /\ DOMAIN shown = 1 .. Len(shown)
        /\ DOMAIN v.seen = 1 .. Len(s) + Len(shown)
        /\ \A k \in 1 .. Len(s) + Len(shown) :
              v.seen[k] = IF k <= Len(s) THEN s[k] ELSE shown[k - Len(s)]
    BY <1>5, <2>1, ConcatProperties, LenProperties
  <2>3. PICK n, m, t : n = Len(s) /\ m = Len(shown) /\ t = v.seen
    OBVIOUS
  <2>4. /\ n \in Nat /\ DOMAIN s = 1 .. n /\ m \in Nat /\ DOMAIN shown = 1 .. m
         /\ DOMAIN t = 1 .. n + m
         /\ \A k \in 1 .. n + m : t[k] = IF k <= n THEN s[k] ELSE shown[k - n]
    BY <2>2, <2>3
  <2>5. ASSUME NEW k \in DOMAIN t
         PROVE  /\ k \in Nat
                /\ k <= n => k \in DOMAIN s /\ t[k] = s[k]
                /\ ~(k <= n) => k - n \in DOMAIN shown /\ t[k] = shown[k - n]
    <3>1. k \in Nat /\ 1 <= k /\ k <= n + m
      BY <2>4
    <3>2. t[k] = IF k <= n THEN s[k] ELSE shown[k - n]
      BY <2>4
    <3>3. k <= n => k \in 1 .. n
      BY <2>4, <3>1
    <3>4. ~(k <= n) => k - n \in 1 .. m
      BY <2>4, <3>1
    <3>5. QED
      BY <2>4, <3>1, <3>2, <3>3, <3>4
  <2>6. i \in DOMAIN t /\ j \in DOMAIN t /\ t[i] = x /\ t[j] = x
    BY <1>12, <2>1, <2>3
  <2>7. CASE i <= n /\ j <= n
    <3>1. i \in DOMAIN s /\ j \in DOMAIN s /\ s[i] = x /\ s[j] = x
      BY <2>7, <2>5, <2>6
    <3>2. Displaced(w, x, w.came)
      BY <1>12, <2>1, <3>1 DEF WalkFacts
    <3>3. QED
      BY <1>7, <2>1, <3>2
  <2>8. CASE ~(i <= n) /\ ~(j <= n)
    <3>1. /\ i - n \in DOMAIN shown /\ j - n \in DOMAIN shown
          /\ shown[i - n] = x /\ shown[j - n] = x
      BY <2>8, <2>5, <2>6
    <3>2. i - n = j - n
      BY <1>4, <3>1 DEF PageCut
    <3>3. i \in Nat /\ j \in Nat
      BY <2>5, <2>6
    <3>4. QED
      BY <1>12, <2>4, <3>2, <3>3
  <2>9. ASSUME x \in ToSet(s), x \in ToSet(shown)
        PROVE  Displaced(v, x, v.came)
    <3> SUFFICES ASSUME ~Displaced(v, x, v.came)
                 PROVE  FALSE
      OBVIOUS
    <3>1. x \in O /\ x \notin Tied(q, O)
      BY <1>1, <1>2, <1>4, <2>9 DEF Displaced, PageCut
    <3>2. Cardinality(Ahead(q, O, x)) < Skip(p)
      BY <1>10, <2>1, <2>9, <3>1
    <3>3. Skip(p) <= Cardinality(Ahead(q, O, x))
      BY <1>4, <2>9, <3>1 DEF PageCut
    <3>4. QED
      BY <1>6, <1>8, <3>1, <3>2, <3>3
  <2>10. CASE i <= n /\ ~(j <= n)
    <3>1. i \in DOMAIN s /\ s[i] = x /\ j - n \in DOMAIN shown /\ shown[j - n] = x
      BY <2>10, <2>5, <2>6
    <3>2. QED
      BY <2>1, <2>9, <3>1 DEF ToSet
  <2>11. CASE ~(i <= n) /\ j <= n
    <3>1. j \in DOMAIN s /\ s[j] = x /\ i - n \in DOMAIN shown /\ shown[i - n] = x
      BY <2>11, <2>5, <2>6
    <3>2. QED
      BY <2>1, <2>9, <3>1 DEF ToSet
  <2>12. QED
    BY <2>7, <2>8, <2>10, <2>11
<1>13. CASE HasNext(w.page, w.total)
  <2>1. v.pc = "page" /\ v.page = p + 1 /\ v.page > 0 /\ v.page # 1
    BY <1>2, <1>3, <1>13
  <2>2. \A x \in v.first \ ToSet(v.seen) : Displaced(v, x, v.left) \/ Coming(v, x)
    BY <1>1, <1>2, <1>6, <1>9, <2>1 DEF Coming
  <2>3. \A x \in ToSet(v.seen) : Displaced(v, x, v.came) \/ Gone(v, x)
    BY <1>1, <1>2, <1>6, <1>11, <2>1 DEF Gone
  <2>4. QED
    BY <1>12, <2>1, <2>2, <2>3 DEF WalkFacts
<1>14. CASE ~HasNext(w.page, w.total)
  <2>1. v.pc = "ended"
    BY <1>14
  <2>2. ASSUME ~v.short, NEW x \in v.first, x \notin ToSet(v.seen), ~Displaced(v, x, v.left)
        PROVE  FALSE
    <3>1. x \in O /\ Cardinality(Ahead(q, O, x)) >= p * PageSize
      BY <1>9, <2>2
    <3>2. ~(w.total < Cardinality(O))
      BY <1>1, <2>2
    <3>3. w.total > p * PageSize
      BY <1>3, <1>8, <3>1, <3>2
    <3>4. QED
      BY <1>2, <1>3, <1>14, <3>3, NextWhileRowsLeft
  <2>3. QED
    BY <1>12, <2>1, <2>2 DEF WalkFacts
<1>15. QED
  BY <1>13, <1>14

(* A page is turned: the walk goes on or ends, and a page of matches may be  *)
(* kept.                                                                   *)
LEMMA TurnStep ==
  ASSUME ListInv, NEW c \in Walkers, TurnPage(c)
  PROVE  ListInv'
<1>1. PICK w \in WalkRow : w = walk[c] /\ WalkFacts(w)
  BY DEF ListInv, ListTypes
<1>2. w.pc = "page" /\ w.rows # ABSENT /\ w.total # ABSENT /\ w.total \in Nat /\ w.rows \in PageRows
  BY <1>1 DEF TurnPage, WalkRow
<1>3. PICK next \in BOOLEAN : next = HasNext(w.page, w.total)
  <2>1. HasNext(w.page, w.total) \in BOOLEAN
    BY DEF HasNext
  <2>2. QED
    BY <2>1, Zenon
<1>4. PICK v : v = Shown(w, next)
  OBVIOUS
<1>5. /\ v \in WalkRow
      /\ v.pc = (IF next THEN "page" ELSE "ended") /\ v.q = w.q
      /\ v.page = (IF next THEN w.page + 1 ELSE w.page)
      /\ v.rows = ABSENT
      /\ v.seen = w.seen \o w.rows.shown
      /\ v.first = (IF w.page = 1 THEN w.rows.of ELSE w.first)
      /\ v.last = w.rows.of
      /\ v.left = w.left \cup (w.last \ w.rows.of)
      /\ v.came = (IF w.page = 1 THEN w.came ELSE w.came \cup (w.rows.of \ w.last))
      /\ v.tied = w.tied \cup Tied(w.q, w.rows.of)
      /\ v.short = (w.total < Cardinality(w.rows.of))
  BY <1>2, <1>4, ShownFields DEF ListInv, ListTypes
<1>6. WalkFacts(v)
  BY <1>1, <1>2, <1>3, <1>5, PageTurned
<1>7. walk' = [walk EXCEPT ![c] = v]
  BY <1>1, <1>3, <1>4 DEF TurnPage
<1>8. /\ walk' \in [Walkers -> WalkRow]
      /\ \A d \in Walkers : WalkFacts(walk'[d])
  BY <1>5, <1>6, <1>7 DEF ListInv, ListTypes
<1>9. PICK a : a = Answer(w)
  OBVIOUS
<1>10. AnswerFacts(a)
  BY <1>1, <1>2, <1>9 DEF Answer, AnswerFacts, WalkFacts, WalkRow
<1>11. /\ a.q = w.q /\ a.page = w.page
       /\ kept' \in {kept, {answer \in kept : ~SamePage(answer, w)} \cup {a}}
  BY <1>1, <1>9 DEF TurnPage, Answer
<1>12. \A answer \in kept' : AnswerFacts(answer)
  BY <1>10, <1>11 DEF ListInv
<1>13. \A answer, other \in kept' : SamePage(answer, other) => answer = other
  <2>1. CASE kept' = kept
    BY <2>1 DEF ListInv
  <2>2. CASE kept' = {answer \in kept : ~SamePage(answer, w)} \cup {a}
    BY <1>11, <2>2 DEF ListInv, SamePage
  <2>3. QED
    BY <1>11, <2>1, <2>2
<1>14. UNCHANGED <<stored, overdue>>
  BY DEF TurnPage
<1>15. QED
  BY <1>8, <1>12, <1>13, <1>14 DEF ListInv, ListTypes

(* What becomes of the rows meanwhile: a row is still stored once.          *)
LEMMA RowSteps ==
  ASSUME ListInv,
         \/ \E answer \in kept : Forget(answer)
         \/ \E row \in ListRows \ stored : AddRow(row)
         \/ \E row \in stored : RemoveRow(row) \/ PassDeadline(row) \/ MarkAllAsRead(row.parent)
         \/ \E row \in stored, new \in ListRows : RewriteRow(row, new)
  PROVE  ListInv'
<1>1. walk' = walk /\ kept' \subseteq kept
  BY DEF Forget, AddRow, RemoveRow, PassDeadline, MarkAllAsRead, RewriteRow
<1>2. overdue' \subseteq Nat
  <2>1. \A row \in stored : row.id \in Nat
    BY RowsAssumption DEF ListInv, ListTypes
  <2>2. overdue' = overdue \/ \E row \in stored : overdue' = overdue \cup {row.id}
    BY DEF Forget, AddRow, RemoveRow, PassDeadline, MarkAllAsRead, RewriteRow
  <2>3. overdue \subseteq Nat
    BY DEF ListInv, ListTypes
  <2>4. ASSUME NEW row \in stored, overdue' = overdue \cup {row.id}
        PROVE  overdue' \subseteq Nat
    <3>1. row.id \in Nat
      BY <2>1
    <3>2. QED
      BY <2>3, <2>4, <3>1
  <2>5. CASE overdue' = overdue
    BY <2>3, <2>5
  <2>6. QED
    BY <2>2, <2>4, <2>5
<1>3. stored' \subseteq ListRows /\ OneVersion(stored')
  <2>1. stored \subseteq ListRows /\ OneVersion(stored)
    BY DEF ListInv, ListTypes
  <2>2. CASE stored' = stored
    BY <2>1, <2>2
  <2>3. ASSUME NEW row \in ListRows, AddRow(row)
        PROVE  stored' \subseteq ListRows /\ OneVersion(stored')
    BY <2>1, <2>3 DEF AddRow
  <2>4. ASSUME NEW row \in stored, RemoveRow(row)
        PROVE  stored' \subseteq ListRows /\ OneVersion(stored')
    BY <2>1, <2>4 DEF RemoveRow, OneVersion
  <2>5. ASSUME NEW row \in stored, NEW new \in ListRows, RewriteRow(row, new)
        PROVE  stored' \subseteq ListRows /\ OneVersion(stored')
    BY <2>1, <2>5 DEF RewriteRow, OneVersion, SameRow
  <2>6. ASSUME NEW u, MarkAllAsRead(u)
        PROVE  stored' \subseteq ListRows /\ OneVersion(stored')
    <3>1. stored' = {ReadByAll(u, row) : row \in stored} /\ stored' \subseteq ListRows
      BY <2>6 DEF MarkAllAsRead
    <3>2. ASSUME NEW row \in stored
          PROVE  SameRow(ReadByAll(u, row), row)
      <4>1. {"list", "id", "active"} \subseteq DOMAIN row
        BY <2>1, RowsAssumption
      <4>2. QED
        BY <4>1 DEF ReadByAll, SameRow
    <3>3. ASSUME NEW row \in stored, NEW other \in stored,
                 SameRow(ReadByAll(u, row), ReadByAll(u, other))
          PROVE  ReadByAll(u, row) = ReadByAll(u, other)
      <4>1. SameRow(row, other)
        BY <3>2, <3>3 DEF SameRow
      <4>2. QED
        BY <2>1, <4>1 DEF OneVersion
    <3>4. QED
      BY <3>1, <3>3 DEF OneVersion
  <2>7. QED
    BY <2>2, <2>3, <2>4, <2>5, <2>6 DEF Forget, PassDeadline
<1>4. QED
  BY <1>1, <1>2, <1>3 DEF ListInv, ListTypes

LEMMA ListsSafe == CatalogueSpec => []ListInv
<1>1. CatalogueInit => ListInv
  <2> SUFFICES ASSUME ListInit
               PROVE  ListInv
    BY DEF CatalogueInit
  <2>1. Resting \in WalkRow /\ WalkFacts(Resting)
    BY DEF Resting, WalkRow, WalkPC, WalkFacts
  <2>2. QED
    BY <2>1 DEF ListInit, ListInv, ListTypes
<1>2. ListInv /\ [CatalogueNext]_catalogueVars => ListInv'
  <2> SUFFICES ASSUME ListInv, [CatalogueNext]_catalogueVars
               PROVE  ListInv'
    OBVIOUS
  <2>1. CASE ListNext
    BY <2>1, StartStep, ReadSteps, TurnStep, RowSteps DEF ListNext, WalkStep, RowStep
  <2>2. CASE MatchNext \/ UNCHANGED catalogueVars
    <3>1. UNCHANGED listVars
      BY <2>2 DEF MatchNext, AskMatches, QueryMatches, StoreMatches, QueryFails, Recompute, Tick,
         catalogueVars
    <3>2. QED
      BY <3>1 DEF listVars, ListInv, ListTypes
  <2>3. QED
    BY <2>1, <2>2 DEF CatalogueNext
<1>3. QED
  BY <1>1, <1>2, PTL DEF CatalogueSpec
LEMMA SelectsEach ==
  ASSUME NEW all, NEW or, NEW row, Selects([all |-> all, OR |-> or], row)
  PROVE  /\ \A clause \in all : row \in clause
         /\ or # {} => row \in UNION or
BY DEF Selects

(* A page of matches holds rows the where selected.                         *)
LEMMA MatchesAsAsked ==
  ASSUME NEW q, NEW passed, NEW row \in ListRows, q.list = "matches", Where(q, row, passed)
  PROVE  /\ row.parent = q.parent
         /\ q.word # ABSENT => q.word \in row.words
         /\ ~q.includeExpired =>
               /\ row.status \notin InactiveStatuses \cup {ABSENT}
               /\ row.deadline # ABSENT => row.id \notin passed
<1> DEFINE where == OpportunityFilter(q)
           active == {r \in ListRows : r.status \notin InactiveStatuses \cup {ABSENT}}
           found == {r \in ListRows : q.word \in r.words}
<1>1. row.parent = q.parent /\ Selects(MatchFilter(q, passed), row)
  BY DEF Where, MatchWhere
<1>2. where.OR = (IF q.word = ABSENT THEN {} ELSE {found})
  BY DEF OpportunityFilter
<1>3. row \in UNION OnTime(passed) => (row.deadline # ABSENT => row.id \notin passed)
  BY DEF OnTime
<1>4. CASE q.includeExpired
  <2>1. MatchFilter(q, passed) = where
    BY <1>4 DEF MatchFilter
  <2>2. q.word # ABSENT => row \in found
    BY <1>1, <1>2, <2>1 DEF Selects
  <2>3. QED
    BY <1>1, <1>4, <2>2
<1>5. CASE ~q.includeExpired /\ q.word = ABSENT
  <2>1. where.OR = {}
    BY <1>2, <1>5
  <2>2. MatchFilter(q, passed) = [all |-> where.all \cup {active}, OR |-> OnTime(passed)]
    BY <1>5, <2>1 DEF MatchFilter
  <2>3. OnTime(passed) # {}
    BY DEF OnTime
  <2>4. row \in active /\ row \in UNION OnTime(passed)
    <3> HIDE DEF active, where
    <3>1. QED
      BY <1>1, <2>2, <2>3, SelectsEach
  <2>5. QED
    BY <1>1, <1>3, <1>5, <2>4
<1>6. CASE ~q.includeExpired /\ q.word # ABSENT
  <2>1. where.OR = {found}
    BY <1>2, <1>6
  <2>2. MatchFilter(q, passed) =
           [all |-> where.all \cup {active, UNION OnTime(passed), UNION where.OR}, OR |-> {}]
    BY <1>6, <2>1 DEF MatchFilter
  <2>3. row \in active /\ row \in UNION OnTime(passed) /\ row \in UNION where.OR
    <3> DEFINE every == where.all \cup {active, UNION OnTime(passed), UNION where.OR}
    <3>1. \A clause \in every : row \in clause
      <4>1. MatchFilter(q, passed) = [all |-> every, OR |-> {}]
        BY <2>2
      <4> HIDE DEF every, active, where
      <4>2. QED
        BY <1>1, <4>1, SelectsEach
    <3>2. active \in every /\ UNION OnTime(passed) \in every /\ UNION where.OR \in every
      OBVIOUS
    <3> HIDE DEF every, active, where
    <3>3. QED
      BY <3>1, <3>2
  <2>4. row \in found
    BY <2>1, <2>3
  <2>5. QED
    BY <1>1, <1>3, <1>6, <2>3, <2>4
<1>7. QED
  BY <1>4, <1>5, <1>6

(* A walk to the end has shown every row its first page was cut from, unless *)
(* the row ties, or it or one ahead of it left: by ListInv, what is still  *)
(* to come has as many rows ahead of it as the pages so far have skipped.  *)
THEOREM WalksShowAll == CatalogueSpec => []WalkShowsAll
<1>1. ListInv => WalkShowsAll
  BY DEF ListInv, WalkFacts, WalkShowsAll
<1>2. QED
  BY <1>1, ListsSafe, PTL

(* No walk shows a row twice, unless the row ties, or it or one ahead of it   *)
(* came: by ListInv, what was shown has fewer rows ahead of it than the    *)
(* pages so far have skipped.                                              *)
THEOREM WalksShowOnce == CatalogueSpec => []PagesShowOnce
<1>1. ListInv => PagesShowOnce
  BY DEF ListInv, WalkFacts, PagesShowOnce
<1>2. QED
  BY <1>1, ListsSafe, PTL

(* The matches shown are the user's own and, unless asked for, neither late *)
(* nor closed at the moment the answer is of.                              *)
THEOREM DeadMatchesHidden == CatalogueSpec => []NoDeadMatch
<1>1. ListInv => NoDeadMatch
  <2> SUFFICES ASSUME ListInv, NEW c \in Walkers, walk[c].pc = "page", walk[c].rows # ABSENT,
                      walk[c].q.list = "matches", NEW row \in ToSet(walk[c].rows.shown)
               PROVE  /\ row.parent = walk[c].q.parent
                      /\ walk[c].q.word # ABSENT => walk[c].q.word \in row.words
                      /\ ~walk[c].q.includeExpired =>
                            /\ row.status \notin InactiveStatuses
                            /\ row.deadline # ABSENT => row.id \notin walk[c].asOf
    BY DEF NoDeadMatch
  <2>1. PICK w \in WalkRow : w = walk[c] /\ WalkFacts(w)
    BY DEF ListInv, ListTypes
  <2>2. /\ w.rows \in PageRows /\ w.page \in Nat \ {0}
        /\ \A x \in w.rows.of : Where(w.q, x, w.asOf)
    BY <2>1 DEF WalkFacts, PageFacts, WalkRow
  <2>3. PICK order \in Orders(w.q, w.rows.of) : w.rows.shown = PageOf(order, w.page)
    BY <2>1 DEF WalkFacts, PageFacts
  <2>4. w.rows.of \in SUBSET ListRows
    BY <2>2 DEF PageRows
  <2>5. row \in w.rows.of
    BY <2>1, <2>2, <2>3, <2>4, PageIsCut DEF PageCut
  <2>6. row \in ListRows /\ Where(w.q, row, w.asOf)
    BY <2>2, <2>4, <2>5
  <2>7. QED
    BY <2>1, <2>6, MatchesAsAsked
<1>2. QED
  BY <1>1, ListsSafe, PTL

(* What a client is shown is true.                                         *)
THEOREM ShownTrue == CatalogueSpec => []ShownIsTrue
BY WalksShowAll, DeadMatchesHidden, ServedTrue, PTL DEF ListsShowWanted, ShownIsTrue

(* The clock of the instance.                                              *)
ClockBounded == clock \in 0 .. MaxClock

LEMMA ClockSafe == CatalogueSpec => []ClockBounded
<1>1. CatalogueInit => ClockBounded
  BY CatalogueBounds DEF CatalogueInit, MatchInit, ClockBounded
<1>2. ClockBounded /\ [CatalogueNext]_catalogueVars => ClockBounded'
  <2> SUFFICES ASSUME ClockBounded, [CatalogueNext]_catalogueVars
               PROVE  ClockBounded'
    OBVIOUS
  <2>1. CASE Tick
    BY <2>1, CatalogueBounds DEF Tick, ClockBounded
  <2>2. CASE UNCHANGED clock
    BY <2>2 DEF ClockBounded
  <2>3. QED
    BY <2>1, <2>2
    DEF CatalogueNext, ListNext, WalkStep, RowStep, StartWalk, ReadKept, ReadRows, ReadTotal,
        TurnPage, Forget,
        AddRow, RemoveRow, RewriteRow, MarkAllAsRead, PassDeadline, MatchNext, AskMatches,
        QueryMatches, StoreMatches, QueryFails, Recompute, matchVars, catalogueVars
<1>3. QED
  BY <1>1, <1>2, PTL DEF CatalogueSpec

(* The types of the lists and of the cache.                                *)
LEMMA CatalogueTypesSafe == CatalogueSpec => []CatalogueTypeOK
<1>1. ListInv /\ MatchInv /\ ClockBounded => CatalogueTypeOK
  <2> SUFFICES ASSUME ListInv, MatchInv, ClockBounded
               PROVE  CatalogueTypeOK
    OBVIOUS
  <2>1. \A k \in DOMAIN cache : cache[k] # ABSENT => cache[k].owner \in MatchUsers
    BY DEF MatchInv, MatchTypes, Entries
  <2>2. \A c \in Walkers : ToSet(walk[c].seen) \subseteq ListRows
    <3>1. \A c \in Walkers : walk[c].seen \in Seq(ListRows)
      BY DEF ListInv, ListTypes, WalkRow
    <3>2. QED
      BY <3>1, LenProperties DEF ToSet
  <2>3. QED
    BY <2>1, <2>2 DEF ListInv, ListTypes, ClockBounded, CatalogueTypeOK
<1>2. QED
  BY <1>1, ListsSafe, MatchSafe, ClockSafe, PTL

-----------------------------------------------------------------------------
(* Every service keeps the types of its tables, what replies name is there,  *)
(* and a row or a page that is kept is kept once.                          *)
THEOREM ServicesTyped ==
    ChatSpec /\ DeliverySpec /\ ReferenceSpec /\ CatalogueSpec => []ServicesTypeOK
<1>1. DeliveryInv => DeliveryTypeOK
  BY DEF DeliveryInv
<1>2. ChatTypeOK /\ DeliveryTypeOK /\ ReferenceTypeOK /\ CatalogueTypeOK => ServicesTypeOK
  BY DEF ServicesTypeOK
<1>3. QED
  BY <1>1, <1>2, ChatTypesSafe, DeliverySafe, ReferenceTypesSafe, CatalogueTypesSafe, PTL
===============================================================================
