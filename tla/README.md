# Formal model of the Afaq back end

TLA+ specifications of the parts of this NestJS service where requests meet:
draft pages with their history, official documents and AI edit proposals, the
tree they stand in and the files beside them; the sessions of an account; how
accounts come to exist and are verified; the profile with its completion
percentage; the idempotency keys and rate limits every write passes; the AI
chat and its memory; mail and notifications; the lists and the cache of matches;
the scripts that load reference data.  TLC checks them on small instances; TLAPS proves the theorems for every value of the
constants.  `PROJECT.json` lists the runs, the lines of code each definition
models, the hazards and the theorems.

    tlc -workers 2 -config draft_records.cfg MCDraftScenes
    tlapm DraftRecordsProofs.tla

## 1. Inventory

The service keeps its state in PostgreSQL (through Prisma), Redis and an object
store.  It runs as one or more Node processes: within a process nothing is
preempted, but every `await` lets other requests run, and between processes
even that does not hold.  Almost no handler uses a transaction or a lock, so
**one statement is the unit of atomicity** nearly everywhere.

| Component (under `src/src/`) | State it keeps | Operations | What is hard |
|---|---|---|---|
| `modules/drafts/pages`, `versions` | `draft_pages`, `draft_page_versions` | create, auto-save, soft delete, revert, snapshots | saves by id, decided on a row read earlier |
| `modules/drafts/export` | page status and document link, `documents` | finalize, unlock, compile the PDF | five awaits without a transaction; the document limit; a tree mapped node by node |
| `modules/ai-assistant/ai-proposals` | `ai_edit_proposals` | propose, accept, reject | row lock, READ COMMITTED, racing decisions |
| `modules/drafts/spaces, tags, templates, attachments` | their tables, the parent tree, slugs | CRUD, re-parenting | cascades, cycles, chosen slugs, owners that go |
| `modules/auth` (sessions) | `users.password`, Redis `rt:`, `bl_token:`, `tv:`, `prt:` | login, refresh, logout, forgot, reset, change, forced reset | each flow is several Redis and database commands |
| `modules/auth` (accounts) | `users`, `user_oauth`, `vt:` keys, `invitations` | register, verify, resend, OAuth linking, invitations | first sign-ins that race, one-time tokens |
| `modules/profile` | `user_profiles` and seven section tables | get, update, add, change, remove, recalculate | a derived value recomputed by every write |
| `modules/profile` (documents, storage) | `documents`, object store | upload, delete, presign | row and object change separately |
| `common/middleware`, `common/guards` (idempotency) | Redis `idempotency:` keys | look up, claim, replay, complete | claims that race, processes that die |
| `common/throttler` | Redis counters | increment, block | INCR and PEXPIRE are two commands |
| `modules/ai-assistant` (chat, memory, providers) | conversations, messages, embeddings, proposals | chat, recall, tool calls, index, list | a remote model between two writes; indexing in the background |
| `modules/mail`, `modules/notifications` | a Bull queue, `notifications` | enqueue, process, read | repeated and late delivery |
| `modules/recommendations`, `modules/opportunities`, reference lists | a cache of matches | list, filter, match | rows and count of a page are two statements; rows move between two pages; each page of matches is cached by itself |
| `scripts/load-reference-data.ts`, `prisma/seed.ts` | countries, cities, majors, institutions, the administrator | load, verify, seed | not transactions; run again and again, also side by side |
| guards, pipes, filters, interceptors, health, bootstrap | none | per-request checks | none |

How they interact: finalize (drafts) inserts into `documents` (profile) under a
limit that uploads (profile) share; accepting a proposal (assistant) writes the
page (drafts) and its history through `createSnapshot`; registration and every
section call `ProfileService.recalculate`; every guard reads the Redis keys the
session flows write; mail is queued by the account flows; the chat makes
proposals while it answers; deleting a space or an account cascades to pages,
tags, templates, attachments and documents, and leaves their objects.

What makes each correct:

* **Drafts**: a finalized snapshot shows the text its document was made from;
  history never loses or repeats a document; FINALIZED is read-only; a proposal
  is decided once and leaves a milestone to go back to; the document limit
  holds; every request ends.
* **Sessions**: what was refused stays refused; once a logout, a password change,
  a reset or a forced reset is answered, the sessions it revokes are over and the
  access tokens it invalidates are refused; a reset token sets one password.
* **Profile**: the percentage is that of the data, a row can be matched exactly
  if it reaches the threshold, the city lies in the country, the sections keep
  their limits.
* **Accounts**: a link that was replaced or used verifies nothing, and the newest
  link of an account that waits always works; an accepted invitation brought a
  complete account into being; no account without a way to sign in.
* **Idempotency and throttling**: a replay is the answer to the same payload; a
  key that was answered is not executed again; a key is stuck only after a
  failure; a refusal comes only from a counter that expires.
* **Draft tree**: a page lies in its own workspace and under pages of it; a slug
  is shared at most by pages made at the same time; a template is kept by its
  creator or nobody.
* **Storage**: no row without its object and no object without its row, unless
  something broke off between the two.
* **PDF**: what the reader of the editor sees: the words, in order, with their
  look, their lines and list items.
* **Chat**: nothing of one user reaches another; a question has its reply, and a
  proposed edit a reply that names it, unless something broke off; memory holds
  answered turns.
* **Mail, notifications**: a job counted as done was delivered; a second delivery
  had a crash.
* **Loader, seed**: a run that ends well has loaded everything, a check fails for
  a reason, an administrator has a role.
* **Lists, matches**: a client that pages to the end has seen every row once,
  unless that row moved while it was reading; an answer from the cache is the
  user's own and says since when it is true.

## 2. Modules

| Module | What it is |
|---|---|
| `DraftLifecycle` | pages, versions, documents, proposals; one action per statement of each handler |
| `DraftLedger` | abstract specification: what the drafts promise of their records, every operation atomic |
| `DraftAnswered` | `DraftLifecycle` under fairness, a behaviour being with faults or without |
| `AuthSessions` | one account's sessions in PostgreSQL and Redis |
| `ProfileCompletion` | one user's profile row, sections and completion percentage |
| `Registration` | accounts, verification links, invitations and linked identities |
| `RequestGate` | the idempotency middleware and the rate limit, over two tiers of cache and several processes |
| `DraftTree` | spaces, pages in their tree with slugs and positions, tags and labels |
| `Workspace` | `DraftTree`, `StoredFiles` and `DraftTemplates` side by side |
| `StoredFiles` | documents, finalized PDFs and attachments: rows and objects |
| `DraftTemplates` | templates, the spaces that keep them and the accounts that made them |
| `DraftPdf` | what `compilePdf` makes of a TipTap document |
| `AssistantChat` | a turn of the chat, its tool calls, the memory behind it |
| `Delivery` | the mail queue and the notifications |
| `ReferenceLoad` | the loader of reference data and the seed |
| `Catalogue` | every list a client pages through, with its filters, and the cache of matches |
| `Services` | `AssistantChat`, `Delivery`, `ReferenceLoad` and `Catalogue` side by side, and what they promise together |
| `MC*` | instances for TLC: small sets, symmetry; `MCWorkspace` and `MCServices` each check several modules in one run |
| `DraftLifecycleProofs`, `DraftRecordsProofs`, `AuthSessionsProofs`, `ProfileCompletionProofs`, `RegistrationProofs`, `RequestGateProofs`, `WorkspaceProofs` (tree, files, templates), `ServicesProofs` (chat, mail, notifications, seed, lists, matches) | the theorems |

No action of one state machine writes a variable of another.  Where they meet,
each says what it takes for granted of the other: the limit that uploads share
is in `DraftLifecycle`, whose finalize is an upload for `StoredFiles`; the row and
role that registration creates are in `Registration`; what becomes of a
proposal the chat made is in `DraftLifecycle`; a space that is deleted takes its
pages and tags along in `DraftTree`, its templates in `DraftTemplates`, its
attachments in `StoredFiles`.  All have the same shape.  A *worker* is one request in
flight; `req[w]` holds its program counter and the locals that survive an
`await`.  `Arrive(w)` is the code from the call of the handler to its first
write or remembered read, `Continue(w)` each later statement, `Fault(w)` the
end of a request at any point (a statement that fails, a process that dies):
what it wrote stays, its locals are gone.  `Calls` selects which endpoints and
faults an instance has.  A request the code rejects without a write has no
action: it changes nothing.  The newer modules name their workers (clients, carriers,
talkers, posters) and give each statement an action of its own.  (In `RequestGate` arrival itself does nothing but
start the request, and a crash takes a whole process with its memory.)  Operators whose comment begins with "Mutant" are
plausible wrong versions of the definition after them, used to show that a
property can fail.

### DraftLifecycle

`pages`, `versions`, `proposals`, `docs` are the tables; one user, one
workspace.  A page's `contentJson` is a set of phrases: enough for what the
code asks of it (is the text to replace there; is it the text that was
compiled).  Rows go `unborn`, `live`, `gone`; a UUID is never used again.
`finalize` is `FinalizeRead` (checks), `FinalizeQuota` (count), `FinalizeDocument`
(insert), `FinalizeLink` (page update) and `FinalizeSnapshot`; `acceptProposal`
is the one transaction: `AcceptBegin`, `AcceptClaim` (updateMany, which takes
the row lock or waits for it and re-evaluates its condition), `AcceptSnapshot`,
`AcceptRead`, `AcceptCommit`.  `WriteRejected` stands for updates by id of rows
that are gone (P2025) and foreign keys that no longer hold.  The upload to
object storage inside finalize and the compilation of the PDF change no row and
are part of the step that follows them.

### DraftLedger

Four variables (`published`, `attested`, `milestones`, `decision`) and atomic
operations.  `DraftLifecycle` implements it with the refinement mapping of
`Ledger == INSTANCE DraftLedger WITH ...`: finalized snapshots map to
attestations, other snapshots to milestones, proposals to decisions.  Checked by
`draft_records`, proved by `ImplementsLedger`.

### AuthSessions

`tokens` are the pairs ever signed, `active` the `rt:` keys, `blacklist` the
`bl_token:` keys, `tv` the token version (0: no key), `resets` and `current`
the `prt:` keys.  `Accepted(t)` is the verdict of the guards on an access token.
A Redis pipeline is one command.  JWTs carry whole seconds and no nonce, so two
sign-ins of one version in one second give the same pair (`thisSecond`).
`KEYS` and the later `DEL` of `revokeAllUserRefreshTokens` are two steps
(`RevokeScan`, `RevokeDelete`).  The set `rt:user:` is written and never read,
so it is left out; `isActive` is never changed by the code, so the account is
active.  The two awaits inside the guards read keys that only grow stricter
within a request, and are one evaluation of `Accepted`.

`used`, `raced`, `ended`, `barred`, `slipped`, a pair's `session` and a request's
`session` and `before` are history: no action reads them in a guard.  A session is
named by its first pair, which every refresh passes on.  When a logout, a change, a
reset or a forced reset is answered, the sessions that were there when it came are
`ended` (after a change: all but the caller's, the promise of FR-022) and the access
tokens it invalidates `barred`.  `slipped` are the refresh tokens that overlap may
keep alive all the same: those being renewed, signed or stored while the sessions
are deleted, their descendants, and pairs signed twice within a second.  `raced` are
the reset tokens that two requests held at once past both checks, or whose holder
broke off.

### ProfileCompletion

`profile` is the row, `rows` the seven sections, `settings` the configuration
(no code writes it), `shared` history: the requests in flight that have met
another one.  The percentage is computed exactly as the code does, group by
group; 630, the common multiple of the default weights, keeps the sum of
fractions in the integers (`Score630`).  The weights are natural numbers and
the threshold at least 1; with such settings the exact sum and the code's
floating-point sum may only differ when a score falls on a half.
`getNumber` answers with a default when its read fails
(`settingsFault`): `WeightsRead`, `ThresholdsRead` and `LimitsRead` are the
values a read may give.  `getProfile` with its includes is one read.

### Registration

`account` is the users row with its profile and role rows, `identity` the linked
provider identities, `invite` the invitations; `owner`, `alive` and `current`
are the `vt:hash` and `vt:current:` keys, `mailed` the links handed to the mail
queue.  `register` is `Register`, `RegisterCreate`, `Recalculate`, `StoreLink`,
`SendLink`; `verifyEmail` is `Verify`, `VerifyCurrent`, `VerifyUser`,
`VerifyWrite`, `VerifyDrop`; `registerWithInvite` writes four rows in four
steps.  The unique columns are in `Add` and `OAuthLink`, and `CreateRefused`,
`ProfileExists`, `IdentityTaken` are the requests they turn away.  Mail may be
delivered late or twice: a link in `mailed` can be followed at any time.  Of the
limit of one mail a minute nothing is modelled, because it counts per client
address *and* e-mail, so requests for one account overlap all the same.
`dead` (the links that must not verify any more), `late` (the link was dead when
the request came) and `from` (what made the account) are history.
`AccountsLeft` and `LinksLeft` start a request only while there is an identifier
for what it may create.  Left out: that deleting an inviter deletes the
invitations, `isActive`, and what Prisma's cascade removes beyond profile, role
and identities.

### RequestGate

`memory[p]` and `redis` are the two tiers that hold the `IdempotencyRecord` of a
key; `hits` and `expiring` are one throttler counter.  The middleware is
`Arrive`, `Lookup`, `LookupRedis`, `Claim`, `ClaimRedis` or `Replay`; the
throttler guard, which runs after it, is `Incr` and `Pexpire`; `res.json`, which
the middleware has wrapped, is `Respond` (after `Handle`, or after a refusal:
the answer 429 is recorded like any other) and `Persist`.  The cache library is
not under `src/`: whether it copies a record found in Redis into memory, and
whether a failed command throws or reads as a miss, is left open.  An answer is
named by the payload it was given to, the only thing a replay can get wrong.
`answered` and `lost` are history.  `ExpireRecord` waits for the requests of the
key in flight: a record lives 24 hours, a request at most 30 seconds.  `MaxHits`
saturates the counter: hits above it are alike.

### DraftTree

`spaces`, `tree` (the pages), `tags` and `labels` (the tags of a page) are the
tables.  A slug is what `slugify` makes of a title with a counter; each candidate
is probed by a query of its own (`ProbeSpaceSlug`, `ProbePageSlug`).  The slugs of
spaces and the names of tags have a unique index, the slugs of pages have none.
`UpdatePage`, `FindPage`, `CheckNewParent`, `ProbePageSlug` and `WritePage` are
`update`; whether the page is FINALIZED is `DraftLifecycle`'s.  Deleting a space
removes pages, tags and labels; trashing a page leaves its children where they
are.  `TreeWriteRejected` stands for a row that is gone and a foreign key that
no longer holds.

### StoredFiles

`files` are the rows of documents and attachments, `objects` what the store holds
under each key; `page` and `user` are what the rows hang on.  All three uploads
store the object and then insert the row; only the upload of a document cleans
up after a failed insert, and its clean-up may fail.  Both deletes remove the
object and then the row.  Failures are those of the store (before or after it
did what was asked), of an insert (an insert that committed and whose answer was
lost is `InsertUnsure`), crashes, and cascades, which leave objects behind.
`blame` is history: what broke off, and at which key.

### DraftTemplates

`FindSpace` and `InsertTemplate` are two statements; the space, or the account,
may go between them, since who asks is taken from the access token.  Opening and
closing a space and removing an account are one step each.  `makers` is history.

### DraftPdf

`mapAstNode` with its arrays, `mapAstInline` with the marks in their order,
`flatten` and the alternatives of `mapContentJsonToPdfContent`; margins, sizes,
colours, header and footer are left out.  Recursive operators follow the code's
recursion.  `Edited` is the reference definition: what a reader of the editor
sees, every word with its look and the places of the list items around it, and
every new line, image and rule; `Printed` reads the same from the document
definition.  `PdfShowsPlainDocument` demands that the two are equal (`SameToReader`)
for `Plain` documents, those without a hard break, an image, and a text both struck
out and linked.  The others are in the instance as well, and their PDF differs:
section 5 lists that as a divergence, and no property excuses it.

### AssistantChat

`owners`, `threads`, `memory`, `staged` are conversations, messages, embeddings and
proposals; `jobs` are the turns handed to the background, `talk` the requests in
flight, `now` the clock, `cutOff` and `unsure` history.  A turn is `Chat`,
`OpenConversation`, `ReadHistory`, `Recall`, `SaveQuestion`, `AskProvider`, any number
of `RunToolCall`, `SaveReply`, `FinishTurn`; `IndexTurn` runs in the background, once
for each message.  A message is known by its place among the inserts.  Its
`createdAt` is the moment its insert was sent: the clock may stand still or go on
(`ClockSteps`) between two statements, so of two turns that overlap the later place
may have the earlier moment or the same one, and the queries that order by
`createdAt` (`Oldest`, `Newest`) return rows of one moment in any order.  Which turns
are similar is left open.  The provider never throws: without a key, after an error
or after 15 seconds it answers with a text of its own; a model that only calls tools
gives an empty reply.  A tool call that fails is swallowed and the turn goes on: the
proposal is not made, or its insert was carried out and only the answer lost, and
then it is stored and no reply will name it (`unsure`).  A statement of the turn
itself may fail before (`StatementFails`) or after (`AnswerLost`) it was carried out;
`cutOff` records those turns and the ones that died with their process
(`ChatCrash`).  The pages a client reads of conversations and messages are
`Catalogue`'s.

### Delivery

A job is added by one command, processed one at a time, and has failed as soon
as it throws: the queue is registered without attempts.  BullMQ is external; a
job whose worker dies is started once more (`MaxStalls`).  A notification is
`FindType`, `CreateType`, `InsertNote`; reading it is `FindNote`, `MarkRead`.

### ReferenceLoad

A run of the loader goes from countries through cities, categories and majors to
institutions and the closing check, statement by statement; `SomeCountries`,
`NewCities`, `NewCategories`, `NewMajors` and `Placed` are what it makes of its
sources.  The code goes through the rows of the sheet with a map of prefixes and a
set of titles seen; the model says which rows the loop keeps (`Leads`, `Unseen`,
`FirstOf` for the limits of `--sample`), without the loop, so that it can be
proved about.  Cities have no unique key and are inserted after a read; everything
else is upserted.  Runs may overlap, break off anywhere, and see another edition
of the sources (a feed).
The seed is its upserts (one step, repeated by the next run), the lookup of the
administrator, the account and its role.

### Catalogue

A list is asked for with a query; its rows and their count are two statements
(`ReadRows`, `ReadTotal`), after which the client turns the page or stops.  The
filters are `Where`; `OpportunityFilter` and `MatchFilter` keep Prisma's shape of
conditions that all hold and one list of alternatives, because the code moves
alternatives about.  A tie in the order is broken as the database likes, page by
page, except in the matches, which order by the opportunity next.

A page of matches may be answered from its own kept answer (`ReadKept`): `kept` holds
the answer of each page with its rows, its count and the `now` it was made with
(`asOf`), stored by `TurnPage` and dropped by `Forget`, so the pages of one walk may
be of different ages.  A request that reads the tables takes `now` once for both of
its statements.

Rows come (`AddRow`), go (`RemoveRow`), and are written anew (`RewriteRow`: a
notification is read, a turn touches its conversation, a score is recomputed, the
loader corrects a name), all notifications of a user are read at once
(`MarkAllAsRead`), and deadlines pass.  A conversation's rows are its messages, in
the order of `createdAt`; a new message may come at any place of it, ties included,
as `AssistantChat` shows it can.  The history of a walk is what its `first` and
`last` page were cut from, what was missing (`left`) or new (`came`) in a later one,
the rows that `tied`, and whether the last count fell `short` of the rows.

The age of the matches is a part of its own: `AskMatches`, `QueryMatches`,
`StoreMatches`, with a clock and versions of a user's matches.

## 3. Runs

Two workers are the least that can race; every hazard in the list needs no
third, because each is one handler's read and write with one other handler in
between.  Where identifiers are used up an instance really ends, and then its
configuration says `CHECK_DEADLOCK FALSE`; in the others deadlock is checked.

| Run | Instance | Shows |
|---|---|---|
| `draft_records` | 2 requests, 1 page, 1 proposal, 3 documents, limit 1, faults | finalized snapshots match their documents, the limit is exceeded by requests in flight only, an accepted proposal has its milestone, `DraftLedger` is implemented, a finalized page changes only under a save that began before |
| `draft_answered` | 2 requests, faults or none, fairness | every request ends, row locks included; without faults every finalized page is in the history |
| `draft_lock_accept` | finalize, propose, accept | divergence: accepting unlocks a FINALIZED page |
| `auth_races` | 2 requests, every endpoint, expiry, faults, 2 pairs, 1 reset token, `tv` present or missing | an answered revocation leaves no refresh token of the sessions it revokes but those that slipped; the access tokens it invalidates are refused; a refused access token stays refused; a consumed reset token stops at the second check, and only a race sets a second password |
| `auth_change` | login and change, one request | divergence: a change of the password ends the session it is made in |
| `profile` | 2 requests, 3 keys, limits 0 or 1, failed settings reads, faults | limit exceeded by at most one; matchable agrees with the percentage; a request alone repairs it, and leaves a city of the country |
| `registration` | 2 requests, 3 links, 2 accounts, 2 addresses, 2 invitations, 1 identity, expiry, deletion, faults | a dead link verifies nothing; the newest link works; an accepted invitation has its account; every account has a door |
| `request_gate` | 2 requests, 2 processes, 1 key, 2 payloads, limit 1, faults, crashes | replays are own answers; answered keys are not repeated; stuck only by failure; refusals expire |
| `workspace` | tree: 2 requests, 6 in all, 2 spaces, 3 pages, 1 tag; files: 2 requests, 2 rows, 2 keys, every failure; templates: 2 requests, 2 users (one an administrator), 2 spaces, 2 templates | a workspace is closed under every overlap; a slug is shared by at most as many pages as requests overlap; a row without its file, or a file without a row, has a cause; templates stay with their creators |
| `page_cycle` | 1 request at a time, 2 pages, creates and moves | divergence: two legal moves put a page below itself |
| `services` | chat: 2 requests, 2 turns (3 where nothing goes wrong), 2 tool calls, 2 users, 2 conversations, history of 2, memory of 1; mail, notifications: 2 each; loader: 2 runs, 2 editions; seed: 2 runs; lists: one client, pages of 1, walks and changes together 3, the matches walked twice; cache: 2 requests, 2 users, 2 versions; PDF: 4006 documents | what each of the services promises (below) |
| `chat_recent` | 1 request, 1 conversation, the code's own limits (10, 3, 3) | divergence: the prompt of the seventh question lacks two of the three newest messages |

`services` checks that users are kept apart (`OwnersOnly`), that a question without a
reply and a proposal no reply names have their cause (`BrokenTurnHasCause`), that
memory holds answered turns, that a walk shows no row twice (`PagesShowOnce`) and,
at its end, all of its first page's list (`WalkShowsAll` in `ShownIsTrue`) but rows
that were displaced, that a completed mail was delivered, that a deployment ends
badly only for a cause and well only with everything loaded, that no dead match is
shown and an answer is as true as it says (`ShownIsTrue`), and that the PDF shows a
plain document as the editor does.  A row is displaced when it ties with another, or
when it or one in front of it is among the rows that went (for a skip) or came (for
a repetition) between two pages: both really happen in this code, and the two
properties say that nothing else makes a walk skip or repeat.

**Scenes and parts.** A run may stand for several questions of one state machine
or for several machines that share no state.  Then a variable of the MC module
(`scene`, `part`, `side`) says which one a behaviour is about, chosen in the
initial state; steps of the others are left out of that behaviour.  The scenes of
`draft_records` are the history of a page without proposals, the review of a
proposal with one document, and everything with one request at a time; those of
`profile` the sections and the place; those of `registration` the links and the
accounts; those of `auth_races` a signed-in client beside an administrator, and
resets beside sign-in and renewal.  What a scene leaves out is in another scene or
in another run, with these exceptions: rows of a section beside an update are of one
key; one update sets a scoring field or the place of residence, not both; a reset
does not overlap a logout or a change of the password; an account without `tv` has
its requests one at a time and no OAuth; the third turn of a chat is only taken in
behaviours where nothing goes wrong within a turn, the model calls no tool and all
messages are of one moment.  The theorems hold without any scene.

**Bounds.**  Three links are the one replaced, the newest, and one for a second
account.  One key suffices because no action relates two; two payloads are the
same request retried and another one under the same key; a limit of one has an
admitted and a refused request.  Three documents with a limit of one, and three keys with a limit of
one, let a wrong check exceed the bound that the right one keeps.  Phrases: one
is enough to tell two texts apart.  `MaxVersion` bounds `tv`, `VersionsLeft`
and `PairsLeft` start a request only while there is room for what it will use,
so no request is cut off half way by a bound.  Two pairs are a session and its
successor, or two sessions side by side.  Symmetry is
used on identifiers only, and never in the liveness run.  Identifiers of pages,
templates, files and links are interchangeable as well; where they do not stand
in a symmetry set they are issued in one order (`InOrder`).  Three pages are a
parent, a child and a page to move between them; six requests (`Budget`) create a
space, three pages and leave two that overlap.  Two turns overlap or follow each
other, a third one makes an old turn, the newest and one in flight; the history
takes 2 and the memory 1, so that a message can fall between the two.  Two tool
calls (`ToolCalls`) are one that fails and one that does not; `MaxMoment` stops the
clock after one tick, enough for two messages to tie or to be in the other order.
Three or four rows with pages of one make a walk that is overtaken by a row that
comes, goes or moves, by a deadline, or by a page from the cache; `ListEffort`
bounds walks and changes together, which leaves two changes to a walk, or one to the
two walks of the matches (the first of which fills the cache).  The editions of the
reference data have a
city twice, a title twice in a category, a major before its category, and an
institution without a city; batches of one let a run break off between any two
statements.  The documents of the PDF are one line under each ordered choice of at
most three marks, and trees of two blocks to a node up to four levels deep,
which reach every case of `mapAstNode` inside every other.

**Fairness** (`Fairness` in `DraftLifecycle`, `AnsweredSpec` in `DraftAnswered`): weak fairness of `Continue(w)`, since
a statement that was sent is answered (a failed one ends the request anyway); strong fairness of `AcceptClaim(w)`, since PostgreSQL
queues the waiters of a row lock.  No arrival is fair: clients may stop.

## 4. Proofs

| Theorem | Statement |
|---|---|
| `TypeCorrect`, `SessionTypeCorrect`, `ProfileTypeCorrect`, `RegistrationTypeCorrect`, `GateTypeCorrect` | `Spec => []TypeOK` |
| `SnapshotsMatchDocuments`, `DocumentsRecordedOnce` | finalized snapshots are true to their documents, and name each once |
| `AcceptedHaveMilestones`, `ProposalsDecidedOnce` | review |
| `OvershootBounded` | documents at most `MaxDocuments + Cardinality(Workers) - 1` |
| `ImplementsLedger` | `Spec => LedgerSpec` |
| `FinalizedReadOnly` | only a save that looked before the finalize changes a FINALIZED page |
| `RequestsGoForward`, `LocksExclude` | every statement brings its handler nearer the end; the row of a proposal is locked by one accept at a time |
| `FinalizedRecorded` | `"patchStatus" \notin Calls => (AnsweredSpec => []CalmFinalizedIsRecorded)` |
| `RefusalIsFinal` | `InitialVersions = {1} => (Spec => RefusedStaysRefused)` |
| `ConsumedRefused`, `ResetTokensReused` | `Spec => ConsumedTokenRefused`, `Spec => ResetTokenReusedByRaceOnly` |
| `RevokedEnd` | `Spec => []RevokedSessionsEnd` |
| `RevokedRefused` | `InitialVersions = {1} => (Spec => []RevokedAccessRefused)` |
| `CompletionGrows`, `CompletionEnds` | the percentage is monotone, within 0..100, 100 for a full profile and 0 for an empty one |
| `MatchableAgreesAlways`, `AlonePlace`, `AloneCurrent`, `LimitOvershoot` | profile |
| `DeadLinks`, `NewestWorks` | verification links |
| `AcceptedInvitations`, `DoorsStay` | accounts |
| `ReplaysOwnAnswer`, `AnsweredOnce`, `OnlyFaultsStick`, `RefusalsExpire` | idempotency keys and rate limits |
| `WorkspaceTypesSafe` | `TreeSpec /\ FilesSpec /\ TemplatesSpec => []WorkspaceTypeOK` |
| `TreeTypeSafe`, `WorkspacesClosed`, `SlugOvershoot` | the tree: types, pages and labels within their workspace, at most `Cardinality(Clients)` pages of one slug |
| `FilesMatch`, `TemplatesStayHome` | rows and objects; templates and their creators |
| `OwnersApart` | `ChatSpec /\ DeliverySpec => []OwnersOnly` |
| `BrokenTurns`, `MemoryTrue` | the chat and its memory, any number of tool calls, every fault |
| `ServicesTyped` | `ChatSpec /\ DeliverySpec /\ ReferenceSpec /\ CatalogueSpec => []ServicesTypeOK` |
| `MailDelivered`, `BareAccount` | mail, the seed |
| `ReferenceTypesSafe`, `DoneLoaded`, `DeploymentsHaveCause` | the loader, for any sources and any number of runs |
| `WalksShowAll`, `WalksShowOnce` | walks through lists of any length in pages of any size, whatever becomes of the rows and whichever pages come from the cache |
| `DeadMatchesHidden`, `ServedTrue`, `ShownTrue` | what a page of matches shows; the age of an answer; both with the walks |

Assumptions are those named in the modules: finite non-empty sets of workers,
finite sets of rows, limits and bounds in `Nat`, `NONE` outside the other sets.
`RefusalIsFinal` and `RevokedRefused` assume that the account has its `tv` key at the
start.  Without it they are false: a first sign-in reads the key as missing and its
`SET 1` may follow the increment of a forced reset, so a token refused in between is
accepted again.  (The run has both, the account without the key with requests one at
a time.)  `FinalizedRecorded` lets requests overlap and needs that nothing fails
between link and snapshot, and that no `PATCH` sets FINALIZED by hand.

The inductive invariants and why they are needed:

* `TInv` adds to types which locals a handler has assigned by each program
  counter; without it no write is well typed.
* The lineage invariant says of a request between the insert of the document
  and the snapshot that its locals hold the inserted text, and that nobody else
  will record that document; that is what survives whatever other requests do
  to the page meanwhile.
* The review invariant relates the row lock to the program counters: between
  claim and commit no other request sees the proposal claimed or decides it,
  and the snapshot is in the transaction's own writes.
* The quota invariant counts the requests that have passed the check and not
  inserted: live documents + those requests stay within the limit + workers - 1.
  Each passes when there are fewer documents than the limit, so the sum is at
  most limit - 1 + workers at the moment of a check, and every other step keeps
  or lowers it.  `LimitOvershoot` uses the same count for educations; for the
  other sections, where requests may repeat a key, it counts the *set* of keys
  in rows and passed requests instead.
* `RefusalIsFinal` needs that the version in `tv` never falls and that nothing
  signs a version above it.
* `RecordInv`: the document of a FINALIZED page is in the history, or a request
  stands at its snapshot with that page and document.  It needs `UpdateInv`, that
  a save which is about to write saw a page that was not FINALIZED, so that what
  it writes into the status is never FINALIZED again by itself, and `PageStep`,
  the seven things a step can do to a page.
* `RevokedRefused` needs more (`BarInv`): no pair has a version beyond `tv`, so an
  increment refuses every access token there is, and a reset that waits for its
  last step has made it.
* `ResetTokensReused` rests on `RaceInv`: a token that has set a password is still
  under the pointer only while a request that will consume it is under way, or it is
  in `raced`.
* `RevokedEnd`: `Kept(S, R, A)` says that among the refresh tokens `A`, and among those
  about to be stored, none is of a session in `S`, and that no renewal of a session in
  `R` is under way, the slipped ones apart.  `EndInv` has it for the sessions
  that were ended with every active token, and for a request between `KEYS` and
  `DEL` with the tokens its `DEL` will leave; a renewal that comes in between has
  slipped, and so has every pair that was on its way at the `KEYS`.
  `SessionsOf` ties every pair to the first of its session.
* `AlonePlace` and `AloneCurrent` rest on `Met`: two requests in flight are both
  in `shared`, so a request outside it reads what it will still find at its
  write.

* For the accounts, `Made` says what the rows of a request with an invitation or
  an identity look like at each of its statements, and `Grows` that an account
  only gains: no step takes the role, the profile or the password away, so what
  was complete when the invitation was accepted stays complete.
* `DeadLinks` and `NewestWorks` share `LinkInv`: a link that is not dead works
  (it is in Redis, current, and its account awaits it); a dead one still in
  Redis is no longer current, or its account is settled (verified or deleted,
  which `Grows` shows to be final); and a request that follows a dead link has
  met, or will meet, one of the two at its checks.
* `GInv` of the gate says that a record has its own answer or none, that a claim
  and an answered key stay in Redis while a request of the key is in flight,
  and that every record in progress has a request that will complete it, unless
  a failure is recorded in `lost`.  It was checked by TLC on the instance of
  `request_gate` before it was proved.

* `TreeInv` says of every request on the tree what it has found and what of it
  still holds: what was found in a workspace (`AskFacts`, `Settled`) stays there or is
  gone, because a page never changes its space, and a foreign key stops a write
  under a row that is gone.  `SlugCount` is the quota argument again: the pages
  that hold a slug and the requests that found it free and have not written are
  together at most `Cardinality(Clients)`.
* `FilesInv` says where a request is between object and row: the object it
  stored is there, or its loss is in `blame`; nobody else uses its key.
* `TemplatesInv` relates the space found by a request to who owns it, and every
  template to the account in `makers`.
* `ChatInv`: by its program counter a turn has stored its question, its proposals
  or its reply, in a conversation of its own user; no step takes a message away
  (`ThreadsGrow`), so an answered question stays answered, and a step either keeps
  what the turn has made or records its end (`Accounted`); a proposal that is new is
  in the list of its turn or `unsure` (`NewProposals`).  `NamesMade` types the
  proposals a reply will name, which exist before the reply does.
* `DeliveryInv` counts: as long as a job has not handed its mail over in its
  present run, there were no more deliveries than dead workers.
* `LoadedInv` says of each full run which parts of its feed are in the tables and
  which it still holds; nothing is ever removed (`TablesGrow`), so no other run
  disturbs it.  An institution, stored or held, is in a stored city of its country
  or in none (`RightPlaces`).
* `CauseInv`: as long as no two runs were between their read of the cities and the
  last insert (`CitiesOnce`), a city that a run holds has no row; every major,
  stored or held, is one that a full run of some feed would store
  (`MajorsOfFeeds`), where each title of a category occurs once (`TitlesOnce`).
  That a sample stores a subset of these (`SampleOfFull`) needs that no two
  categories have one title.  The feeds are assumed typed (`FeedsAssumption`)
  and nothing more.
* `ListInv` carries a walk (`WalkFacts`): a row of the first page's list that is still
  to be shown is displaced or has at least as many rows ahead of it as the pages so
  far have skipped (`Coming`), so a page shows it or passes it over to the next, and
  the count says that there is a next one; a row that was shown is displaced or has
  fewer (`Gone`), so no later page shows it again.  Both survive a change between two
  pages because the rows ahead of a row that is not displaced lost nothing (`left`),
  or gained nothing (`came`).  `PlaceInOrder` and `PageCut` give the place of a row in
  any order the database may choose, and `PageFacts` holds of an answer that was kept
  as of one that was just read, which is all a walk needs of the cache.
* `MatchInv` says of every answer, in flight or kept, that the versions after its
  own began at its `synced_at` or later.
`TypeOK`, `DocumentRecordedOnce` and `DecidedOnce` are proved and no longer run:
the first holds wherever the others are evaluated, the other two follow from the
same invariants as the properties that are run (`LedgerSpec` fails with them).

Only model-checked: liveness under fairness (`RequestsAnswered`), which the
provers cannot reach, although what it rests on is proved: a handler sends at most
five statements and is never set back (`RequestsGoForward`), and who waits for a
row waits for one request, which waits for none (`LocksExclude`); the absence of
deadlock; and `PdfShowsPlainDocument`: `DraftPdf`
follows the recursion of `mapAstNode` over trees, and what it computes for every
tree is an induction over data.  Every other property of a passing run is the
conclusion of a theorem above.

## 5. Known divergences

Reproduced by a violation run, see `findings`: `draft_lock_accept`, `auth_change`,
`chat_recent`, `page_cycle`.  Also met while modelling:

* An auto-save that read its page before a finalize overwrites the finalized
  text; two overlapping saves lose the first (no version in the write), although
  `src/specs/010-personal-drafts-editor/spec.md` asks for stale writes to be
  rejected.
* `PATCH` may set the status FINALIZED on a page that has no document.
* A milestone taken by accept is of the text its transaction saw; a save that
  commits between that read and the accept's write is lost without a version.
* A finalize that fails after the document insert leaves a document that no
  page and no history names, and it counts toward the limit.
* Overlapping finalizes and uploads exceed the document limit, overlapping
  section creates the section limits (by what the theorems bound).
* A refresh or login that overlaps logout, reset or forced reset stores its
  session after the scan, and survives it (these are the tokens in `slipped`).
* Two sign-ins within a second return the same tokens, so a logout of one is a
  logout of both.
* Two overlapping recalculations may leave the percentage of the older data,
  and two overlapping updates a city outside the country, until the next write.
* A total of the weights other than 100 (a mistake, or one failed read) answers
  500 after the write it follows has been made.
* Two resets with one token both set a password when the second has passed both
  checks before the first deletes the token, or the first breaks off before it
  does, although `src/specs/007-email-auth-upgrades/spec.md:157` (FR-016) says that a
  token must not be reusable.
* A first sign-in of an account without `tv` overwrites an increment.
* The token of a first OAuth sign-in carries no version and is refused by every
  guard until the next refresh, although
  `src/specs/002-oauth-integration/spec.md:116` expects the
  user signed in.
* `registerWithInvite` that breaks off leaves the account without profile or
  role and the invitation open; the retry is refused because the address is taken.
  An invitation issued without a role gives none.
* Two requests that bring the same new idempotency key at once both run.  Every
  answer, 429 and 408 included, is recorded and replayed for a day; the handler
  of a 408 may still be running.  A crash between claim and answer leaves the key
  "processing", so a retry gets 409 for a day.
* Two overlapping creates give two pages of a workspace the same slug.  A page
  moved under a page that is trashed meanwhile, or left behind by it, is in no
  list of the tree.
* A delete that fails between object and row leaves a row whose file is gone; a
  finalize or an attachment whose insert fails, and every cascade, leaves an
  object nobody can find.
* A default template kept in a space goes with that space; a template of an
  account that is gone, not a default one, is offered to nobody and can be
  deleted by nobody.
* The PDF loses line breaks (a `hardBreak` comes out as an empty text and joins
  the two lines) and images, and of a text both struck out and linked, in some orders
  of the marks, the strike, although `src/specs/010-personal-drafts-editor/spec.md` asks for
  embedded images (:119, FR-003), a high-fidelity document (:126, FR-010) and visual
  parity with the editor (:157, SC-005).
* A conversation id that is not the user's own starts a new conversation
  without a word.  A turn that breaks off leaves its question, and any edit it
  proposed, without an answer that names them.  A tool call whose insert is carried
  out and whose answer is lost is swallowed: the turn ends well, and its proposal is
  stored and named by no reply.
* `createdAt` of a message is taken before its insert commits, in whole
  milliseconds, and the query that pages through a conversation breaks no ties: of
  overlapping turns a message may come in behind a page that was already read, and
  two of one moment may change places, so the pages skip or repeat a message.
* A mail that the server refuses once is never tried again; one that went out
  just before its worker died goes out twice.
* A list that is ordered by a column with equal values shows a row twice or not
  at all when the pages are read by different plans: only the matches break ties.
  A client that marks notifications as read while it pages through the unread ones,
  or that pages through conversations while turns go on, steps over rows; the pages
  of matches are cached one by one, for up to half an hour, so a walk through old and
  new ones skips rows and repeats them, and shows a match whose deadline has passed
  since its page was kept.
* Matches are filtered with `status NOT IN (...)`, which leaves out opportunities
  without a status; `src/specs/009-recommendations-matches/research.md:41` counts them
  as active, and has `inactive`, `error` and `failed` in a list of statuses to leave
  out in which the code has `rejected`.
* Two runs of the loader at once insert cities twice, and every later run then
  refuses its data; when the sources move a title to another code, the old row
  stays and the check fails.  A sample of a sheet with two categories of one title
  and a full run of it load two codes of one major, and every check fails from
  then on: an attempt to prove that only the first two can happen showed the
  third, which the sheets of the instance do not have.  A seed that dies between the account of the
  administrator and its role leaves the account without a role for good.
* Files of the local provider cannot be downloaded by the URLs it signs: the
  route takes no key with a slash, and decrypts what no upload encrypted
  (`src/specs/003-profile-creation-management/tasks.md:545` accepts the provider when
  "Signed URL works").  Not modelled, as the route only reads.

## 6. Not modelled

* Role, ownership and policy guards, DTO validation, response formatting, health
  checks, configuration, bootstrap: stateless, one request at a time, or constant.
* `openai.provider.ts`, `anthropic.provider.ts` and the endpoints that transform a
  text: one HTTP call, nothing stored.  The provider the chat uses is an external
  environment.
* `verify-oma-*`, `security-audit-probes.ts` and the shell scripts: they inspect
  this repository or call a running server and print what they find.
* Reading of saved and single opportunities, matches and reference rows, signed
  URLs, downloads of the local provider: single reads.
* Dates, scores and grades of the sections, fees, dates and languages in the
  filter of opportunities: columns that are stored, or compared one by one, as
  those modelled are.
* pdfmake, BullMQ, the SMTP server, the object stores and the databases: external,
  as far as the code depends on what they do.
* User deletion by an administrator is in `Registration`, `StoredFiles` and
  `DraftTemplates`; the other models leave it out, as it removes all their rows at
  once by cascade.

## 7. Plan

Every component that keeps state is modelled, and every safety property that is
run is proved except that of the PDF.  What is left: the remaining columns of the
profile sections as pure algorithms, GPA normalisation and score steps against
reference definitions.
