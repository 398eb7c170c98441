------------------------------ MODULE Catalogue ------------------------------
(***************************************************************************)
(* The lists a client reads page by page (reference data, users,           *)
(* notifications, opportunities, matches, conversations and their          *)
(* messages) and the cache in front of the matches.                        *)
(*                                                                         *)
(* Every list is answered by two statements that run side by side, the     *)
(* rows of the page and the count of all rows, each seeing the table at    *)
(* its own moment; a page of matches may come, rows, count and all, from   *)
(* the answer kept when that page was last asked for.  A walker asks for   *)
(* page after page as long as the count says there are more.  Meanwhile    *)
(* rows come (the loader, createNotification, a turn of the chat, the      *)
(* pipeline of the AI team that owns opportunities and match scores), go   *)
(* and are written anew, and deadlines pass.  Dates are two moments:       *)
(* before and after the deadline, and a request asks which deadlines have  *)
(* passed once, for both of its statements.                                *)
(***************************************************************************)
EXTENDS Integers, Sequences, FiniteSets, SequencesExt

CONSTANTS
    ListRows,      \* rows that may be stored, records; a row written anew is another record
    ListQueries,   \* what a client may ask, records
    Walkers,       \* clients that walk a list
    PageSize,      \* limit
    MatchUsers,    \* users who ask for their matches
    MatchQueries,  \* an endpoint and a normalised query: the cache key without the user
    Asks,          \* requests for matches in flight at the same time
    CacheTTL,      \* how long an answer is kept, by query
    MaxClock, MaxVersion,  \* bounds of the instance
    ABSENT         \* null, undefined

ASSUME RowsAssumption ==
    /\ IsFiniteSet(ListRows)
    /\ \A row \in ListRows :
          {"list", "id", "active"} \subseteq DOMAIN row /\ row.key \in Int /\ row.id \in Nat
ASSUME PageAssumption == PageSize \in Nat \ {0}
ASSUME CatalogueBounds == {MaxClock, MaxVersion} \subseteq Nat
ASSUME TTLAssumption == CacheTTL \in [MatchQueries -> Nat \ {0}]

VARIABLES
    stored,    \* the rows in the tables
    overdue,   \* ids of rows whose deadline has passed
    walk,      \* the walk of each client
    kept,      \* cached pages of matches: the answer, and what it was cut from
    clock,     \* time, for the cache
    turns,     \* by user: when each version of the matches began
    cache,     \* by query and user: the answer kept
    ask        \* the locals of each request for matches

listVars == <<stored, overdue, walk, kept>>
matchVars == <<clock, turns, cache, ask>>
catalogueVars == <<listVars, matchVars>>

-----------------------------------------------------------------------------
(* Which rows a query wants.  An absent filter wants all.                  *)

Asked(filter, value) == filter = ABSENT \/ filter = value
AskedWord(word, words) == word = ABSENT \/ word \in words

(* countries, cities, majorCategories, majors, institutions: the active     *)
(* ones; parent is the region, the country or the category                 *)
ReferenceWhere(q, row) ==
    row.active /\ Asked(q.parent, row.parent) /\ AskedWord(q.word, row.words)

(* languages have no flag *)
LanguageWhere(q, row) == AskedWord(q.word, row.words)

(* listConversations, getConversationMessages: parent is the user, or the   *)
(* conversation, which must be the user's.                                 *)
ChatWhere(q, row) == row.parent = q.parent

NotificationWhere(q, row) == row.parent = q.parent /\ (q.unread => row.active)

(* UsersService.findAll: a search in the address and the two names, and a    *)
(* role, which the user must have and which must be active                 *)
UserWhere(q, row) ==
    AskedWord(q.word, row.words) /\ (q.parent # ABSENT => row.active /\ row.parent = q.parent)

(* buildOpportunityWhere: conditions that all hold, of which OR is the      *)
(* search in the title and the description                                 *)
OpportunityFilter(q) ==
    [all |-> {{r \in ListRows : Asked(q.country, r.country)}},
     OR |-> IF q.word = ABSENT THEN {} ELSE {{r \in ListRows : q.word \in r.words}}]

(* buildWhere adds the deadline as an OR of its own; passed is what now     *)
(* makes of the deadlines.                                                 *)
OnTime(passed) ==
    {{r \in ListRows : r.deadline = ABSENT}, {r \in ListRows : r.id \notin passed}}
InactiveStatuses == {"closed", "expired", "archived", "rejected"}

(* status notIn wants a status: a row without one is left out. *)
MatchFilter(q, passed) ==
    LET where == OpportunityFilter(q)
        active == {r \in ListRows : r.status \notin InactiveStatuses \cup {ABSENT}}
    IN IF q.includeExpired THEN where
       ELSE IF where.OR = {} THEN [all |-> where.all \cup {active}, OR |-> OnTime(passed)]
       ELSE [all |-> where.all \cup {active, UNION OnTime(passed), UNION where.OR}, OR |-> {}]

Selects(where, row) ==
    /\ \A clause \in where.all : row \in clause
    /\ where.OR # {} => row \in UNION where.OR

MatchWhere(q, row, passed) ==
    /\ row.parent = q.parent /\ row.score > 0
    /\ q.minScore # ABSENT => row.score >= Max({q.minScore, 1})
    /\ Selects(MatchFilter(q, passed), row)

Where(q, row, passed) ==
    /\ row.list = q.list
    /\ CASE q.list = "languages"     -> LanguageWhere(q, row)
         [] q.list = "notifications" -> NotificationWhere(q, row)
         [] q.list \in {"conversations", "messages"} -> ChatWhere(q, row)
         [] q.list = "users"         -> UserWhere(q, row)
         [] q.list = "opportunities" -> Selects(OpportunityFilter(q), row)
         [] q.list = "matches"       -> MatchWhere(q, row, passed)
         [] OTHER                    -> ReferenceWhere(q, row)

Wanted(q, passed) == {row \in stored : Where(q, row, passed)}

-----------------------------------------------------------------------------
(* A page.                                                                 *)

(* key is what the list is ordered by: a name, createdAt, the score;        *)
(* updatedAt of conversations.  Only the matches break a tie, by the       *)
(* opportunity.                                                            *)
Before(q, r, s) ==
    \/ r.key < s.key
    \/ r.key = s.key /\ (q.list = "matches" => r.id < s.id)
Orders(q, rows) ==
    {order \in SetToSeqs(rows) :
        \A i, j \in DOMAIN order : i < j => Before(q, order[i], order[j])}

Skip(page) == (page - 1) * PageSize

(* Mutant: one row more is taken, to see whether there are more. *)
PageOfOneMore(order, page) ==
    SubSeq(order, Skip(page) + 1, Min({Len(order), Skip(page) + PageSize + 1}))

PageOf(order, page) ==
    SubSeq(order, Skip(page) + 1, Min({Len(order), Skip(page) + PageSize}))

(* buildMeta: page < ceil(total / limit) *)
HasNext(page, total) == page < (total + PageSize - 1) \div PageSize

(* Of a walk the history knows what its first and its last page were cut    *)
(* from, what was missing and what was new in a later page's, the rows     *)
(* that tied, and whether the last count fell short of the rows.           *)
Resting == [pc |-> "idle", q |-> ABSENT, page |-> 0, rows |-> ABSENT, total |-> ABSENT,
            asOf |-> {}, hit |-> FALSE, seen |-> <<>>,
            first |-> {}, last |-> {}, left |-> {}, came |-> {}, tied |-> {}, short |-> FALSE]

(* What the request a walker has in flight selects. *)
Selected(c) == Wanted(walk[c].q, walk[c].asOf)

SameRow(row, other) == row.list = other.list /\ row.id = other.id
OneVersion(rows) == \A row, other \in rows : SameRow(row, other) => row = other

ListInit ==
    /\ stored \in {rows \in SUBSET ListRows : OneVersion(rows)}
    /\ overdue = {} /\ kept = {}
    /\ walk = [c \in Walkers |-> Resting]

StartWalk(c) ==
    /\ walk[c].pc \in {"idle", "ended"}
    /\ \E q \in ListQueries :
          walk' = [walk EXCEPT ![c] = [Resting EXCEPT !.pc = "page", !.q = q, !.page = 1,
                                                      !.asOf = overdue]]
    /\ UNCHANGED <<stored, overdue, kept, matchVars>>

(* The page was asked for before: no statement is made. *)
ReadKept(c, answer) ==
    /\ walk[c].pc = "page" /\ walk[c].rows = ABSENT /\ walk[c].total = ABSENT
    /\ answer \in kept /\ answer.q = walk[c].q /\ answer.page = walk[c].page
    /\ walk' = [walk EXCEPT ![c].rows = answer.rows, ![c].total = answer.total,
                            ![c].asOf = answer.asOf, ![c].hit = TRUE]
    /\ UNCHANGED <<stored, overdue, kept, matchVars>>

(* findMany *)
ReadRows(c) ==
    /\ walk[c].pc = "page" /\ walk[c].rows = ABSENT
    /\ \E order \in Orders(walk[c].q, Selected(c)) :
          walk' = [walk EXCEPT ![c].rows = [shown |-> PageOf(order, walk[c].page),
                                            of |-> Selected(c)]]
    /\ UNCHANGED <<stored, overdue, kept, matchVars>>

(* count, of the same where *)
ReadTotal(c) ==
    /\ walk[c].pc = "page" /\ walk[c].total = ABSENT
    /\ walk' = [walk EXCEPT ![c].total = Cardinality(Selected(c))]
    /\ UNCHANGED <<stored, overdue, kept, matchVars>>

Ties(q, r, s) == r # s /\ Before(q, r, s) /\ Before(q, s, r)
Tied(q, rows) == {r \in rows : \E s \in rows : Ties(q, r, s)}

(* The walk after its page: what it has been shown, and the history. *)
Shown(w, next) ==
    [w EXCEPT !.pc = IF next THEN "page" ELSE "ended",
              !.page = IF next THEN @ + 1 ELSE @,
              !.rows = ABSENT, !.total = ABSENT, !.hit = FALSE,
              !.asOf = IF next THEN overdue ELSE @,
              !.seen = @ \o w.rows.shown,
              !.first = IF w.page = 1 THEN w.rows.of ELSE @,
              !.last = w.rows.of,
              !.left = @ \cup (w.last \ w.rows.of),
              !.came = IF w.page = 1 THEN @ ELSE @ \cup (w.rows.of \ w.last),
              !.tied = @ \cup Tied(w.q, w.rows.of),
              !.short = w.total < Cardinality(w.rows.of)]

SamePage(answer, w) == answer.q = w.q /\ answer.page = w.page
Answer(w) == [q |-> w.q, page |-> w.page, rows |-> w.rows, total |-> w.total, asOf |-> w.asOf]

(* An answer of the matches that was not kept already is kept (an error of   *)
(* the cache is logged); the request for the next page has a now of its    *)
(* own.                                                                    *)
TurnPage(c) ==
    /\ walk[c].pc = "page" /\ walk[c].rows # ABSENT /\ walk[c].total # ABSENT
    /\ walk' = [walk EXCEPT ![c] = Shown(@, HasNext(@.page, @.total))]
    /\ \/ UNCHANGED kept
       \/ /\ walk[c].q.list = "matches" /\ ~walk[c].hit
          /\ kept' = {answer \in kept : ~SamePage(answer, walk[c])} \cup {Answer(walk[c])}
    /\ UNCHANGED <<stored, overdue, matchVars>>

(* The time to live is over, or the store made room. *)
Forget(answer) ==
    /\ answer \in kept
    /\ kept' = kept \ {answer}
    /\ UNCHANGED <<stored, overdue, walk, matchVars>>

-----------------------------------------------------------------------------
(* What becomes of the rows meanwhile.                                     *)

AddRow(row) ==
    /\ OneVersion(stored \cup {row})
    /\ stored' = stored \cup {row}
    /\ UNCHANGED <<overdue, walk, kept, matchVars>>

(* An account is removed with what is its own; the pipeline drops an        *)
(* opportunity or a match.  Nothing else that is listed is ever deleted.   *)
Removable == {"users", "notifications", "conversations", "messages", "opportunities", "matches"}

RemoveRow(row) ==
    /\ row \in stored /\ row.list \in Removable
    /\ stored' = stored \ {row}
    /\ UNCHANGED <<overdue, walk, kept, matchVars>>

(* A notification is read, a turn touches its conversation, a score is      *)
(* computed anew, a user gets another role, the loader corrects a name.    *)
RewriteRow(row, new) ==
    /\ row \in stored /\ SameRow(row, new) /\ new # row /\ row.list # "messages"
    /\ stored' = (stored \ {row}) \cup {new}
    /\ UNCHANGED <<overdue, walk, kept, matchVars>>

(* markAllAsRead: active is unread *)
ReadByAll(user, row) ==
    IF row.list = "notifications" /\ row.parent = user THEN [row EXCEPT !.active = FALSE] ELSE row

MarkAllAsRead(user) ==
    /\ stored' = {ReadByAll(user, row) : row \in stored}
    /\ stored' \subseteq ListRows
    /\ UNCHANGED <<overdue, walk, kept, matchVars>>

PassDeadline(row) ==
    /\ row \in stored /\ row.deadline # ABSENT /\ row.id \notin overdue
    /\ overdue' = overdue \cup {row.id}
    /\ UNCHANGED <<stored, walk, kept, matchVars>>

(* A client reads on. *)
WalkStep ==
    \/ \E c \in Walkers : StartWalk(c) \/ ReadRows(c) \/ ReadTotal(c) \/ TurnPage(c)
    \/ \E c \in Walkers, answer \in kept : ReadKept(c, answer)

(* A row or a kept page changes. *)
RowStep ==
    \/ \E answer \in kept : Forget(answer)
    \/ \E row \in ListRows \ stored : AddRow(row)
    \/ \E row \in stored : RemoveRow(row) \/ PassDeadline(row) \/ MarkAllAsRead(row.parent)
    \/ \E row \in stored, new \in ListRows : RewriteRow(row, new)

ListNext == WalkStep \/ RowStep

-----------------------------------------------------------------------------
(* The cache of the matches.  A version is what findMatches would answer.  *)

Unasked == [pc |-> "idle", user |-> ABSENT, q |-> ABSENT, owner |-> ABSENT, version |-> 0,
            synced |-> 0]

MatchInit ==
    /\ clock = 0
    /\ turns = [u \in MatchUsers |-> <<0>>]
    /\ cache = [k \in MatchUsers \X MatchQueries |-> ABSENT]
    /\ ask = [r \in Asks |-> Unasked]

CacheKey(u, q) == <<u, q>>

Kept(key) == cache[key] # ABSENT /\ clock < cache[key].until

Hit(r, u, q, entry) ==
    ask' = [ask EXCEPT ![r] = [pc |-> "answered", user |-> u, q |-> q, owner |-> entry.owner,
                               version |-> entry.version, synced |-> entry.synced]]

(* Not found, or the cache did not answer: synced_at is taken before the query. *)
Missed(r, u, q) ==
    ask' = [ask EXCEPT ![r] = [Unasked EXCEPT !.pc = "query", !.user = u, !.q = q,
                                              !.synced = clock]]

AskMatches(r, u, q) ==
    /\ ask[r].pc \in {"idle", "answered"}
    /\ \/ Kept(CacheKey(u, q)) /\ Hit(r, u, q, cache[CacheKey(u, q)])
       \/ Missed(r, u, q)
    /\ UNCHANGED <<listVars, clock, turns, cache>>

QueryMatches(r) ==
    /\ ask[r].pc = "query"
    /\ ask' = [ask EXCEPT ![r].pc = "store", ![r].owner = ask[r].user,
                          ![r].version = Len(turns[ask[r].user])]
    /\ UNCHANGED <<listVars, clock, turns, cache>>

(* Mutant: synced_at is taken when the answer is kept. *)
StoreMatchesStamped(r) ==
    /\ ask[r].pc = "store"
    /\ cache' = [cache EXCEPT ![CacheKey(ask[r].user, ask[r].q)] =
                    [owner |-> ask[r].owner, version |-> ask[r].version, synced |-> clock,
                     until |-> clock + CacheTTL[ask[r].q]]]
    /\ ask' = [ask EXCEPT ![r].pc = "answered"]
    /\ UNCHANGED <<listVars, clock, turns>>

StoreMatches(r) ==
    /\ ask[r].pc = "store"
    /\ \E works \in {TRUE, FALSE} :   \* an error of the cache is logged
          cache' = IF ~works THEN cache ELSE
              [cache EXCEPT ![CacheKey(ask[r].user, ask[r].q)] =
                  [owner |-> ask[r].owner, version |-> ask[r].version, synced |-> ask[r].synced,
                   until |-> clock + CacheTTL[ask[r].q]]]
    /\ ask' = [ask EXCEPT ![r].pc = "answered"]
    /\ UNCHANGED <<listVars, clock, turns>>

(* The database of the AI team does not answer: SERVICE_UNAVAILABLE *)
QueryFails(r) ==
    /\ ask[r].pc = "query"
    /\ ask' = [ask EXCEPT ![r] = Unasked]
    /\ UNCHANGED <<listVars, clock, turns, cache>>

(* The scores of a user are computed anew. *)
Recompute(u) ==
    /\ Len(turns[u]) < MaxVersion
    /\ turns' = [turns EXCEPT ![u] = Append(@, clock)]
    /\ UNCHANGED <<listVars, clock, cache, ask>>

Tick ==
    /\ clock < MaxClock
    /\ clock' = clock + 1
    /\ UNCHANGED <<listVars, turns, cache, ask>>

MatchNext ==
    \/ \E r \in Asks, u \in MatchUsers, q \in MatchQueries : AskMatches(r, u, q)
    \/ \E r \in Asks : QueryMatches(r) \/ StoreMatches(r) \/ QueryFails(r)
    \/ \E u \in MatchUsers : Recompute(u)
    \/ Tick

CatalogueInit == ListInit /\ MatchInit
CatalogueNext == ListNext \/ MatchNext
CatalogueSpec == CatalogueInit /\ [][CatalogueNext]_catalogueVars

-----------------------------------------------------------------------------
(* Properties.                                                             *)

(* Types of the variables; a row is stored once, and a page kept once. *)
CatalogueTypeOK ==
    /\ stored \subseteq ListRows /\ OneVersion(stored)
    /\ \A c \in Walkers : ToSet(walk[c].seen) \subseteq ListRows
    /\ \A answer, other \in kept : SamePage(answer, other) => answer = other
    /\ clock \in 0..MaxClock
    /\ \A k \in DOMAIN cache : cache[k] # ABSENT => cache[k].owner \in MatchUsers

(* r's place in the list is no longer what it was: it tied with another     *)
(* row, or it or a row in front of it is among those that changed.         *)
Displaced(w, r, changed) ==
    r \in w.tied \cup changed \/ \E s \in changed : Before(w.q, s, r)

(* A client that walks to the end has seen every row of the list its first  *)
(* page was cut from, whatever was added meanwhile, unless the row, or one *)
(* in front of it, is missing from what a later page was cut from (it was  *)
(* removed or written anew, its deadline passed, or the later page was     *)
(* kept from an older day), the row ties with another in a list that does  *)
(* not break ties, or the last count was taken before rows of its page.    *)
WalkShowsAll ==
    \A c \in Walkers : walk[c].pc = "ended" /\ ~walk[c].short =>
        \A r \in walk[c].first :
            r \in ToSet(walk[c].seen) \/ Displaced(walk[c], r, walk[c].left)

(* And it has seen no row twice, unless the row, or one in front of it, is   *)
(* new in what a later page was cut from, or the row ties with another.    *)
PagesShowOnce ==
    \A c \in Walkers : \A i, j \in DOMAIN walk[c].seen :
        i # j /\ walk[c].seen[i] = walk[c].seen[j] =>
            Displaced(walk[c], walk[c].seen[i], walk[c].came)

(* A match is shown to its user only, and not, unless the client asked for  *)
(* it, when its deadline had passed or its opportunity was closed at the   *)
(* moment the answer is of, nor against a search.                          *)
NoDeadMatch ==
    \A c \in Walkers :
        LET q == walk[c].q
        IN walk[c].pc = "page" /\ walk[c].rows # ABSENT /\ q.list = "matches" =>
           \A row \in ToSet(walk[c].rows.shown) :
               /\ row.parent = q.parent
               /\ q.word # ABSENT => q.word \in row.words
               /\ ~q.includeExpired =>
                     /\ row.status \notin InactiveStatuses
                     /\ row.deadline # ABSENT => row.id \notin walk[c].asOf

(* A list shows what was asked for: all of it, and nothing else.            *)
ListsShowWanted == WalkShowsAll /\ NoDeadMatch

(* An answer says since when it is true (synced_at), also one that comes    *)
(* from the cache: it is the user's own, and its matches were current at   *)
(* that time or later.                                                     *)
ServedIsTrueSince ==
    \A r \in Asks : ask[r].pc = "answered" =>
        LET u == ask[r].user
            v == ask[r].version
        IN /\ ask[r].owner = u
           /\ v < Len(turns[u]) => turns[u][v + 1] >= ask[r].synced

(* What a client is shown is true: of a list all that was asked for and      *)
(* nothing else, of the matches what was current when the answer says.      *)
ShownIsTrue == ListsShowWanted /\ ServedIsTrueSince
=============================================================================
