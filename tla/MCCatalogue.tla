----------------------------- MODULE MCCatalogue -----------------------------
(* Instances of Catalogue for TLC. *)
EXTENDS Catalogue

Row(list, id, key) ==
    [list |-> list, id |-> id, key |-> key, active |-> TRUE, parent |-> ABSENT, words |-> {},
     score |-> 0, status |-> ABSENT, deadline |-> ABSENT, country |-> ABSENT]
Match(id, score, status, deadline, word) ==
    [Row("matches", id, -score) EXCEPT !.parent = "u1", !.score = score, !.status = status,
                                       !.deadline = deadline, !.words = {word}]

(* Two cities of one name, two matches of one score, of which one has a      *)
(* deadline and the other's opportunity no status or is closed, a match    *)
(* that may get another score and lose the word, notifications that may be *)
(* read, a role that may end, conversations that may go on, two messages   *)
(* of one moment, an opportunity without the word.                         *)
SomeRows ==
    {Row("cities", 1, 1), Row("cities", 2, 2), Row("cities", 3, 2)}
        \cup {[Row("languages", n, n) EXCEPT !.words = {"ar"}] : n \in 1..3}
        \cup {[Row("notifications", n, -n) EXCEPT !.parent = "u1", !.active = unread] :
                  n \in 1..3, unread \in BOOLEAN}
        \cup {[Row("users", n, -n) EXCEPT !.words = {"mona"}, !.parent = "user",
                                          !.active = active] :
                  n \in 1..3, active \in BOOLEAN}
        \cup {[Row("conversations", n, -n) EXCEPT !.parent = "u1"] : n \in 1..3}
        \cup {[Row("conversations", n, -4) EXCEPT !.parent = "u1"] : n \in 1..2}
        \cup {[Row("messages", n, IF n = 3 THEN 2 ELSE n) EXCEPT !.parent = "v1"] : n \in 1..4}
        \cup {[Row("opportunities", n, -n) EXCEPT !.words = {IF n = 1 THEN "msc" ELSE "phd"}] :
                  n \in 1..3}
        \cup {Match(1, 90, "open", "may", "phd"), Match(2, 90, ABSENT, ABSENT, "phd"),
               Match(2, 90, "closed", ABSENT, "phd"), Match(3, 80, "open", ABSENT, "phd"),
               Match(3, 95, "open", ABSENT, "msc")}

Query(list) ==
    [list |-> list, parent |-> ABSENT, word |-> ABSENT, unread |-> FALSE, country |-> ABSENT,
     minScore |-> ABSENT, includeExpired |-> FALSE]
SomeQueries ==
    {Query("cities"), [Query("languages") EXCEPT !.word = "ar"],
     [Query("notifications") EXCEPT !.parent = "u1", !.unread = TRUE],
     [Query("conversations") EXCEPT !.parent = "u1"], [Query("messages") EXCEPT !.parent = "v1"],
     [Query("users") EXCEPT !.word = "mona", !.parent = "user"],
     [Query("opportunities") EXCEPT !.word = "phd"],
     [Query("matches") EXCEPT !.parent = "u1", !.minScore = 60, !.includeExpired = TRUE],
     [Query("matches") EXCEPT !.parent = "u1", !.word = "phd"]}

(* TLC evaluates what stands for a constant at every use of the constant, but *)
(* a definition named there only once.                                      *)
MCRows == SomeRows
MCQueries == SomeQueries

ShortTTL == [q \in MatchQueries |-> 1]

CONSTANT ListEffort

(* One list at a time, or the cache: a client walks the list, the matches    *)
(* twice, while a few changes are made to its rows and kept pages.         *)
VARIABLES side, walksLeft, changesLeft
CatalogueMCInit ==
    /\ side \in {q.list : q \in SomeQueries} \cup {"cache"}
    /\ stored \in SUBSET {row \in ListRows : row.list = side}
    /\ CatalogueInit
    /\ walksLeft = IF side = "matches" THEN 2 ELSE 1
    /\ changesLeft = ListEffort - walksLeft

WalkNext ==
    /\ \/ WalkStep /\ changesLeft' = changesLeft
       \/ changesLeft > 0 /\ RowStep /\ changesLeft' = changesLeft - 1
    /\ \A row \in stored' : row.list = side
    /\ \A c \in Walkers : walk'[c].q # ABSENT => walk'[c].q.list = side
    /\ walksLeft' = walksLeft - Cardinality({c \in Walkers : walk[c].pc # "page" /\ walk'[c].pc = "page"})
    /\ walksLeft' >= 0

CatalogueMCNext ==
    /\ UNCHANGED side
    /\ IF side = "cache" THEN MatchNext /\ UNCHANGED <<walksLeft, changesLeft>> ELSE WalkNext
CatalogueMCSpec ==
    CatalogueMCInit /\ [][CatalogueMCNext]_<<side, walksLeft, changesLeft, catalogueVars>>
=============================================================================
