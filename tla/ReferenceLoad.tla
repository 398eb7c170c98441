---------------------------- MODULE ReferenceLoad ----------------------------
(***************************************************************************)
(* The two scripts a deployment runs on a live database: the seed          *)
(* (prisma/seed.ts) and the loader of countries, cities, majors and        *)
(* institutions (scripts/load-reference-data.ts).                          *)
(*                                                                         *)
(* A loader is one run of the loader; each action is one statement.  A run *)
(* may stop at any statement, runs may overlap, and each sees whatever the *)
(* sources then publish: a feed.  A city is the pair of its name and its   *)
(* country.  The items of a part are written in any order: in the code only *)
(* those of one batch of processInBatches (20) are, and the others in the  *)
(* order of the source, which is one of these orders.                      *)
(***************************************************************************)
EXTENDS Integers, Sequences, FiniteSets, SequencesExt

CONSTANTS
    Loaders,       \* runs of the loader
    Seeders,       \* runs of the seed
    Feeds,         \* what the sources may publish
    CityNames, Countries,
    MajorCodes,    \* CIP codes of majors
    Institutes,    \* externalSourceId of institutions
    CityBatch,     \* rows of one createMany, 5000
    CityChunk,     \* rows of one read of the cities, 10000
    SampleSize,    \* the limits of --sample
    DeployCalls,   \* what happens in this instance
    NOWHERE        \* null

AllDeployCalls == {"sample", "overlap", "breakOff", "seed"}

ASSUME DeployCallsAssumption == DeployCalls \subseteq AllDeployCalls
ASSUME FeedsAssumption == \A feed \in Feeds :
    /\ feed.countries \in Seq(Countries) /\ feed.cities \in Seq(CityNames \X Countries)
    /\ DOMAIN feed.sheet \subseteq Nat
    /\ \A k \in DOMAIN feed.sheet :
          feed.sheet[k].kind = "major" => feed.sheet[k].code \in MajorCodes
    /\ \A i \in ToSet(feed.institutions) : i.id \in Institutes /\ i.country \in Countries
ASSUME NowhereAssumption == NOWHERE \notin Feeds \cup (CityNames \X Countries)
ASSUME BatchAssumption == {CityBatch, CityChunk} \subseteq Nat \ {0}

VARIABLES
    countries,     \* isoCode of each row
    cities,        \* how many rows each city has
    categories,    \* nameEn of each row
    majors,        \* title and category of each row, by externalSourceId
    institutions,  \* country and city of each row, by externalSourceId
    load,          \* the locals of each run of the loader
    account,       \* the administrator: no user, a user without a role, complete
    seeding,       \* where each run of the seed is
    past           \* history: why a check may fail, why an account may be bare

tables == <<countries, cities, categories, majors, institutions>>
seedVars == <<account, seeding>>
referenceVars == <<tables, load, seedVars, past>>

City == CityNames \X Countries
Unloaded == [pc |-> "idle", feed |-> NOWHERE, sample |-> FALSE, todo |-> {}, after |-> {}]

ReferenceInit ==
    /\ countries = {} /\ categories = {}
    /\ cities = [c \in City |-> 0]
    /\ majors = <<>> /\ institutions = <<>>
    /\ load = [l \in Loaders |-> Unloaded]
    /\ account = "none"
    /\ seeding = [s \in Seeders |-> "idle"]
    /\ past = [feeds |-> {}, overlapped |-> FALSE, seedDied |-> FALSE]

-----------------------------------------------------------------------------
(* What a run makes of its feed.                                           *)

(* --sample keeps the first rows of a part that pass. *)
FirstOf(sample, part, passing) ==
    {k \in passing : sample =>
        Cardinality({j \in passing : j <= k}) <= SampleSize[part]}

(* loadCountries *)
SomeCountries(feed, sample) ==
    {feed.countries[k] : k \in FirstOf(sample, "countries", DOMAIN feed.countries)}

(* Mutant: nothing is loaded where something is. *)
NewCitiesOfEmptyTable(l) ==
    LET rows == load[l].feed.cities
        known == {k \in DOMAIN rows : rows[k][2] \in countries}
    IN {rows[k] : k \in {k \in FirstOf(load[l].sample, "cities", known) :
                             \A city \in City : cities[city] = 0}}

(* loadCities: the rows of a known country that no row has yet *)
NewCities(l) ==
    LET rows == load[l].feed.cities
        known == {k \in DOMAIN rows : rows[k][2] \in countries}
    IN {rows[k] : k \in {k \in FirstOf(load[l].sample, "cities", known) : cities[rows[k]] = 0}}

(* loadMajors: of a prefix the first category counts. *)
Leads(sheet) ==
    {k \in DOMAIN sheet : /\ sheet[k].kind = "category"
                          /\ \A j \in DOMAIN sheet : j < k /\ sheet[j].kind = "category" =>
                                sheet[j].prefix # sheet[k].prefix}
NewCategories(sheet, sample) == FirstOf(sample, "categories", Leads(sheet))

(* The category of a major came before it, or it has none. *)
CategoryOf(sheet, sample, k) ==
    LET before ==
            {j \in NewCategories(sheet, sample) : j < k /\ sheet[j].prefix = sheet[k].prefix}
    IN IF before = {} THEN NOWHERE ELSE sheet[CHOOSE j \in before : TRUE].title

MajorRows(sheet) == {k \in DOMAIN sheet : sheet[k].kind = "major"}
SameTitle(sheet, sample, j, k) ==
    /\ sheet[j].title = sheet[k].title
    /\ CategoryOf(sheet, sample, j) = CategoryOf(sheet, sample, k)

(* Mutant: the titles seen are not remembered. *)
UnseenForgets(sheet, sample) ==
    {k \in MajorRows(sheet) : sample => CategoryOf(sheet, sample, k) # NOWHERE}

(* Of a title within a category the first code counts. *)
Unseen(sheet, sample) ==
    {k \in MajorRows(sheet) :
        /\ sample => CategoryOf(sheet, sample, k) # NOWHERE
        /\ \A j \in MajorRows(sheet) : j < k => ~SameTitle(sheet, sample, j, k)}

MajorAt(sheet, sample, k) ==
    [code |-> sheet[k].code, title |-> sheet[k].title, category |-> CategoryOf(sheet, sample, k)]

NewMajors(sheet, sample) ==
    LET unseen == Unseen(sheet, sample)
        Fellows(k) == {j \in unseen : /\ j <= k
                                      /\ CategoryOf(sheet, sample, j) = CategoryOf(sheet, sample, k)}
        some == {k \in unseen : sample => Cardinality(Fellows(k)) <= SampleSize["majorsOfCategory"]}
    IN {MajorAt(sheet, sample, k) : k \in FirstOf(sample, "majors", some)}

(* loadInstitutions: the city named as the province, of the same country;   *)
(* in a sample otherwise the first city read of the country, or none.      *)
PlaceOf(l, inst, seen, first) ==
    LET city == <<inst.province, inst.country>>
    IN IF city \in seen THEN city
       ELSE IF load[l].sample THEN first[inst.country] ELSE NOWHERE

Placed(l, seen, first) ==
    LET rows == load[l].feed.institutions
        kept == {k \in DOMAIN rows : /\ rows[k].country \in countries
                                     /\ load[l].sample => PlaceOf(l, rows[k], seen, first) # NOWHERE}
    IN {[id |-> rows[k].id, country |-> rows[k].country, city |-> PlaceOf(l, rows[k], seen, first)] :
            k \in FirstOf(load[l].sample, "institutions", kept)}

-----------------------------------------------------------------------------
(* The loader.                                                             *)

At(l, pc) == load[l].pc = pc
Goto(l, pc, todo) == load' = [load EXCEPT ![l].pc = pc, ![l].todo = todo]
Ended(l) == load[l].pc \in {"idle", "done", "refused", "broken"}
UnchangedTables(rest) == UNCHANGED <<rest, seedVars>>
Upserted(table, id, row) == [i \in DOMAIN table \cup {id} |-> IF i = id THEN row ELSE table[i]]

(* Another run is between its read of the cities and its last insert. *)
Overlapping(l) == \E other \in Loaders \ {l} : At(other, "cities")

StartLoad(l) ==
    /\ At(l, "idle")
    /\ "overlap" \in DeployCalls \/ \A other \in Loaders : Ended(other)
    /\ \E feed \in Feeds, sample \in {"sample" \in DeployCalls, FALSE} :
          /\ load' = [load EXCEPT ![l] =
                 [Unloaded EXCEPT !.pc = "countries", !.feed = feed, !.sample = sample,
                                 !.todo = SomeCountries(feed, sample)]]
          /\ past' = [past EXCEPT !.feeds = @ \cup {feed}]
    /\ UnchangedTables(tables)

(* upsert by isoCode *)
UpsertCountry(l) ==
    /\ At(l, "countries")
    /\ \E country \in load[l].todo :
          /\ countries' = countries \cup {country}
          /\ Goto(l, "countries", load[l].todo \ {country})
    /\ UnchangedTables(<<cities, categories, majors, institutions, past>>)

ReadCities(l) ==
    /\ At(l, "countries") /\ load[l].todo = {}
    /\ Goto(l, "cities", NewCities(l))
    /\ past' = [past EXCEPT !.overlapped = @ \/ Overlapping(l)]
    /\ UnchangedTables(tables)

(* createMany of one batch; the batches in any order *)
InsertCities(l) ==
    /\ At(l, "cities") /\ load[l].todo # {}
    /\ \E batch \in SUBSET load[l].todo :
          /\ \/ Cardinality(batch) = CityBatch
             \/ batch = load[l].todo /\ Cardinality(batch) < CityBatch
          /\ cities' = [c \in City |-> cities[c] + (IF c \in batch THEN 1 ELSE 0)]
          /\ Goto(l, "cities", load[l].todo \ batch)
    /\ UnchangedTables(<<countries, categories, majors, institutions, past>>)

(* The sheet, or the copy that is kept of it: a feed has one in any case. *)
ReadSheet(l) ==
    /\ At(l, "cities") /\ load[l].todo = {}
    /\ LET sheet == load[l].feed.sheet
       IN load' = [load EXCEPT
              ![l].pc = "categories",
              ![l].todo = {sheet[k].title : k \in NewCategories(sheet, load[l].sample)},
              ![l].after = NewMajors(sheet, load[l].sample)]
    /\ UnchangedTables(<<tables, past>>)

(* upsert by nameEn *)
UpsertCategory(l) ==
    /\ At(l, "categories")
    /\ \E title \in load[l].todo :
          /\ categories' = categories \cup {title}
          /\ Goto(l, "categories", load[l].todo \ {title})
    /\ UnchangedTables(<<countries, cities, majors, institutions, past>>)

StartMajors(l) ==
    /\ At(l, "categories") /\ load[l].todo = {}
    /\ load' = [load EXCEPT ![l].pc = "majors", ![l].todo = load[l].after, ![l].after = {}]
    /\ UnchangedTables(<<tables, past>>)

(* upsert by externalSourceId *)
UpsertMajor(l) ==
    /\ At(l, "majors")
    /\ \E major \in load[l].todo :
          /\ majors' = Upserted(majors, major.code,
                                [title |-> major.title, category |-> major.category])
          /\ Goto(l, "majors", load[l].todo \ {major})
    /\ UnchangedTables(<<countries, cities, categories, institutions, past>>)

(* findMany with skip and take and no order: where it takes several reads a *)
(* row may be missed.                                                      *)
ReadPlaces(l) ==
    /\ At(l, "majors") /\ load[l].todo = {}
    /\ LET stored == {c \in City : cities[c] > 0}
       IN \E seen \in SUBSET stored :
             /\ Cardinality(stored) <= CityChunk => seen = stored
             /\ \E first \in [Countries -> {NOWHERE} \cup seen] :
                   /\ \A co \in Countries :
                         IF \E c \in seen : c[2] = co THEN first[co] \in seen /\ first[co][2] = co
                         ELSE first[co] = NOWHERE
                   /\ Goto(l, "institutions", Placed(l, seen, first))
    /\ UnchangedTables(<<tables, past>>)

(* upsert by externalSourceId *)
UpsertInstitution(l) ==
    /\ At(l, "institutions")
    /\ \E inst \in load[l].todo :
          /\ institutions' = Upserted(institutions, inst.id,
                                      [country |-> inst.country, city |-> inst.city])
          /\ Goto(l, "institutions", load[l].todo \ {inst})
    /\ UnchangedTables(<<countries, cities, categories, majors, past>>)

(* verify: a city twice, or a title twice in a category.  The other errors  *)
(* it looks for are excluded by unique and foreign keys, or, for the name  *)
(* of a country, by its source.                                            *)
RepeatedCity == \E c \in City : cities[c] > 1
RepeatedMajor == \E m, n \in DOMAIN majors : m # n /\ majors[m] = majors[n]

Verify(l) ==
    /\ At(l, "institutions") /\ load[l].todo = {}
    /\ Goto(l, IF RepeatedCity \/ RepeatedMajor THEN "refused" ELSE "done", {})
    /\ UnchangedTables(<<tables, past>>)

(* A source cannot be fetched, a statement fails, the process is killed. *)
BreakOff(l) ==
    /\ "breakOff" \in DeployCalls /\ ~Ended(l)
    /\ Goto(l, "broken", {})
    /\ UnchangedTables(<<tables, past>>)

-----------------------------------------------------------------------------
(* The seed.  Its upserts are one action: each is repeated by the next run. *)

SeedStep(s, from, to) ==
    /\ seeding[s] = from
    /\ seeding' = [seeding EXCEPT ![s] = to]
    /\ UNCHANGED <<tables, load>>

SeedTables(s) ==
    /\ "seed" \in DeployCalls
    /\ SeedStep(s, "idle", "find") /\ UNCHANGED <<account, past>>

(* already exists: skipping *)
FindAdmin(s) ==
    /\ SeedStep(s, "find", IF account = "none" THEN "create" ELSE "done")
    /\ UNCHANGED <<account, past>>

(* users.email is unique: of two runs that found none, one fails. *)
CreateAdmin(s) ==
    /\ IF account = "none"
       THEN SeedStep(s, "create", "grant") /\ account' = "bare"
       ELSE SeedStep(s, "create", "died") /\ UNCHANGED account
    /\ UNCHANGED past

GrantRole(s) ==
    /\ SeedStep(s, "grant", "done") /\ account' = "complete"
    /\ UNCHANGED past

SeedDies(s) ==
    /\ "breakOff" \in DeployCalls
    /\ \E pc \in {"find", "create", "grant"} : SeedStep(s, pc, "died")
    /\ past' = [past EXCEPT !.seedDied = @ \/ seeding[s] = "grant"]
    /\ UNCHANGED account

LoadNext == \E l \in Loaders :
    \/ StartLoad(l) \/ UpsertCountry(l) \/ ReadCities(l) \/ InsertCities(l) \/ ReadSheet(l)
    \/ UpsertCategory(l) \/ StartMajors(l) \/ UpsertMajor(l) \/ ReadPlaces(l)
    \/ UpsertInstitution(l) \/ Verify(l) \/ BreakOff(l)
SeedNext == \E s \in Seeders :
    SeedTables(s) \/ FindAdmin(s) \/ CreateAdmin(s) \/ GrantRole(s) \/ SeedDies(s)

ReferenceNext == LoadNext \/ SeedNext
ReferenceSpec == ReferenceInit /\ [][ReferenceNext]_referenceVars

-----------------------------------------------------------------------------
(* Properties.                                                             *)

(* Types of the variables. *)
ReferenceTypeOK ==
    /\ countries \subseteq Countries
    /\ cities \in [City -> Nat]
    /\ DOMAIN majors \subseteq MajorCodes
    /\ DOMAIN institutions \subseteq Institutes
    /\ \A i \in DOMAIN institutions : institutions[i].country \in Countries
    /\ account \in {"none", "bare", "complete"}
    /\ \A l \in Loaders : load[l].feed \in {NOWHERE} \cup Feeds

(* Two prefixes of a sheet have one title: a sample that ends between them   *)
(* leaves a major out and takes its namesake, and a full run adds the other. *)
Namesakes(sheet) == \E j, k \in Leads(sheet) : j # k /\ sheet[j].title = sheet[k].title

(* The loader is run again on the database it filled, also after a run that *)
(* broke off.  The check that closes a run fails only if two runs inserted *)
(* cities at the same time, the sources had changed between two runs, or a *)
(* sample was taken of a sheet with two categories of one name.            *)
FailedCheckHasCause ==
    (\E l \in Loaders : At(l, "refused")) =>
        \/ past.overlapped \/ Cardinality(past.feeds) > 1
        \/ \E l \in Loaders : load[l].sample /\ Namesakes(load[l].feed.sheet)

(* A full run that ended well has left everything its sources publish in    *)
(* the tables, whatever broken runs left before it, and every institution  *)
(* in a city of its own country.                                           *)
DoneHasLoaded ==
    \A l \in Loaders : At(l, "done") /\ ~load[l].sample =>
        LET feed == load[l].feed
            sheet == feed.sheet
            Here(country) == country \in ToSet(feed.countries)
        IN /\ ToSet(feed.countries) \subseteq countries
           /\ \A city \in ToSet(feed.cities) : Here(city[2]) => cities[city] > 0
           /\ {sheet[k].title : k \in NewCategories(sheet, FALSE)} \subseteq categories
           /\ {m.code : m \in NewMajors(sheet, FALSE)} \subseteq DOMAIN majors
           /\ \A i \in ToSet(feed.institutions) : Here(i.country) =>
                 /\ i.id \in DOMAIN institutions
                 /\ LET row == institutions[i.id]
                    IN row.city # NOWHERE => row.city[2] = row.country /\ cities[row.city] > 0

(* A run of the seed that finds the administrator's account leaves it as it *)
(* is, so an account without its role is without it for good: that happens *)
(* only if a run died between the two inserts.                             *)
BareAccountHasCause ==
    account = "bare" => past.seedDied \/ \E s \in Seeders : seeding[s] = "grant"
=============================================================================
