-------------------------- MODULE ProfileCompletion --------------------------
(***************************************************************************)
(* One user's profile: the row, the sections below it, and the completion  *)
(* percentage that every write recomputes.                                 *)
(*                                                                         *)
(* No handler uses a transaction.  An action is one Prisma call with the   *)
(* code up to the next await; a worker is one request in flight, and       *)
(* other requests run between any two of its actions.  The system settings *)
(* are fixed: no code writes them.  Reference data (countries, majors,     *)
(* tests...) never changes, and a request that names a missing entry is    *)
(* rejected without a write.  matchingVersion, bio, phone, dates, scores   *)
(* and grades, which no condition here depends on, are left out.  A key of  *)
(* educations is its level, institution and major together, and a request  *)
(* that changes one of them is taken to name the resulting key.            *)
(***************************************************************************)
EXTENDS Integers, FiniteSets

CONSTANTS
    Workers,     \* requests in flight at the same time
    Sections,    \* the sections of this instance
    Fields,      \* the scoring columns of user_profiles of this instance
    Countries,
    Cities,
    CountryOf,   \* cities.countryId
    Keys,        \* what a section's rows are unique by: a language, a degree...
    Ids,         \* primary keys; a row of a section keyed by Keys has id = key
    Limit,       \* profile.max_educations and the other limits
    DefaultLimit, \* what getNumber answers when it cannot read them
    Settings,    \* the completion weights and thresholds tried
    Calls,       \* what clients and the environment do in this instance
    NONE,        \* null
    UNDEFINED    \* a property the request leaves out

AllSections == {"educations", "languages", "testResults", "specialStatuses",
                "targetDegrees", "targetMajors", "targetInstitutions"}
Preferences == {"targetDegrees", "targetMajors", "targetInstitutions"}
AllFields == {"firstName", "lastName", "dateOfBirth", "gender", "maritalStatusId",
              "nationalityId", "educationLevelId"}
AllCalls == {"get", "update", "add", "change", "remove", "settingsFault", "fault"}
Groups == {"personalIdentity", "locationOrigin", "education", "languages", "tests",
           "preferencesStatuses"}

(* DEFAULT_GROUP_WEIGHTS *)
DefaultWeights ==
    [g \in Groups |-> CASE g = "personalIdentity" -> 18
                        [] g = "locationOrigin" -> 15
                        [] g = "education" -> 35
                        [] g = "languages" -> 10
                        [] g = "tests" -> 7
                        [] g = "preferencesStatuses" -> 15]
DefaultThreshold == 60

Setting == [weights : [Groups -> Nat], threshold : Nat \ {0}]

ASSUME WorkersAssumption == IsFiniteSet(Workers) /\ Workers # {}
ASSUME SectionsAssumption == Sections \subseteq AllSections /\ Fields \subseteq AllFields
ASSUME GeographyAssumption == CountryOf \in [Cities -> Countries]
ASSUME KeysAssumption == Keys \subseteq Ids /\ IsFiniteSet(Ids)
ASSUME LimitAssumption ==
    Limit \in [Sections -> Nat] /\ DefaultLimit \in [Sections -> Nat]
ASSUME SettingsAssumption == Settings \subseteq Setting
ASSUME CallsAssumption == Calls \subseteq AllCalls
ASSUME NoneAssumption ==
    /\ NONE # UNDEFINED
    /\ {NONE, UNDEFINED} \cap (Countries \cup Cities \cup Keys \cup Ids \cup Sections) = {}

VARIABLES
    settings,   \* system_settings, as far as recalculate reads them
    profile,    \* the user_profiles row
    rows,       \* the rows of each section
    shared,     \* history: the requests in flight that have met another one
    req         \* the locals of each request in flight

vars == <<settings, profile, rows, shared, req>>

-----------------------------------------------------------------------------
(* computeCompletionPct.  A component that is present is worth its points   *)
(* times weight / default weight of its group; 630 is the common multiple  *)
(* of the default weights, which keeps the sum in the integers.            *)

Points(present, c, points) == IF c \in present THEN points ELSE 0

PersonalIdentity(present) ==
    Points(present, "firstName", 3) + Points(present, "lastName", 3)
      + Points(present, "dateOfBirth", 5) + Points(present, "gender", 4)
      + Points(present, "maritalStatusId", 3)
LocationOrigin(present) ==
    Points(present, "countryOfResidenceId", 8) + Points(present, "nationalityId", 7)
Education(present) ==
    Points(present, "educationLevelId", 10) + Points(present, "educations", 25)
PreferencesStatuses(present) ==
    Points(present, "specialStatuses", 3) + Points(present, "targetDegrees", 4)
      + Points(present, "targetMajors", 5) + Points(present, "targetInstitutions", 3)

Score630(present, weights) ==
    35 * PersonalIdentity(present) * weights["personalIdentity"]
      + 42 * LocationOrigin(present) * weights["locationOrigin"]
      + 18 * Education(present) * weights["education"]
      + 63 * Points(present, "languages", 10) * weights["languages"]
      + 90 * Points(present, "testResults", 7) * weights["tests"]
      + 42 * PreferencesStatuses(present) * weights["preferencesStatuses"]

Rounded(score630) == (2 * score630 + 630) \div 1260        \* Math.round
Capped(n) == IF n > 100 THEN 100 ELSE n                    \* Math.min(n, 100)

CompletionPct(present, weights) == Capped(Rounded(Score630(present, weights)))

TotalWeight(weights) ==
    weights["personalIdentity"] + weights["locationOrigin"] + weights["education"]
      + weights["languages"] + weights["tests"] + weights["preferencesStatuses"]

-----------------------------------------------------------------------------
Row == [id : Ids, key : Keys]
Profile == [row : BOOLEAN, filled : SUBSET Fields, country : {NONE} \cup Countries,
            city : {NONE} \cup Cities, pct : 0 .. 100, matchable : BOOLEAN]

(* the components that computeCompletionPct finds on the profile *)
Present ==
    profile.filled \cup (IF profile.country # NONE THEN {"countryOfResidenceId"} ELSE {})
        \cup {s \in Sections : rows[s] # {}}

HasKey(s, k) == \E r \in rows[s] : r.key = k
HasId(s, i) == \E r \in rows[s] : r.id = i

PC == {"idle", "create", "updateWrite", "checkLimit", "checkDuplicate", "checkExisting",
       "insert", "checkOther", "change", "remove", "recalcRead", "recalcWeights",
       "recalcThreshold", "recalcWrite"}

Request == [pc : PC,
            section : {NONE} \cup Sections,
            id : {NONE} \cup Ids,              \* the row to change or remove
            key : {NONE} \cup Keys,            \* the key of the new or changed row
            fill : SUBSET Fields,              \* updateData: columns set, and
            clear : SUBSET Fields,             \*   columns set to null
            country : {NONE, UNDEFINED} \cup Countries,
            city : {NONE, UNDEFINED} \cup Cities,
            present : SUBSET (AllFields \cup AllSections \cup {"countryOfResidenceId"}),
            pct : 0 .. 100,
            matchable : BOOLEAN]

Idle == [pc |-> "idle", section |-> NONE, id |-> NONE, key |-> NONE, fill |-> {},
         clear |-> {}, country |-> UNDEFINED, city |-> UNDEFINED, present |-> {},
         pct |-> 0, matchable |-> FALSE]

At(w, pc) == req[w].pc = pc
Accepts(w, call) == At(w, "idle") /\ call \in Calls
Goto(w, pc) == req' = [req EXCEPT ![w].pc = pc] /\ UNCHANGED shared

Busy == {w \in Workers : ~At(w, "idle")}
Begin(w, r) ==
    /\ req' = [req EXCEPT ![w] = r]
    /\ shared' = IF Busy = {} THEN shared ELSE Busy \cup {w}
Finish(w) ==
    /\ req' = [req EXCEPT ![w] = Idle]
    /\ shared' = shared \ {w}
Recalculate(w) ==
    /\ req' = [req EXCEPT ![w] = [Idle EXCEPT !.pc = "recalcRead"]]
    /\ UNCHANGED shared

Empty == [row |-> TRUE, filled |-> {}, country |-> NONE, city |-> NONE, pct |-> 0,
          matchable |-> FALSE]

(* A user made by an administrator has no profile row yet. *)
Init ==
    /\ settings \in Settings
    /\ \E b \in BOOLEAN : profile = [Empty EXCEPT !.row = b]
    /\ rows = [s \in Sections |-> {}]
    /\ shared = {}
    /\ req = [w \in Workers |-> Idle]

-----------------------------------------------------------------------------
(* ProfileService.getProfile, and updateProfile                            *)

GetProfile(w) ==
    /\ Accepts(w, "get") /\ ~profile.row
    /\ Begin(w, [Idle EXCEPT !.pc = "create"])
    /\ UNCHANGED <<settings, profile, rows>>

CreateProfile(w) ==
    /\ At(w, "create")
    /\ profile' = IF profile.row THEN profile ELSE Empty    \* else P2002
    /\ Finish(w)
    /\ UNCHANGED <<settings, rows>>

(* The country and city the row will hold if nothing else changes it. *)
NextCountry(country) == IF country = UNDEFINED THEN profile.country ELSE country
NextCity(city) == IF city = UNDEFINED THEN profile.city ELSE city
Mismatch(country, city) ==
    /\ NextCity(city) # NONE /\ NextCountry(country) # NONE
    /\ CountryOf[NextCity(city)] # NextCountry(country)

(* CITY_WITHOUT_COUNTRY and CITY_COUNTRY_MISMATCH *)
PlaceAllowed(country, city) ==
    /\ NextCity(city) # NONE => NextCountry(country) # NONE
    /\ Mismatch(country, city) => city = UNDEFINED

(* Mutant: a new country leaves the old city in place. *)
UpdateReadKeepsCity(w, fill, clear, country, city) ==
    /\ Accepts(w, "update") /\ profile.row /\ fill \cap clear = {}
    /\ PlaceAllowed(country, city)
    /\ Begin(w, [Idle EXCEPT !.pc = "updateWrite", !.fill = fill, !.clear = clear,
                             !.country = country, !.city = city])
    /\ UNCHANGED <<settings, profile, rows>>

UpdateRead(w, fill, clear, country, city) ==
    /\ Accepts(w, "update") /\ profile.row /\ fill \cap clear = {}
    /\ PlaceAllowed(country, city)
    /\ Begin(w, [Idle EXCEPT !.pc = "updateWrite", !.fill = fill, !.clear = clear,
                             !.country = country,
                             !.city = IF Mismatch(country, city) THEN NONE ELSE city])
    /\ UNCHANGED <<settings, profile, rows>>

UpdateWrite(w) ==
    LET r == req[w] IN
    /\ At(w, "updateWrite")
    /\ profile' = [profile EXCEPT !.filled = (@ \cup r.fill) \ r.clear,
                                  !.country = NextCountry(r.country),
                                  !.city = NextCity(r.city)]
    /\ Recalculate(w)
    /\ UNCHANGED <<settings, rows>>

-----------------------------------------------------------------------------
(* Adding to a section.  The rows read first are those of the reference     *)
(* tables; then each section has its own order of checks.                  *)

FirstCheck(s) ==
    CASE s = "educations" -> "checkDuplicate"
      [] s = "specialStatuses" -> "insert"
      [] OTHER -> "checkLimit"

Add(w, s, k) ==
    /\ Accepts(w, "add")
    /\ Begin(w, [Idle EXCEPT !.pc = FirstCheck(s), !.section = s, !.key = k])
    /\ UNCHANGED <<settings, profile, rows>>

CheckDuplicate(w) ==
    LET s == req[w].section IN
    /\ At(w, "checkDuplicate")
    /\ IF HasKey(s, req[w].key) THEN Finish(w)
       ELSE Goto(w, IF s = "educations" THEN "checkLimit" ELSE "insert")
    /\ UNCHANGED <<settings, profile, rows>>

(* The default after a failed read, except where the setting is read        *)
(* without getNumber.                                                      *)
LimitsRead(s) ==
    {Limit[s]} \cup
        (IF "settingsFault" \in Calls /\ s \notin {"languages", "testResults"}
         THEN {DefaultLimit[s]} ELSE {})

(* Mutant: > for >=. *)
LimitReachedOffByOne(s, limit) == Cardinality(rows[s]) > limit

LimitReached(s, limit) == Cardinality(rows[s]) >= limit

CheckLimit(w) ==
    LET s == req[w].section IN
    /\ At(w, "checkLimit")
    /\ \E limit \in LimitsRead(s) :
          CASE LimitReached(s, limit) /\ s \in Preferences -> Goto(w, "checkExisting")
            [] LimitReached(s, limit) /\ s \notin Preferences -> Finish(w)
            [] ~LimitReached(s, limit) /\ s \in {"languages", "testResults"} ->
                  Goto(w, "checkDuplicate")
            [] OTHER -> Goto(w, "insert")
    /\ UNCHANGED <<settings, profile, rows>>

CheckExisting(w) ==
    /\ At(w, "checkExisting")
    /\ IF HasKey(req[w].section, req[w].key) THEN Goto(w, "insert") ELSE Finish(w)
    /\ UNCHANGED <<settings, profile, rows>>

(* educations and test results have a UUID of their own, used once: never   *)
(* one that is, or that some request holds.                                *)
NewId(s, k, i) ==
    IF s \in {"educations", "testResults"}
    THEN ~HasId(s, i) /\ \A w \in Workers : req[w].id # i
    ELSE i = k

Inserted(w) ==
    \E i \in Ids : /\ NewId(req[w].section, req[w].key, i)
                   /\ rows' = [rows EXCEPT ![req[w].section] =
                                  @ \cup {[id |-> i, key |-> req[w].key]}]

(* create, which the unique key may reject (P2002), or upsert *)
Insert(w) ==
    LET s == req[w].section IN
    /\ At(w, "insert")
    /\ CASE ~profile.row -> Finish(w) /\ UNCHANGED rows                 \* P2003
         [] profile.row /\ ~HasKey(s, req[w].key) -> Inserted(w) /\ Recalculate(w)
         [] profile.row /\ HasKey(s, req[w].key) ->
               /\ IF s \in Preferences \cup {"specialStatuses"} THEN Recalculate(w)
                  ELSE Finish(w)
               /\ UNCHANGED rows
    /\ UNCHANGED <<settings, profile>>

(* EducationsService.update may change the key of a row; the others change  *)
(* only what is left out here.  key = NONE: the request leaves it alone.   *)
ChangeRead(w, s, i, k) ==
    /\ Accepts(w, "change") /\ HasId(s, i)
    /\ \/ k # NONE /\ s = "educations"
       \/ k = NONE /\ s \in {"educations", "languages", "testResults"}
    /\ Begin(w, [Idle EXCEPT !.pc = IF k = NONE THEN "change" ELSE "checkOther",
                             !.section = s, !.id = i, !.key = k])
    /\ UNCHANGED <<settings, profile, rows>>

TakenByOther(w) ==
    \E r \in rows[req[w].section] : r.id # req[w].id /\ r.key = req[w].key

CheckOther(w) ==
    /\ At(w, "checkOther")
    /\ IF TakenByOther(w) THEN Finish(w) ELSE Goto(w, "change")
    /\ UNCHANGED <<settings, profile, rows>>

Changed(r, k) == IF k = NONE THEN r ELSE [r EXCEPT !.key = k]

Change(w) ==
    LET r == req[w] IN
    /\ At(w, "change")
    /\ IF HasId(r.section, r.id) /\ ~TakenByOther(w)      \* else P2025, P2002
       THEN /\ rows' = [rows EXCEPT ![r.section] =
                           {IF x.id = r.id THEN Changed(x, r.key) ELSE x : x \in @}]
            /\ Recalculate(w)
       ELSE UNCHANGED rows /\ Finish(w)
    /\ UNCHANGED <<settings, profile>>

RemoveRead(w, s, i) ==
    /\ Accepts(w, "remove") /\ HasId(s, i)
    /\ Begin(w, [Idle EXCEPT !.pc = "remove", !.section = s, !.id = i])
    /\ UNCHANGED <<settings, profile, rows>>

Remove(w) ==
    LET r == req[w] IN
    /\ At(w, "remove")
    /\ rows' = [rows EXCEPT ![r.section] = {x \in @ : x.id # r.id}]
    /\ IF HasId(r.section, r.id) THEN Recalculate(w) ELSE Finish(w)    \* else P2025
    /\ UNCHANGED <<settings, profile>>

-----------------------------------------------------------------------------
(* ProfileService.recalculate.  The row is there: whoever calls it has just *)
(* written to it, or below it.                                             *)

(* Mutant: the sections are not included in the read. *)
RecalcReadRow(w) ==
    /\ At(w, "recalcRead")
    /\ req' = [req EXCEPT ![w].pc = "recalcWeights", ![w].present = Present \ Sections]
    /\ UNCHANGED <<settings, profile, rows, shared>>

RecalcRead(w) ==
    /\ At(w, "recalcRead")
    /\ req' = [req EXCEPT ![w].pc = "recalcWeights", ![w].present = Present]
    /\ UNCHANGED <<settings, profile, rows, shared>>

(* getNumber answers with the default when the read fails. *)
WeightsRead ==
    LET fails == IF "settingsFault" \in Calls THEN SUBSET Groups ELSE {{}} IN
    {[g \in Groups |-> IF g \in failed THEN DefaultWeights[g] ELSE settings.weights[g]] :
        failed \in fails}
ThresholdsRead ==
    {settings.threshold} \cup (IF "settingsFault" \in Calls THEN {DefaultThreshold} ELSE {})

(* Six settings in one Promise.all; a total other than 100 is a 500. *)
RecalcWeights(w) ==
    /\ At(w, "recalcWeights")
    /\ \E weights \in WeightsRead :
          IF TotalWeight(weights) # 100 THEN Finish(w)
          ELSE /\ req' = [req EXCEPT ![w].pc = "recalcThreshold", ![w].present = {},
                                     ![w].pct = CompletionPct(req[w].present, weights)]
               /\ UNCHANGED shared
    /\ UNCHANGED <<settings, profile, rows>>

(* Mutant: the percentage of the row, not the one just computed. *)
RecalcThresholdOfRow(w) ==
    /\ At(w, "recalcThreshold")
    /\ \E threshold \in ThresholdsRead :
          req' = [req EXCEPT ![w].pc = "recalcWrite",
                             ![w].matchable = profile.pct >= threshold]
    /\ UNCHANGED <<settings, profile, rows, shared>>

RecalcThreshold(w) ==
    /\ At(w, "recalcThreshold")
    /\ \E threshold \in ThresholdsRead :
          req' = [req EXCEPT ![w].pc = "recalcWrite",
                             ![w].matchable = req[w].pct >= threshold]
    /\ UNCHANGED <<settings, profile, rows, shared>>

RecalcWrite(w) ==
    /\ At(w, "recalcWrite")
    /\ profile' = [profile EXCEPT !.pct = req[w].pct, !.matchable = req[w].matchable]
    /\ Finish(w)
    /\ UNCHANGED <<settings, rows>>

(* A statement fails or the process dies: what was written stays. *)
Fault(w) ==
    /\ "fault" \in Calls /\ ~At(w, "idle")
    /\ Finish(w)
    /\ UNCHANGED <<settings, profile, rows>>

-----------------------------------------------------------------------------
Arrive(w) ==
    \/ GetProfile(w)
    \/ \E fill, clear \in SUBSET Fields, country \in {NONE, UNDEFINED} \cup Countries,
          city \in {NONE, UNDEFINED} \cup Cities : UpdateRead(w, fill, clear, country, city)
    \/ \E s \in Sections :
          \/ \E k \in Keys : Add(w, s, k)
          \/ \E i \in Ids : \/ \E k \in {NONE} \cup Keys : ChangeRead(w, s, i, k)
                            \/ RemoveRead(w, s, i)

Continue(w) ==
    \/ CreateProfile(w) \/ UpdateWrite(w)
    \/ CheckDuplicate(w) \/ CheckLimit(w) \/ CheckExisting(w) \/ Insert(w)
    \/ CheckOther(w) \/ Change(w) \/ Remove(w)
    \/ RecalcRead(w) \/ RecalcWeights(w) \/ RecalcThreshold(w) \/ RecalcWrite(w)

Next == \E w \in Workers : Arrive(w) \/ Continue(w) \/ Fault(w)

Spec == Init /\ [][Next]_vars

-----------------------------------------------------------------------------
(* Properties.                                                             *)

TypeOK ==
    /\ settings \in Settings
    /\ profile \in Profile
    /\ rows \in [Sections -> SUBSET Row]
    /\ shared \subseteq Workers
    /\ req \in [Workers -> Request]

Alone(w) == w \notin shared

Current ==
    \E weights \in WeightsRead : /\ TotalWeight(weights) = 100
                                 /\ profile.pct = CompletionPct(Present, weights)

(* A write that meets no other request leaves the right percentage behind,  *)
(* whatever races and failures came before it.                             *)
AloneLeavesCurrent ==
    [][\A w \in Workers : RecalcWrite(w) /\ Alone(w) => Current']_vars

(* The same for place of residence: an update that meets no other request   *)
(* leaves a city of the country, or none.                                  *)
AloneLeavesPlace ==
    [][\A w \in Workers : UpdateWrite(w) /\ Alone(w) /\ profile'.city # NONE
            => CountryOf[profile'.city] = profile'.country]_vars

(* A row can be matched exactly if its percentage reaches the threshold     *)
(* that was read: no interleaving of two recalculations mixes their results. *)
MatchableAgrees ==
    \E threshold \in ThresholdsRead : profile.matchable <=> profile.pct >= threshold

HighestLimit(s) == CHOOSE n \in LimitsRead(s) : \A limit \in LimitsRead(s) : limit <= n

(* A section's limit is checked before the insert, not with it, but is       *)
(* exceeded by at most one row for each other request in flight.            *)
LimitOvershootBounded ==
    \A s \in Sections \ {"specialStatuses"} :
        Cardinality(rows[s]) <= HighestLimit(s) + Cardinality(Workers) - 1
=============================================================================
