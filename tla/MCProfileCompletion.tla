------------------------ MODULE MCProfileCompletion ------------------------
(* Instances of ProfileCompletion for TLC.  A behaviour is of one scene:    *)
(* sections (rows that count, come and go while reads of the settings fail) *)
(* or place (updates of the profile row, each of its fields or of the place *)
(* of residence, with rows of one key beside them).                        *)
EXTENDS ProfileCompletion, TLC

CONSTANTS w1, w2, k1, k2, k3, jo, sy, amman

VARIABLE scene

TwoWorkers == {w1, w2}
ThreeKeys == {k1, k2, k3}
TwoCountries == {jo, sy}
OneCity == {amman}
CityCountry == [c \in OneCity |-> jo]

Counted == {"educations", "targetDegrees"}
Beside == {"languages", "specialStatuses"}

OneRow == [s \in Sections |-> 1]
TightLimits == [s \in Sections |-> IF s \in Counted THEN 0 ELSE 1]

(* A configuration of its own, and one that totals 98: 100 when the weight   *)
(* of education falls back to its default.                                 *)
Tuned == [weights |-> [DefaultWeights EXCEPT !["education"] = 45, !["locationOrigin"] = 5],
          threshold |-> 35]
Wrong == [weights |-> [DefaultWeights EXCEPT !["education"] = 33], threshold |-> 30]

SomeSettings == {Tuned, Wrong}

Asks(sections) == \A w \in Workers : req'[w].section \in {NONE} \cup sections

SectionScene ==
    /\ Asks(Counted)
    /\ \A w \in Workers : req'[w].pc # "updateWrite"

(* Reads of the settings, which total 100, succeed here. *)
SettingsRead(w) ==
    /\ At(w, "recalcWeights") /\ req'[w].pc = "recalcThreshold" =>
          req'[w].pct = CompletionPct(req[w].present, settings.weights)
    /\ At(w, "recalcThreshold") /\ req'[w].pc = "recalcWrite" =>
          req'[w].matchable = (req[w].pct >= settings.threshold)

KeysInUse ==
    {r.key : r \in UNION {rows[s] : s \in Sections}}
        \cup ({req[w].key : w \in Workers} \ {NONE})

OneThing(r) == r.fill \cup r.clear # {} => {r.country, r.city} = {UNDEFINED}

PlaceScene ==
    /\ Asks(Beside)
    /\ \A w \in Workers : OneThing(req'[w])
    /\ Cardinality(KeysInUse') <= 1
    /\ \A w \in Workers : SettingsRead(w) /\ req'[w].pc # "change"

SceneInit ==
    /\ Init /\ scene \in {"sections", "place"}
    /\ scene = "place" => settings = Tuned
SceneNext ==
    /\ Next
    /\ IF scene = "sections" THEN SectionScene ELSE PlaceScene
    /\ UNCHANGED scene
SceneSpec == SceneInit /\ [][SceneNext]_<<vars, scene>>

Symmetry == Permutations(Workers) \cup Permutations(Keys)
=============================================================================
