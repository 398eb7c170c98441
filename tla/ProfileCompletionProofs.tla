----------------------- MODULE ProfileCompletionProofs -----------------------
(***************************************************************************)
(* Theorems about ProfileCompletion, for every number of requests in        *)
(* flight, every choice of sections and columns, and all settings.          *)
(***************************************************************************)
EXTENDS ProfileCompletion, FiniteSetTheorems, TLAPS

(* The arithmetic of the percentage. *)
Weights == [Groups -> Nat]

LEMMA PointsBounded ==
    ASSUME NEW present, NEW c, NEW points \in Nat
    PROVE  Points(present, c, points) \in 0 .. points
  BY DEF Points

LEMMA PointsGrow ==
    ASSUME NEW p1, NEW p2, NEW c, NEW points \in Nat, p1 \subseteq p2
    PROVE  Points(p1, c, points) <= Points(p2, c, points)
  BY DEF Points

LEMMA GroupsBounded ==
    ASSUME NEW present
    PROVE  /\ PersonalIdentity(present) \in 0 .. 18
           /\ LocationOrigin(present) \in 0 .. 15
           /\ Education(present) \in 0 .. 35
           /\ PreferencesStatuses(present) \in 0 .. 15
           /\ Points(present, "languages", 10) \in 0 .. 10
           /\ Points(present, "testResults", 7) \in 0 .. 7
  BY PointsBounded DEF PersonalIdentity, LocationOrigin, Education, PreferencesStatuses

LEMMA GroupsGrow ==
    ASSUME NEW p1, NEW p2, p1 \subseteq p2
    PROVE  /\ PersonalIdentity(p1) <= PersonalIdentity(p2)
           /\ LocationOrigin(p1) <= LocationOrigin(p2)
           /\ Education(p1) <= Education(p2)
           /\ PreferencesStatuses(p1) <= PreferencesStatuses(p2)
           /\ Points(p1, "languages", 10) <= Points(p2, "languages", 10)
           /\ Points(p1, "testResults", 7) <= Points(p2, "testResults", 7)
  BY PointsGrow, PointsBounded
  DEF PersonalIdentity, LocationOrigin, Education, PreferencesStatuses

LEMMA TimesNat ==
    ASSUME NEW a \in Nat, NEW w \in Nat
    PROVE  a * w \in Nat
  OBVIOUS

LEMMA TimesGrows ==
    ASSUME NEW a \in Nat, NEW b \in Nat, NEW w \in Nat, a <= b
    PROVE  a * w <= b * w
  OBVIOUS

LEMMA RoundedGrows ==
    ASSUME NEW m \in Nat, NEW n \in Nat, m <= n
    PROVE  /\ Capped(Rounded(m)) \in 0 .. 100
           /\ Capped(Rounded(m)) <= Capped(Rounded(n))
  BY DEF Capped, Rounded
LEMMA ScoreGrows ==
    ASSUME NEW p1, NEW p2, NEW weights \in Weights, p1 \subseteq p2
    PROVE  /\ Score630(p1, weights) \in Nat
           /\ Score630(p1, weights) <= Score630(p2, weights)
<1> DEFINE term(a, g) == a * weights[g]
<1>1. \A g \in Groups : weights[g] \in Nat
  BY DEF Weights
<1>2. \A a, b \in Nat, g \in Groups : a <= b => term(a, g) \in Nat /\ term(a, g) <= term(b, g)
  BY <1>1, TimesNat, TimesGrows
<1>3. /\ Score630(p1, weights) =
             term(35 * PersonalIdentity(p1), "personalIdentity")
               + term(42 * LocationOrigin(p1), "locationOrigin")
               + term(18 * Education(p1), "education")
               + term(63 * Points(p1, "languages", 10), "languages")
               + term(90 * Points(p1, "testResults", 7), "tests")
               + term(42 * PreferencesStatuses(p1), "preferencesStatuses")
      /\ Score630(p2, weights) =
             term(35 * PersonalIdentity(p2), "personalIdentity")
               + term(42 * LocationOrigin(p2), "locationOrigin")
               + term(18 * Education(p2), "education")
               + term(63 * Points(p2, "languages", 10), "languages")
               + term(90 * Points(p2, "testResults", 7), "tests")
               + term(42 * PreferencesStatuses(p2), "preferencesStatuses")
  BY Zenon DEF Score630
<1> HIDE DEF term
<1>4. /\ 35 * PersonalIdentity(p1) \in Nat /\ 35 * PersonalIdentity(p2) \in Nat
      /\ 35 * PersonalIdentity(p1) <= 35 * PersonalIdentity(p2)
      /\ 42 * LocationOrigin(p1) \in Nat /\ 42 * LocationOrigin(p2) \in Nat
      /\ 42 * LocationOrigin(p1) <= 42 * LocationOrigin(p2)
      /\ 18 * Education(p1) \in Nat /\ 18 * Education(p2) \in Nat
      /\ 18 * Education(p1) <= 18 * Education(p2)
      /\ 63 * Points(p1, "languages", 10) \in Nat /\ 63 * Points(p2, "languages", 10) \in Nat
      /\ 63 * Points(p1, "languages", 10) <= 63 * Points(p2, "languages", 10)
      /\ 90 * Points(p1, "testResults", 7) \in Nat /\ 90 * Points(p2, "testResults", 7) \in Nat
      /\ 90 * Points(p1, "testResults", 7) <= 90 * Points(p2, "testResults", 7)
      /\ 42 * PreferencesStatuses(p1) \in Nat /\ 42 * PreferencesStatuses(p2) \in Nat
      /\ 42 * PreferencesStatuses(p1) <= 42 * PreferencesStatuses(p2)
  BY GroupsBounded, GroupsGrow
<1>5. /\ "personalIdentity" \in Groups /\ "locationOrigin" \in Groups
      /\ "education" \in Groups /\ "languages" \in Groups
      /\ "tests" \in Groups /\ "preferencesStatuses" \in Groups
  BY DEF Groups
<1>6. /\ term(35 * PersonalIdentity(p1), "personalIdentity") \in Nat
      /\ term(35 * PersonalIdentity(p2), "personalIdentity") \in Nat
      /\ term(35 * PersonalIdentity(p1), "personalIdentity")
            <= term(35 * PersonalIdentity(p2), "personalIdentity")
  BY <1>2, <1>4, <1>5
<1>7. /\ term(42 * LocationOrigin(p1), "locationOrigin") \in Nat
      /\ term(42 * LocationOrigin(p2), "locationOrigin") \in Nat
      /\ term(42 * LocationOrigin(p1), "locationOrigin")
            <= term(42 * LocationOrigin(p2), "locationOrigin")
  BY <1>2, <1>4, <1>5
<1>8. /\ term(18 * Education(p1), "education") \in Nat
      /\ term(18 * Education(p2), "education") \in Nat
      /\ term(18 * Education(p1), "education")
            <= term(18 * Education(p2), "education")
  BY <1>2, <1>4, <1>5
<1>9. /\ term(63 * Points(p1, "languages", 10), "languages") \in Nat
      /\ term(63 * Points(p2, "languages", 10), "languages") \in Nat
      /\ term(63 * Points(p1, "languages", 10), "languages")
            <= term(63 * Points(p2, "languages", 10), "languages")
  BY <1>2, <1>4, <1>5
<1>10. /\ term(90 * Points(p1, "testResults", 7), "tests") \in Nat
      /\ term(90 * Points(p2, "testResults", 7), "tests") \in Nat
      /\ term(90 * Points(p1, "testResults", 7), "tests")
            <= term(90 * Points(p2, "testResults", 7), "tests")
  BY <1>2, <1>4, <1>5
<1>11. /\ term(42 * PreferencesStatuses(p1), "preferencesStatuses") \in Nat
      /\ term(42 * PreferencesStatuses(p2), "preferencesStatuses") \in Nat
      /\ term(42 * PreferencesStatuses(p1), "preferencesStatuses")
            <= term(42 * PreferencesStatuses(p2), "preferencesStatuses")
  BY <1>2, <1>4, <1>5
<1>12. QED
  BY <1>3, <1>6, <1>7, <1>8, <1>9, <1>10, <1>11

(* Adding to a profile never lowers its percentage, whatever the weights.   *)
THEOREM CompletionGrows ==
    ASSUME NEW p1, NEW p2, NEW weights \in Weights, p1 \subseteq p2
    PROVE  /\ CompletionPct(p1, weights) \in 0 .. 100
           /\ CompletionPct(p1, weights) <= CompletionPct(p2, weights)
<1>1. Score630(p1, weights) \in Nat /\ Score630(p2, weights) \in Nat
  BY ScoreGrows
<1>2. Score630(p1, weights) <= Score630(p2, weights)
  BY ScoreGrows
<1>3. QED
  BY <1>1, <1>2, RoundedGrows DEF CompletionPct

Everything == AllFields \cup AllSections \cup {"countryOfResidenceId"}

(* A profile with every component has exactly 100 percent and an empty one  *)
(* none, for all weights that pass the check of their total.               *)
THEOREM CompletionEnds ==
    ASSUME NEW weights \in Weights, TotalWeight(weights) = 100
    PROVE  /\ CompletionPct(Everything, weights) = 100
           /\ CompletionPct({}, weights) = 0
<1>1. \A g \in Groups : weights[g] \in Nat
  BY DEF Weights
<1>2. /\ PersonalIdentity(Everything) = 18 /\ LocationOrigin(Everything) = 15
      /\ Education(Everything) = 35 /\ PreferencesStatuses(Everything) = 15
      /\ Points(Everything, "languages", 10) = 10
      /\ Points(Everything, "testResults", 7) = 7
  BY DEF PersonalIdentity, LocationOrigin, Education, PreferencesStatuses, Points,
         Everything, AllFields, AllSections
<1>3. Score630(Everything, weights) = 630 * TotalWeight(weights)
  BY <1>1, <1>2 DEF Score630, TotalWeight, Groups
<1>4. CompletionPct(Everything, weights) = 100
  BY <1>3 DEF CompletionPct, Rounded, Capped
<1>5. Score630({}, weights) = 0
  BY <1>1 DEF Score630, PersonalIdentity, LocationOrigin, Education, PreferencesStatuses,
              Points, Groups
<1>6. CompletionPct({}, weights) = 0
  BY <1>5 DEF CompletionPct, Rounded, Capped
<1>7. QED
  BY <1>4, <1>6

-----------------------------------------------------------------------------
(* Types, and the locals a handler has assigned by the time it uses them.   *)

Assigned(r) ==
    /\ r.pc \in {"checkLimit", "checkDuplicate", "checkExisting", "insert", "checkOther",
                 "change", "remove"} => r.section \in Sections
    /\ r.pc \in {"checkLimit", "checkDuplicate", "checkExisting", "insert"} => r.key \in Keys

TInv == TypeOK /\ \A w \in Workers : Assigned(req[w])

LEMMA IdleOK == Idle \in Request /\ Assigned(Idle)
  BY NoneAssumption DEF Idle, Request, PC, Assigned

LEMMA EmptyOK == Empty \in Profile
  BY DEF Empty, Profile

LEMMA WeightsTyped ==
    ASSUME TypeOK
    PROVE  WeightsRead \subseteq Weights
<1>1. settings.weights \in Weights
  BY SettingsAssumption DEF TypeOK, Setting, Weights
<1>2. \A g \in Groups : DefaultWeights[g] \in Nat
  BY DEF DefaultWeights, Groups
<1>3. QED
  BY <1>1, <1>2 DEF WeightsRead, Weights

LEMMA PresentTyped ==
    ASSUME TypeOK
    PROVE  Present \subseteq AllFields \cup AllSections \cup {"countryOfResidenceId"}
  BY SectionsAssumption DEF TypeOK, Profile, Present

(* A step of one request that leaves it with the locals r.                 *)
LEMMA RequestStep ==
    ASSUME TInv, NEW w \in Workers, NEW r \in Request, Assigned(r),
           req' = [req EXCEPT ![w] = r],
           shared' \subseteq Workers, settings' = settings,
           profile' \in Profile, rows' \in [Sections -> SUBSET Row]
    PROVE  TInv'
<1>1. TypeOK'
  BY DEF TInv, TypeOK
<1>2. \A u \in Workers : Assigned(req'[u])
  BY DEF TInv, TypeOK
<1>3. QED
  BY <1>1, <1>2 DEF TInv

LEMMA BeginStep ==
    ASSUME TInv, NEW w \in Workers, NEW r \in Request, Assigned(r), Begin(w, r),
           UNCHANGED <<settings, profile, rows>>
    PROVE  TInv'
<1>1. shared' \subseteq Workers
  BY DEF Begin, Busy, TInv, TypeOK
<1>2. QED
  BY <1>1, RequestStep DEF Begin, TInv, TypeOK

LEMMA FinishStep ==
    ASSUME TInv, NEW w \in Workers, Finish(w), settings' = settings,
           profile' \in Profile, rows' \in [Sections -> SUBSET Row]
    PROVE  TInv'
<1>1. shared' \subseteq Workers
  BY DEF Finish, TInv, TypeOK
<1>2. QED
  BY <1>1, RequestStep, IdleOK DEF Finish

LEMMA RecalculateStep ==
    ASSUME TInv, NEW w \in Workers, Recalculate(w), settings' = settings,
           profile' \in Profile, rows' \in [Sections -> SUBSET Row]
    PROVE  TInv'
<1> DEFINE r == [Idle EXCEPT !.pc = "recalcRead"]
<1>1. r \in Request /\ Assigned(r)
  BY IdleOK DEF Idle, Request, PC, Assigned
<1>2. shared' \subseteq Workers
  BY DEF Recalculate, TInv, TypeOK
<1>3. QED
  BY <1>1, <1>2, RequestStep DEF Recalculate

LEMMA GotoStep ==
    ASSUME TInv, NEW w \in Workers, NEW p \in PC, Goto(w, p),
           Assigned([req[w] EXCEPT !.pc = p]),
           UNCHANGED <<settings, profile, rows>>
    PROVE  TInv'
<1> DEFINE r == [req[w] EXCEPT !.pc = p]
<1>1. r \in Request
  BY DEF TInv, TypeOK, Request
<1>2. req' = [req EXCEPT ![w] = r]
  BY DEF Goto, TInv, TypeOK, Request
<1>3. shared' \subseteq Workers /\ profile' \in Profile /\ rows' \in [Sections -> SUBSET Row]
  BY DEF Goto, TInv, TypeOK
<1>4. QED
  BY <1>1, <1>2, <1>3, RequestStep

LEMMA InitTInv == Init => TInv
<1> SUFFICES ASSUME Init PROVE TInv
  OBVIOUS
<1>1. profile \in Profile
  BY EmptyOK DEF Init, Empty, Profile
<1>2. TypeOK
  BY <1>1, IdleOK DEF Init, TypeOK
<1>3. QED
  BY <1>2, IdleOK DEF Init, TInv

LEMMA ArriveTInv ==
    ASSUME TInv, NEW w \in Workers, Arrive(w)
    PROVE  TInv'
<1>1. CASE GetProfile(w)
  <2> DEFINE r == [Idle EXCEPT !.pc = "create"]
  <2>1. r \in Request /\ Assigned(r)
    BY IdleOK DEF Idle, Request, PC, Assigned
  <2>2. QED
    BY <1>1, <2>1, BeginStep DEF GetProfile
<1>2. ASSUME NEW fill \in SUBSET Fields, NEW clear \in SUBSET Fields,
             NEW country \in {NONE, UNDEFINED} \cup Countries,
             NEW city \in {NONE, UNDEFINED} \cup Cities,
             UpdateRead(w, fill, clear, country, city)
      PROVE  TInv'
  <2> DEFINE place == IF Mismatch(country, city) THEN NONE ELSE city
             r == [Idle EXCEPT !.pc = "updateWrite", !.fill = fill, !.clear = clear,
                               !.country = country, !.city = place]
  <2>1. place \in {NONE, UNDEFINED} \cup Cities
    OBVIOUS
  <2> HIDE DEF place
  <2>2. r \in Request /\ Assigned(r)
    BY <2>1, IdleOK DEF Idle, Request, PC, Assigned
  <2>3. Begin(w, r)
    BY <1>2 DEF UpdateRead, place
  <2>4. QED
    BY <1>2, <2>2, <2>3, BeginStep DEF UpdateRead
<1>3. ASSUME NEW s \in Sections, NEW k \in Keys, Add(w, s, k)
      PROVE  TInv'
  <2> DEFINE r == [Idle EXCEPT !.pc = FirstCheck(s), !.section = s, !.key = k]
  <2>1. r \in Request /\ Assigned(r)
    BY IdleOK DEF Idle, Request, PC, Assigned, FirstCheck
  <2>2. QED
    BY <1>3, <2>1, BeginStep DEF Add
<1>4. ASSUME NEW s \in Sections, NEW i \in Ids, NEW k \in {NONE} \cup Keys,
             ChangeRead(w, s, i, k)
      PROVE  TInv'
  <2> DEFINE r == [Idle EXCEPT !.pc = IF k = NONE THEN "change" ELSE "checkOther",
                               !.section = s, !.id = i, !.key = k]
  <2>1. r \in Request /\ Assigned(r)
    BY IdleOK DEF Idle, Request, PC, Assigned
  <2>2. QED
    BY <1>4, <2>1, BeginStep DEF ChangeRead
<1>5. ASSUME NEW s \in Sections, NEW i \in Ids, RemoveRead(w, s, i)
      PROVE  TInv'
  <2> DEFINE r == [Idle EXCEPT !.pc = "remove", !.section = s, !.id = i]
  <2>1. r \in Request /\ Assigned(r)
    BY IdleOK DEF Idle, Request, PC, Assigned
  <2>2. QED
    BY <1>5, <2>1, BeginStep DEF RemoveRead
<1>6. QED
  BY <1>1, <1>2, <1>3, <1>4, <1>5 DEF Arrive

LEMMA ContinueTInv ==
    ASSUME TInv, NEW w \in Workers, Continue(w)
    PROVE  TInv'
<1> USE DEF At
<1>0. /\ TypeOK /\ req[w] \in Request /\ Assigned(req[w])
      /\ profile \in Profile /\ rows \in [Sections -> SUBSET Row]
  BY DEF TInv, TypeOK
<1>1. CASE CreateProfile(w)
  BY <1>0, <1>1, EmptyOK, FinishStep DEF CreateProfile
<1>2. CASE UpdateWrite(w)
  <2>1. profile' \in Profile
    BY <1>0, <1>2 DEF UpdateWrite, Profile, Request, NextCountry, NextCity
  <2>2. QED
    BY <1>0, <1>2, <2>1, RecalculateStep DEF UpdateWrite
<1>3. CASE CheckDuplicate(w)
  BY <1>0, <1>3, FinishStep, GotoStep DEF CheckDuplicate, PC, Assigned, Request
<1>4. CASE CheckLimit(w)
  BY <1>0, <1>4, FinishStep, GotoStep DEF CheckLimit, PC, Assigned, Request
<1>5. CASE CheckExisting(w)
  BY <1>0, <1>5, FinishStep, GotoStep DEF CheckExisting, PC, Assigned, Request
<1>6. CASE Insert(w)
  <2>1. req[w].section \in Sections /\ req[w].key \in Keys
    BY <1>0, <1>6 DEF Insert, Assigned
  <2>2. rows' \in [Sections -> SUBSET Row]
    <3>1. CASE Inserted(w)
      <4>1. PICK i \in Ids :
              rows' = [rows EXCEPT ![req[w].section] = @ \cup {[id |-> i, key |-> req[w].key]}]
        BY <3>1 DEF Inserted
      <4>2. [id |-> i, key |-> req[w].key] \in Row
        BY <2>1 DEF Row
      <4>3. QED
        BY <1>0, <2>1, <4>1, <4>2
    <3>2. CASE UNCHANGED rows
      BY <1>0, <3>2
    <3>3. QED
      BY <1>6, <3>1, <3>2 DEF Insert
  <2>3. QED
    BY <1>0, <1>6, <2>2, FinishStep, RecalculateStep DEF Insert
<1>7. CASE CheckOther(w)
  BY <1>0, <1>7, FinishStep, GotoStep DEF CheckOther, PC, Assigned, Request
<1>8. CASE Change(w)
  <2>1. req[w].section \in Sections /\ req[w].key \in {NONE} \cup Keys
    BY <1>0, <1>8 DEF Change, Assigned, Request
  <2>2. \A x \in Row : Changed(x, req[w].key) \in Row
    BY <2>1 DEF Changed, Row
  <2>3. rows' \in [Sections -> SUBSET Row]
    BY <1>0, <1>8, <2>1, <2>2 DEF Change
  <2>4. QED
    BY <1>0, <1>8, <2>3, FinishStep, RecalculateStep DEF Change
<1>9. CASE Remove(w)
  <2>1. rows' \in [Sections -> SUBSET Row]
    BY <1>0, <1>9 DEF Remove
  <2>2. QED
    BY <1>0, <1>9, <2>1, FinishStep, RecalculateStep DEF Remove
<1>10. CASE RecalcRead(w)
  <2> DEFINE r == [req[w] EXCEPT !.pc = "recalcWeights", !.present = Present]
  <2>1. r \in Request
    BY <1>0, PresentTyped DEF Request, PC
  <2>2. Assigned(r) /\ req' = [req EXCEPT ![w] = r]
    BY <1>0, <1>10 DEF RecalcRead, Assigned, Request, TypeOK
  <2>3. QED
    BY <1>0, <1>10, <2>1, <2>2, RequestStep DEF RecalcRead, TypeOK
<1>11. CASE RecalcWeights(w)
  <2>1. PICK weights \in WeightsRead :
          IF TotalWeight(weights) # 100 THEN Finish(w)
          ELSE /\ req' = [req EXCEPT ![w].pc = "recalcThreshold", ![w].present = {},
                                     ![w].pct = CompletionPct(req[w].present, weights)]
               /\ UNCHANGED shared
    BY <1>11 DEF RecalcWeights
  <2>2. CASE TotalWeight(weights) # 100
    BY <1>0, <1>11, <2>1, <2>2, FinishStep DEF RecalcWeights
  <2>3. CASE TotalWeight(weights) = 100
    <3> DEFINE pct == CompletionPct(req[w].present, weights)
               r == [req[w] EXCEPT !.pc = "recalcThreshold", !.present = {}, !.pct = pct]
    <3>1. pct \in 0 .. 100
      BY <1>0, WeightsTyped, CompletionGrows
    <3>2. req' = [req EXCEPT ![w].pc = "recalcThreshold", ![w].present = {}, ![w].pct = pct]
      BY <2>1, <2>3
    <3> HIDE DEF pct
    <3>3. req' = [req EXCEPT ![w] = r] /\ Assigned(r)
      BY <1>0, <3>2 DEF TypeOK, Request, Assigned
    <3>4. r \in Request
      BY <1>0, <3>1 DEF Request, PC
    <3>5. QED
      BY <1>0, <1>11, <2>1, <2>3, <3>3, <3>4, RequestStep DEF RecalcWeights, TypeOK
  <2>4. QED
    BY <2>2, <2>3
<1>12. CASE RecalcThreshold(w)
  <2>1. PICK threshold \in ThresholdsRead :
          req' = [req EXCEPT ![w].pc = "recalcWrite",
                             ![w].matchable = req[w].pct >= threshold]
    BY <1>12 DEF RecalcThreshold
  <2> DEFINE matchable == req[w].pct >= threshold
             r == [req[w] EXCEPT !.pc = "recalcWrite", !.matchable = matchable]
  <2>2. matchable \in BOOLEAN
    OBVIOUS
  <2>3. req' = [req EXCEPT ![w] = r]
    BY <1>0, <2>1 DEF TypeOK, Request
  <2> HIDE DEF matchable
  <2>4. r \in Request
    BY <1>0, <2>2 DEF Request, PC
  <2>5. Assigned(r)
    BY <1>0 DEF Assigned, Request
  <2>6. QED
    BY <1>0, <1>12, <2>3, <2>4, <2>5, RequestStep DEF RecalcThreshold, TypeOK
<1>13. CASE RecalcWrite(w)
  <2>1. profile' \in Profile
    BY <1>0, <1>13 DEF RecalcWrite, Profile, Request
  <2>2. QED
    BY <1>0, <1>13, <2>1, FinishStep DEF RecalcWrite
<1>14. QED
  BY <1>1, <1>2, <1>3, <1>4, <1>5, <1>6, <1>7, <1>8, <1>9, <1>10, <1>11, <1>12, <1>13
  DEF Continue

LEMMA StepTInv == TInv /\ [Next]_vars => TInv'
<1> SUFFICES ASSUME TInv, [Next]_vars PROVE TInv'
  OBVIOUS
<1>1. ASSUME NEW w \in Workers, Fault(w) PROVE TInv'
  BY <1>1, FinishStep DEF Fault, TInv, TypeOK
<1>2. CASE UNCHANGED vars
  BY <1>2 DEF vars, TInv, TypeOK
<1>3. QED
  BY <1>1, <1>2, ArriveTInv, ContinueTInv DEF Next

(* The row, the sections and the locals of every handler keep their types.  *)
THEOREM ProfileTypeCorrect == Spec => []TypeOK
<1>1. TInv => TypeOK
  BY DEF TInv
<1>2. QED
  BY <1>1, InitTInv, StepTInv, PTL DEF Spec

-----------------------------------------------------------------------------
(* Who is about to write a result holds one that agrees with a threshold.   *)

Agree(pct, matchable) == \E threshold \in ThresholdsRead : matchable <=> pct >= threshold

MInv ==
    /\ TypeOK
    /\ Agree(profile.pct, profile.matchable)
    /\ \A w \in Workers : At(w, "recalcWrite") => Agree(req[w].pct, req[w].matchable)

LEMMA ThresholdPositive == TypeOK => settings.threshold \in Nat \ {0}
  BY SettingsAssumption DEF TypeOK, Setting

LEMMA EmptyAgrees == TypeOK => Agree(Empty.pct, Empty.matchable)
<1> SUFFICES ASSUME TypeOK PROVE Agree(Empty.pct, Empty.matchable)
  OBVIOUS
<1>1. settings.threshold \in ThresholdsRead /\ settings.threshold \in Nat \ {0}
  BY ThresholdPositive DEF ThresholdsRead
<1>2. Empty.matchable = FALSE /\ ~(Empty.pct >= settings.threshold)
  BY <1>1 DEF Empty
<1>3. QED
  BY <1>1, <1>2 DEF Agree

LEMMA InitMInv == Init => MInv
<1> SUFFICES ASSUME Init PROVE MInv
  OBVIOUS
<1>1. TypeOK
  BY InitTInv DEF TInv
<1>2. profile.pct = Empty.pct /\ profile.matchable = Empty.matchable
  BY DEF Init, Empty
<1>3. \A w \in Workers : ~At(w, "recalcWrite")
  BY DEF Init, At, Idle
<1>4. QED
  BY <1>1, <1>2, <1>3, EmptyAgrees DEF MInv

(* A step of one request that does not end at recalcWrite.                 *)
LEMMA ElsewhereMInv ==
    ASSUME MInv, TypeOK', NEW w \in Workers, settings' = settings,
           Agree(profile'.pct, profile'.matchable),
           \A u \in Workers \ {w} : req'[u] = req[u],
           req'[w].pc # "recalcWrite"
    PROVE  MInv'
<1>1. ThresholdsRead' = ThresholdsRead
  BY DEF ThresholdsRead
<1>2. \A u \in Workers : At(u, "recalcWrite")' =>
         u # w /\ At(u, "recalcWrite") /\ req'[u] = req[u]
  BY DEF At
<1>3. \A u \in Workers : At(u, "recalcWrite")' =>
         Agree(req'[u].pct, req'[u].matchable)
  BY <1>2 DEF MInv
<1>4. QED
  BY <1>1, <1>3 DEF MInv, Agree

LEMMA StepMInv ==
    ASSUME MInv, TypeOK', [Next]_vars
    PROVE  MInv'
<1>0. TypeOK /\ req \in [Workers -> Request] /\ profile \in Profile
      /\ Agree(profile.pct, profile.matchable)
  BY DEF MInv, TypeOK
<1>1. CASE UNCHANGED vars
  BY <1>1 DEF vars, MInv, At, Agree, ThresholdsRead, TypeOK
<1>2. ASSUME NEW w \in Workers, Arrive(w)
      PROVE  MInv'
  <2>1. ASSUME NEW r, Begin(w, r), r.pc # "recalcWrite", UNCHANGED <<settings, profile>>
        PROVE  MInv'
    <3>1. req'[w].pc # "recalcWrite" /\ \A u \in Workers \ {w} : req'[u] = req[u]
      BY <1>0, <2>1 DEF Begin
    <3>2. QED
      BY <1>0, <2>1, <3>1, ElsewhereMInv
  <2>2. CASE GetProfile(w)
    BY <2>1, <2>2 DEF GetProfile, Idle
  <2>3. ASSUME NEW fill, NEW clear, NEW country, NEW city,
               UpdateRead(w, fill, clear, country, city)
        PROVE  MInv'
    BY <2>1, <2>3 DEF UpdateRead, Idle
  <2>4. ASSUME NEW s, NEW k, Add(w, s, k)
        PROVE  MInv'
    BY <2>1, <2>4 DEF Add, FirstCheck, Idle
  <2>5. ASSUME NEW s, NEW i, NEW k, ChangeRead(w, s, i, k)
        PROVE  MInv'
    BY <2>1, <2>5 DEF ChangeRead, Idle
  <2>6. ASSUME NEW s, NEW i, RemoveRead(w, s, i)
        PROVE  MInv'
    BY <2>1, <2>6 DEF RemoveRead, Idle
  <2>7. QED
    BY <1>2, <2>2, <2>3, <2>4, <2>5, <2>6 DEF Arrive
<1>3. ASSUME NEW w \in Workers, Continue(w) \/ Fault(w)
      PROVE  MInv'
  <2>1. /\ Finish(w) => /\ req'[w].pc # "recalcWrite"
                        /\ \A u \in Workers \ {w} : req'[u] = req[u]
        /\ Recalculate(w) => /\ req'[w].pc # "recalcWrite"
                             /\ \A u \in Workers \ {w} : req'[u] = req[u]
        /\ \A pc \in PC \ {"recalcWrite"} :
              Goto(w, pc) => /\ req'[w].pc # "recalcWrite"
                             /\ \A u \in Workers \ {w} : req'[u] = req[u]
    BY <1>0 DEF Finish, Recalculate, Goto, Idle, Request
  <2>2. CASE CreateProfile(w)
    <3>1. Agree(profile'.pct, profile'.matchable)
      BY <1>0, <2>2, EmptyAgrees DEF CreateProfile
    <3>2. QED
      BY <2>1, <2>2, <3>1, ElsewhereMInv DEF CreateProfile
  <2>3. CASE UpdateWrite(w)
    <3>1. profile'.pct = profile.pct /\ profile'.matchable = profile.matchable
      BY <1>0, <2>3 DEF UpdateWrite, Profile
    <3>2. QED
      BY <1>0, <2>1, <2>3, <3>1, ElsewhereMInv DEF UpdateWrite
  <2>4. CASE CheckDuplicate(w) \/ CheckLimit(w) \/ CheckExisting(w) \/ CheckOther(w)
    BY <1>0, <2>1, <2>4, ElsewhereMInv
    DEF CheckDuplicate, CheckLimit, CheckExisting, CheckOther, PC
  <2>5. CASE Insert(w) \/ Change(w) \/ Remove(w)
    BY <1>0, <2>1, <2>5, ElsewhereMInv DEF Insert, Change, Remove
  <2>6. CASE RecalcRead(w) \/ RecalcWeights(w)
    <3>1. /\ req'[w].pc # "recalcWrite" /\ \A u \in Workers \ {w} : req'[u] = req[u]
      BY <1>0, <2>1, <2>6 DEF RecalcRead, RecalcWeights, Request
    <3>2. QED
      BY <1>0, <2>6, <3>1, ElsewhereMInv DEF RecalcRead, RecalcWeights
  <2>7. CASE RecalcThreshold(w)
    <3>1. ThresholdsRead' = ThresholdsRead
      BY <2>7 DEF RecalcThreshold, ThresholdsRead
    <3>2. PICK threshold \in ThresholdsRead :
            req' = [req EXCEPT ![w].pc = "recalcWrite",
                               ![w].matchable = req[w].pct >= threshold]
      BY <2>7 DEF RecalcThreshold
    <3>3. /\ req'[w].pct = req[w].pct /\ req'[w].matchable = (req[w].pct >= threshold)
          /\ \A u \in Workers \ {w} : req'[u] = req[u]
      BY <1>0, <3>2 DEF Request
    <3>4. Agree(req'[w].pct, req'[w].matchable)
      BY <3>3 DEF Agree
    <3>5. \A u \in Workers : At(u, "recalcWrite")' => Agree(req'[u].pct, req'[u].matchable)
      BY <3>3, <3>4 DEF MInv, At
    <3>6. QED
      BY <2>7, <3>1, <3>5 DEF RecalcThreshold, MInv, Agree
  <2>8. CASE RecalcWrite(w)
    <3>1. Agree(req[w].pct, req[w].matchable)
      BY <2>8 DEF RecalcWrite, MInv
    <3>2. profile'.pct = req[w].pct /\ profile'.matchable = req[w].matchable
      BY <1>0, <2>8 DEF RecalcWrite, Profile
    <3>3. QED
      BY <2>1, <2>8, <3>1, <3>2, ElsewhereMInv DEF RecalcWrite
  <2>9. CASE Fault(w)
    BY <1>0, <2>1, <2>9, ElsewhereMInv DEF Fault
  <2>10. QED
    BY <1>3, <2>2, <2>3, <2>4, <2>5, <2>6, <2>7, <2>8, <2>9 DEF Continue
<1>4. QED
  BY <1>1, <1>2, <1>3 DEF Next

(* isMatchable agrees with completionPct and the threshold that was read,   *)
(* whatever recalculations overlap.                                        *)
THEOREM MatchableAgreesAlways == Spec => []MatchableAgrees
<1>1. MInv => MatchableAgrees
  BY DEF MInv, MatchableAgrees, Agree
<1>2. MInv /\ TypeOK' /\ [Next]_vars => MInv'
  BY StepMInv
<1>3. QED
  BY <1>1, <1>2, InitMInv, ProfileTypeCorrect, PTL DEF Spec

-----------------------------------------------------------------------------
(* A request that has met no other one finds the database as it left it.    *)

(* The results a recalculation of the data stored may have. *)
Result(pct) ==
    \E weights \in WeightsRead : /\ TotalWeight(weights) = 100
                                 /\ pct = CompletionPct(Present, weights)

InPlace(city, country) == city # NONE => CountryOf[city] = country

AloneInv(w) ==
    /\ At(w, "updateWrite") => InPlace(NextCity(req[w].city), NextCountry(req[w].country))
    /\ At(w, "recalcWeights") => req[w].present = Present
    /\ At(w, "recalcThreshold") \/ At(w, "recalcWrite") => Result(req[w].pct)

Met == \A u, v \in Workers : u # v /\ ~At(u, "idle") /\ ~At(v, "idle") => u \in shared

AInv ==
    /\ TypeOK
    /\ Met
    /\ \A w \in Workers : Alone(w) => AloneInv(w)

LEMMA InitAInv == Init => AInv
<1> SUFFICES ASSUME Init PROVE AInv
  OBVIOUS
<1>1. TypeOK
  BY InitTInv DEF TInv
<1>2. \A w \in Workers : req[w].pc = "idle"
  BY DEF Init, Idle
<1>3. QED
  BY <1>1, <1>2 DEF AInv, Met, AloneInv, At

(* A step of w: afterwards every other request in flight has met w, so only *)
(* w can be alone.                                                         *)
LEMMA OthersMet ==
    ASSUME AInv, TypeOK', NEW w \in Workers,
           \A u \in Workers \ {w} : req'[u] = req[u],
           \/ /\ At(w, "idle")
              /\ shared' = IF Busy = {} THEN shared ELSE Busy \cup {w}
           \/ /\ ~At(w, "idle")
              /\ \/ shared' = shared
                 \/ shared' = shared \ {w} /\ At(w, "idle")',
           Alone(w)' => AloneInv(w)'
    PROVE  AInv'
<1>1. \A u \in Workers \ {w} : At(u, "idle")' \/ u \in shared'
  BY DEF AInv, Met, At, Busy
<1>2. ~At(w, "idle")' =>
        (\A u \in Workers \ {w} : At(u, "idle")') \/ w \in shared'
  BY DEF AInv, Met, At, Busy
<1>3. Met'
  BY <1>1, <1>2 DEF Met
<1>4. \A u \in Workers \ {w} : At(u, "idle")' => AloneInv(u)'
  BY DEF AloneInv, At
<1>5. \A u \in Workers : Alone(u)' => AloneInv(u)'
  BY <1>1, <1>4 DEF Alone
<1>6. QED
  BY <1>3, <1>5 DEF AInv

LEMMA BeginAInv ==
    ASSUME AInv, TypeOK', NEW w \in Workers, At(w, "idle"), NEW r, Begin(w, r),
           Alone(w)' => AloneInv(w)'
    PROVE  AInv'
<1>1. \A u \in Workers \ {w} : req'[u] = req[u]
  BY DEF Begin, AInv, TypeOK
<1>2. QED
  BY <1>1, OthersMet DEF Begin

LEMMA FinishAInv ==
    ASSUME AInv, TypeOK', NEW w \in Workers, ~At(w, "idle"), Finish(w)
    PROVE  AInv'
<1>1. At(w, "idle")' /\ \A u \in Workers \ {w} : req'[u] = req[u]
  BY DEF Finish, AInv, TypeOK, At, Idle
<1>2. AloneInv(w)'
  BY <1>1 DEF AloneInv, At
<1>3. QED
  BY <1>1, <1>2, OthersMet DEF Finish

(* A step to a place where nothing is remembered of the database.           *)
LEMMA ForgetfulAInv ==
    ASSUME AInv, TypeOK', NEW w \in Workers, ~At(w, "idle"), shared' = shared,
           \A u \in Workers \ {w} : req'[u] = req[u],
           req'[w].pc \notin {"updateWrite", "recalcWeights", "recalcThreshold", "recalcWrite"}
    PROVE  AInv'
<1>1. AloneInv(w)'
  BY DEF AloneInv, At
<1>2. QED
  BY <1>1, OthersMet

LEMMA ArriveAInv ==
    ASSUME AInv, TypeOK', NEW w \in Workers, Arrive(w)
    PROVE  AInv'
<1>0. req \in [Workers -> Request]
  BY DEF AInv, TypeOK
<1>1. ASSUME NEW r, At(w, "idle"), Begin(w, r),
             r.pc \notin {"updateWrite", "recalcWeights", "recalcThreshold", "recalcWrite"}
      PROVE  AInv'
  <2>1. AloneInv(w)'
    BY <1>0, <1>1 DEF Begin, AloneInv, At
  <2>2. QED
    BY <1>1, <2>1, BeginAInv
<1>2. CASE GetProfile(w)
  BY <1>1, <1>2 DEF GetProfile, Accepts, Idle
<1>3. ASSUME NEW fill, NEW clear, NEW country, NEW city,
             UpdateRead(w, fill, clear, country, city)
      PROVE  AInv'
  <2> DEFINE place == IF Mismatch(country, city) THEN NONE ELSE city
             r == [Idle EXCEPT !.pc = "updateWrite", !.fill = fill, !.clear = clear,
                               !.country = country, !.city = place]
  <2>1. At(w, "idle") /\ Begin(w, r) /\ PlaceAllowed(country, city) /\ UNCHANGED profile
    BY <1>3 DEF UpdateRead, Accepts
  <2>2. InPlace(NextCity(place), NextCountry(country))
    BY <2>1, NoneAssumption DEF InPlace, PlaceAllowed, Mismatch, NextCity, NextCountry
  <2>3. r.pc = "updateWrite" /\ r.country = country /\ r.city = place
    BY DEF Idle
  <2>4. req'[w] = r
    BY <1>0, <2>1 DEF Begin
  <2>5. InPlace(NextCity(req[w].city), NextCountry(req[w].country))'
    BY <2>1, <2>2, <2>3, <2>4 DEF InPlace, NextCity, NextCountry
  <2>6. AloneInv(w)'
    BY <2>3, <2>4, <2>5 DEF AloneInv, At
  <2>7. QED
    BY <2>1, <2>6, BeginAInv
<1>4. ASSUME NEW s, NEW k, Add(w, s, k)
      PROVE  AInv'
  BY <1>1, <1>4 DEF Add, Accepts, FirstCheck, Idle
<1>5. ASSUME NEW s, NEW i, NEW k, ChangeRead(w, s, i, k)
      PROVE  AInv'
  BY <1>1, <1>5 DEF ChangeRead, Accepts, Idle
<1>6. ASSUME NEW s, NEW i, RemoveRead(w, s, i)
      PROVE  AInv'
  BY <1>1, <1>6 DEF RemoveRead, Accepts, Idle
<1>7. QED
  BY <1>2, <1>3, <1>4, <1>5, <1>6 DEF Arrive

LEMMA ContinueAInv ==
    ASSUME AInv, TypeOK', NEW w \in Workers, Continue(w) \/ Fault(w)
    PROVE  AInv'
<1>0. req \in [Workers -> Request] /\ profile \in Profile /\ (Alone(w) => AloneInv(w))
  BY DEF AInv, TypeOK
<1>1. /\ Recalculate(w) => /\ shared' = shared
                           /\ req'[w].pc = "recalcRead"
                           /\ \A u \in Workers \ {w} : req'[u] = req[u]
      /\ \A pc : Goto(w, pc) => /\ shared' = shared
                                /\ req'[w].pc = pc
                                /\ \A u \in Workers \ {w} : req'[u] = req[u]
  BY <1>0 DEF Recalculate, Goto, Idle, Request
<1>2. CASE CreateProfile(w) \/ RecalcWrite(w) \/ Fault(w)
  BY <1>2, FinishAInv DEF CreateProfile, RecalcWrite, Fault, At
<1>3. CASE UpdateWrite(w)
  BY <1>1, <1>3, ForgetfulAInv DEF UpdateWrite, At
<1>4. CASE CheckDuplicate(w) \/ CheckExisting(w) \/ CheckOther(w)
  BY <1>1, <1>4, FinishAInv, ForgetfulAInv
  DEF CheckDuplicate, CheckExisting, CheckOther, At
<1>5. CASE CheckLimit(w)
  BY <1>1, <1>5, FinishAInv, ForgetfulAInv DEF CheckLimit, At
<1>6. CASE Insert(w) \/ Change(w) \/ Remove(w)
  BY <1>1, <1>6, FinishAInv, ForgetfulAInv DEF Insert, Change, Remove, At
<1>7. CASE RecalcRead(w)
  <2>1. /\ req'[w].pc = "recalcWeights" /\ req'[w].present = Present
        /\ \A u \in Workers \ {w} : req'[u] = req[u]
    BY <1>0, <1>7 DEF RecalcRead, Request
  <2>2. Present' = Present
    BY <1>7 DEF RecalcRead, Present
  <2>3. AloneInv(w)'
    BY <2>1, <2>2 DEF AloneInv, At
  <2>4. QED
    BY <1>7, <2>1, <2>3, OthersMet DEF RecalcRead, At
<1>8. CASE RecalcWeights(w)
  <2>1. PICK weights \in WeightsRead :
          IF TotalWeight(weights) # 100 THEN Finish(w)
          ELSE /\ req' = [req EXCEPT ![w].pc = "recalcThreshold", ![w].present = {},
                                     ![w].pct = CompletionPct(req[w].present, weights)]
               /\ UNCHANGED shared
    BY <1>8 DEF RecalcWeights
  <2>2. CASE TotalWeight(weights) # 100
    BY <1>8, <2>1, <2>2, FinishAInv DEF RecalcWeights, At
  <2>3. CASE TotalWeight(weights) = 100
    <3>1. /\ req'[w].pc = "recalcThreshold"
          /\ req'[w].pct = CompletionPct(req[w].present, weights)
          /\ \A u \in Workers \ {w} : req'[u] = req[u]
          /\ shared' = shared
      BY <1>0, <2>1, <2>3 DEF Request
    <3>2. Alone(w)' => Result(req'[w].pct)
      BY <1>0, <1>8, <2>3, <3>1 DEF Alone, AloneInv, RecalcWeights, Result
    <3>3. Present' = Present /\ WeightsRead' = WeightsRead
      BY <1>8 DEF RecalcWeights, Present, WeightsRead
    <3>4. Alone(w)' => AloneInv(w)'
      BY <3>1, <3>2, <3>3 DEF AloneInv, At, Result
    <3>5. QED
      BY <1>8, <3>1, <3>4, OthersMet DEF RecalcWeights, At
  <2>4. QED
    BY <2>2, <2>3
<1>9. CASE RecalcThreshold(w)
  <2>1. PICK threshold \in ThresholdsRead :
          req' = [req EXCEPT ![w].pc = "recalcWrite",
                             ![w].matchable = req[w].pct >= threshold]
    BY <1>9 DEF RecalcThreshold
  <2>2. /\ req'[w].pc = "recalcWrite" /\ req'[w].pct = req[w].pct
        /\ \A u \in Workers \ {w} : req'[u] = req[u]
    BY <1>0, <2>1 DEF Request
  <2>3. Present' = Present /\ WeightsRead' = WeightsRead /\ shared' = shared
    BY <1>9 DEF RecalcThreshold, Present, WeightsRead
  <2>4. Alone(w)' => AloneInv(w)'
    BY <1>0, <1>9, <2>2, <2>3 DEF Alone, AloneInv, At, RecalcThreshold, Result
  <2>5. QED
    BY <1>9, <2>2, <2>3, <2>4, OthersMet DEF RecalcThreshold, At
<1>10. QED
  BY <1>2, <1>3, <1>4, <1>5, <1>6, <1>7, <1>8, <1>9 DEF Continue

LEMMA StepAInv ==
    ASSUME AInv, TypeOK', [Next]_vars
    PROVE  AInv'
<1>1. CASE UNCHANGED vars
  <2>1. Met'
    BY <1>1 DEF vars, AInv, Met, At
  <2>2. ASSUME NEW w \in Workers, Alone(w)'
        PROVE  AloneInv(w)'
    <3>1. AloneInv(w)
      BY <1>1, <2>2 DEF vars, Alone, AInv
    <3>2. Present' = Present /\ WeightsRead' = WeightsRead
      BY <1>1 DEF vars, Present, WeightsRead
    <3>3. QED
      BY <1>1, <3>1, <3>2 DEF vars, AloneInv, At, InPlace, NextCity, NextCountry, Result
  <2>3. QED
    BY <2>1, <2>2 DEF AInv
<1>2. QED
  BY <1>1, ArriveAInv, ContinueAInv DEF Next

LEMMA AInvAlways == Spec => []AInv
<1>1. AInv /\ TypeOK' /\ [Next]_vars => AInv'
  BY StepAInv
<1>2. QED
  BY <1>1, InitAInv, ProfileTypeCorrect, PTL DEF Spec

(* An update that meets no other request leaves a city of the country, or    *)
(* none, whatever happened before it.                                      *)
THEOREM AlonePlace == Spec => AloneLeavesPlace
<1>1. ASSUME AInv, [Next]_vars
      PROVE  [\A w \in Workers : UpdateWrite(w) /\ Alone(w) /\ profile'.city # NONE
                 => CountryOf[profile'.city] = profile'.country]_vars
  <2>1. ASSUME NEW w \in Workers, UpdateWrite(w), Alone(w), profile'.city # NONE
        PROVE  CountryOf[profile'.city] = profile'.country
    <3>1. InPlace(NextCity(req[w].city), NextCountry(req[w].country))
      BY <1>1, <2>1 DEF AInv, AloneInv, UpdateWrite
    <3>2. /\ profile'.city = NextCity(req[w].city)
          /\ profile'.country = NextCountry(req[w].country)
      BY <1>1, <2>1 DEF UpdateWrite, AInv, TypeOK, Profile
    <3>3. QED
      BY <2>1, <3>1, <3>2 DEF InPlace
  <2>2. QED
    BY <2>1
<1>2. QED
  BY <1>1, AInvAlways, PTL DEF Spec, AloneLeavesPlace

(* A write that meets no other request leaves the percentage of the data     *)
(* stored, whatever races and failures came before it.                     *)
THEOREM AloneCurrent == Spec => AloneLeavesCurrent
<1>1. ASSUME AInv, [Next]_vars
      PROVE  [\A w \in Workers : RecalcWrite(w) /\ Alone(w) => Current']_vars
  <2>1. ASSUME NEW w \in Workers, RecalcWrite(w), Alone(w)
        PROVE  Current'
    <3>1. Result(req[w].pct)
      BY <1>1, <2>1 DEF AInv, AloneInv, RecalcWrite
    <3>2. /\ profile'.pct = req[w].pct
          /\ profile'.filled = profile.filled /\ profile'.country = profile.country
      BY <1>1, <2>1 DEF RecalcWrite, AInv, TypeOK, Profile
    <3>3. Present' = Present /\ WeightsRead' = WeightsRead
      BY <2>1, <3>2 DEF RecalcWrite, Present, WeightsRead
    <3>4. QED
      BY <3>1, <3>2, <3>3 DEF Result, Current
  <2>2. QED
    BY <2>1
<1>2. QED
  BY <1>1, AInvAlways, PTL DEF Spec, AloneLeavesCurrent

-----------------------------------------------------------------------------
(* How far the unlocked check of a section's limit can be overshot.         *)

LEMMA ImageBound ==
    ASSUME NEW S, NEW T, IsFiniteSet(S), NEW f \in [S -> T],
           \A t \in T : \E x \in S : f[x] = t
    PROVE  IsFiniteSet(T) /\ Cardinality(T) <= Cardinality(S)
<1>1. f \in Surjection(S, T)
  BY DEF Surjection
<1>2. QED
  BY <1>1, FS_Surjection

LEMMA RowFinite == IsFiniteSet(Row)
<1> DEFINE S == Ids \X Keys
           g == [p \in S |-> [id |-> p[1], key |-> p[2]]]
<1>1. IsFiniteSet(Ids) /\ IsFiniteSet(Keys)
  BY KeysAssumption, FS_Subset
<1>2. IsFiniteSet(S)
  BY <1>1, FS_Product
<1>3. g \in [S -> Row]
  BY DEF Row
<1>4. ASSUME NEW r \in Row
      PROVE  \E p \in S : g[p] = r
  <2>1. <<r.id, r.key>> \in S /\ r = [id |-> r.id, key |-> r.key]
    BY DEF Row
  <2>2. g[<<r.id, r.key>>] = r
    BY <2>1
  <2>3. QED
    BY <2>1, <2>2
<1> HIDE DEF S, g
<1>5. QED
  BY <1>2, <1>3, <1>4, ImageBound

Limited == Sections \ {"specialStatuses"}

(* The requests that passed the check of the limit of s and have not inserted *)
Pending(s) ==
    {w \in Workers : /\ req[w].section = s
                     /\ At(w, "insert") \/ (At(w, "checkDuplicate") /\ s # "educations")}

RowKeys(s) == {r.key : r \in rows[s]}
PendingKeys(s) == {req[w].key : w \in Pending(s)}
Claims(s) == RowKeys(s) \cup PendingKeys(s)

Bound(s) == HighestLimit(s) + Cardinality(Workers) - 1
UniqueKeys(s) == \A r1, r2 \in rows[s] : r1.key = r2.key => r1 = r2

(* A row of educations may change its key, so rows and requests are counted; *)
(* the requests that repeat a preference pass no check but claim no new key. *)
WithinBound(s) ==
    IF s = "educations" THEN Cardinality(rows[s]) + Cardinality(Pending(s)) <= Bound(s)
    ELSE UniqueKeys(s) /\ Cardinality(Claims(s)) <= Bound(s)

Located(w) ==
    /\ At(w, "checkOther") => req[w].section = "educations"
    /\ At(w, "checkExisting") => req[w].section \in Preferences
    /\ At(w, "change") /\ req[w].section # "educations" => req[w].key = NONE

LInv ==
    /\ TInv
    /\ \A w \in Workers : Located(w)
    /\ \A s \in Limited : WithinBound(s)

LEMMA HighestRead ==
    ASSUME NEW s \in Sections
    PROVE  /\ HighestLimit(s) \in Nat
           /\ \A limit \in LimitsRead(s) : limit \in Nat /\ limit <= HighestLimit(s)
<1>1. Limit[s] \in Nat /\ DefaultLimit[s] \in Nat
  BY LimitAssumption
<1>2. LimitsRead(s) = {Limit[s]} \/ LimitsRead(s) = {Limit[s], DefaultLimit[s]}
  BY DEF LimitsRead
<1>3. \E n \in LimitsRead(s) : \A limit \in LimitsRead(s) : limit <= n
  <2>1. CASE LimitsRead(s) = {Limit[s]}
    BY <1>1, <2>1
  <2>2. CASE LimitsRead(s) = {Limit[s], DefaultLimit[s]}
    BY <1>1, <2>2
  <2>3. QED
    BY <1>2, <2>1, <2>2
<1>4. /\ HighestLimit(s) \in LimitsRead(s)
      /\ \A limit \in LimitsRead(s) : limit <= HighestLimit(s)
  BY <1>3 DEF HighestLimit
<1>5. QED
  BY <1>1, <1>2, <1>4

LEMMA BoundTyped ==
    ASSUME NEW s \in Limited
    PROVE  Cardinality(Workers) \in Nat /\ HighestLimit(s) \in Nat /\ Bound(s) \in Nat
<1>1. Cardinality(Workers) \in Nat /\ Cardinality(Workers) # 0
  BY WorkersAssumption, FS_CardinalityType, FS_EmptySet
<1>2. HighestLimit(s) \in Nat
  BY HighestRead DEF Limited
<1>3. QED
  BY <1>1, <1>2 DEF Bound

(* A set of rows, a set of requests, and the keys they hold. *)
LEMMA KeysCounted ==
    ASSUME NEW R \in SUBSET Row, NEW P \in SUBSET Workers, NEW key, NEW C,
           C = {r.key : r \in R} \cup {key[w] : w \in P}
    PROVE  /\ IsFiniteSet(R) /\ Cardinality(R) \in Nat
           /\ IsFiniteSet(P) /\ Cardinality(P) \in Nat
           /\ Cardinality(P) <= Cardinality(Workers)
           /\ IsFiniteSet(C) /\ Cardinality(C) \in Nat
           /\ Cardinality(C) <= Cardinality(R) + Cardinality(P)
<1> DEFINE K == {r.key : r \in R}
           Q == {key[w] : w \in P}
<1>1. IsFiniteSet(R) /\ Cardinality(R) \in Nat
  BY RowFinite, FS_Subset, FS_CardinalityType
<1>2. /\ IsFiniteSet(P) /\ Cardinality(P) \in Nat
      /\ Cardinality(P) <= Cardinality(Workers)
  BY WorkersAssumption, FS_Subset, FS_CardinalityType
<1>3. IsFiniteSet(K) /\ Cardinality(K) \in Nat /\ Cardinality(K) <= Cardinality(R)
  <2> DEFINE f == [r \in R |-> r.key]
  <2>1. f \in [R -> K] /\ \A t \in K : \E x \in R : f[x] = t
    OBVIOUS
  <2> HIDE DEF f, K
  <2>2. QED
    BY <1>1, <2>1, ImageBound, FS_CardinalityType
<1>4. IsFiniteSet(Q) /\ Cardinality(Q) \in Nat /\ Cardinality(Q) <= Cardinality(P)
  <2> DEFINE f == [w \in P |-> key[w]]
  <2>1. f \in [P -> Q] /\ \A t \in Q : \E x \in P : f[x] = t
    OBVIOUS
  <2> HIDE DEF f, Q
  <2>2. QED
    BY <1>2, <2>1, ImageBound, FS_CardinalityType
<1>5. C = K \cup Q
  OBVIOUS
<1> HIDE DEF K, Q
<1>6. IsFiniteSet(K \cap Q) /\ Cardinality(K \cap Q) \in Nat
  BY <1>3, FS_Subset, FS_CardinalityType
<1>7. /\ IsFiniteSet(C)
      /\ Cardinality(C) = Cardinality(K) + Cardinality(Q) - Cardinality(K \cap Q)
  BY <1>3, <1>4, <1>5, FS_Union
<1>8. Cardinality(C) \in Nat
  BY <1>7, FS_CardinalityType
<1>9. QED
  BY <1>1, <1>2, <1>3, <1>4, <1>6, <1>7, <1>8

LEMMA Counts ==
    ASSUME TypeOK, NEW s \in Sections
    PROVE  /\ IsFiniteSet(rows[s]) /\ Cardinality(rows[s]) \in Nat
           /\ IsFiniteSet(Pending(s)) /\ Cardinality(Pending(s)) \in Nat
           /\ Cardinality(Pending(s)) <= Cardinality(Workers)
           /\ IsFiniteSet(Claims(s)) /\ Cardinality(Claims(s)) \in Nat
           /\ Cardinality(Claims(s)) <= Cardinality(rows[s]) + Cardinality(Pending(s))
<1> DEFINE key == [w \in Workers |-> req[w].key]
<1>1. rows[s] \in SUBSET Row /\ Pending(s) \in SUBSET Workers
  BY DEF TypeOK, Pending
<1>2. Claims(s) = {r.key : r \in rows[s]} \cup {key[w] : w \in Pending(s)}
  BY <1>1 DEF Claims, RowKeys, PendingKeys
<1> HIDE DEF key
<1>3. QED
  BY <1>1, <1>2, KeysCounted

LEMMA CountsNext ==
    ASSUME TypeOK', NEW s \in Sections
    PROVE  /\ IsFiniteSet(rows'[s]) /\ Cardinality(rows'[s]) \in Nat
           /\ IsFiniteSet(Pending(s)') /\ Cardinality(Pending(s)') \in Nat
           /\ Cardinality(Pending(s)') <= Cardinality(Workers)
           /\ IsFiniteSet(Claims(s)') /\ Cardinality(Claims(s)') \in Nat
           /\ Cardinality(Claims(s)') <= Cardinality(rows'[s]) + Cardinality(Pending(s)')
<1> DEFINE key == [w \in Workers |-> req'[w].key]
<1>1. rows'[s] \in SUBSET Row /\ Pending(s)' \in SUBSET Workers
  BY DEF TypeOK, Pending
<1>2. Claims(s)' = {r.key : r \in rows'[s]} \cup {key[w] : w \in Pending(s)'}
  BY <1>1 DEF Claims, RowKeys, PendingKeys
<1> HIDE DEF key
<1>3. QED
  BY <1>1, <1>2, KeysCounted

(* With unique keys there are no more rows than keys. *)
LEMMA RowsBounded ==
    ASSUME TypeOK, NEW s \in Limited, WithinBound(s)
    PROVE  Cardinality(rows[s]) <= Bound(s)
<1> USE DEF Limited
<1>1. CASE s = "educations"
  BY <1>1, Counts, BoundTyped DEF WithinBound
<1>2. CASE s # "educations"
  <2> DEFINE f == [r \in rows[s] |-> r.key]
  <2>1. f \in Injection(rows[s], Claims(s))
    BY <1>2 DEF Injection, IsInjective, Claims, RowKeys, WithinBound, UniqueKeys
  <2> HIDE DEF f
  <2>2. Cardinality(rows[s]) <= Cardinality(Claims(s))
    BY <2>1, Counts, FS_Injection
  <2>3. QED
    BY <1>2, <2>2, Counts, BoundTyped DEF WithinBound
<1>3. QED
  BY <1>1, <1>2

(* Fewer claims, or for educations fewer rows and requests, stay within. *)
LEMMA FewerClaims ==
    ASSUME TypeOK, TypeOK', NEW s \in Limited, WithinBound(s), s # "educations",
           UniqueKeys(s)', Claims(s)' \subseteq Claims(s)
    PROVE  WithinBound(s)'
<1>1. Cardinality(Claims(s)') <= Cardinality(Claims(s))
  BY Counts, FS_Subset DEF Limited
<1>2. QED
  BY <1>1, Counts, CountsNext, BoundTyped DEF WithinBound, Bound, Limited

LEMMA Shrink ==
    ASSUME TypeOK, TypeOK', NEW s \in Limited, WithinBound(s),
           rows'[s] \subseteq rows[s], Pending(s)' \subseteq Pending(s),
           \A u \in Pending(s)' : req'[u].key = req[u].key
    PROVE  WithinBound(s)'
<1>1. CASE s = "educations"
  <2>1. /\ Cardinality(rows'[s]) <= Cardinality(rows[s])
        /\ Cardinality(Pending(s)') <= Cardinality(Pending(s))
    BY Counts, FS_Subset DEF Limited
  <2>2. QED
    BY <1>1, <2>1, Counts, CountsNext, BoundTyped DEF WithinBound, Bound, Limited
<1>2. CASE s # "educations"
  <2>1. UniqueKeys(s)'
    BY <1>2 DEF WithinBound, UniqueKeys
  <2>2. Claims(s)' \subseteq Claims(s)
    BY DEF Claims, RowKeys, PendingKeys
  <2>3. QED
    BY <1>2, <2>1, <2>2, FewerClaims
<1>3. QED
  BY <1>1, <1>2

LEMMA LocatedElsewhere ==
    ASSUME LInv, TInv', NEW w \in Workers, \A u \in Workers \ {w} : req'[u] = req[u],
           Located(w)', \A s \in Limited : WithinBound(s)'
    PROVE  LInv'
<1>1. \A u \in Workers \ {w} : Located(u)'
  BY DEF LInv, Located, At
<1>2. QED
  BY <1>1 DEF LInv

(* A step of a request that claims nothing new. *)
LEMMA PassiveLInv ==
    ASSUME LInv, TInv', NEW w \in Workers, \A u \in Workers \ {w} : req'[u] = req[u],
           Located(w)',
           \A s \in Limited : /\ rows'[s] \subseteq rows[s]
                              /\ w \in Pending(s)' =>
                                    w \in Pending(s) /\ req'[w].key = req[w].key
    PROVE  LInv'
<1>1. ASSUME NEW s \in Limited
      PROVE  WithinBound(s)'
  <2>1. \A u \in Workers \ {w} : u \in Pending(s)' => u \in Pending(s)
    BY DEF Pending, At
  <2>2. /\ Pending(s)' \subseteq Pending(s)
        /\ \A u \in Pending(s)' : req'[u].key = req[u].key
    BY <2>1 DEF Pending
  <2>3. QED
    BY <2>2, Shrink DEF LInv, TInv
<1>2. QED
  BY <1>1, LocatedElsewhere

(* A step to where a request is not about to insert. *)
LEMMA AwayLInv ==
    ASSUME LInv, TInv', NEW w \in Workers, \A u \in Workers \ {w} : req'[u] = req[u],
           req'[w].pc \notin {"insert", "checkDuplicate", "checkOther", "checkExisting",
                              "change"},
           \A s \in Limited : rows'[s] \subseteq rows[s]
    PROVE  LInv'
<1>1. Located(w)'
  BY DEF Located, At
<1>2. \A s \in Limited : w \notin Pending(s)'
  BY DEF Pending, At
<1>3. QED
  BY <1>1, <1>2, PassiveLInv

LEMMA InitLInv == Init => LInv
<1> SUFFICES ASSUME Init PROVE LInv
  OBVIOUS
<1>1. TInv /\ \A w \in Workers : req[w].pc = "idle"
  BY InitTInv DEF Init, Idle
<1>2. ASSUME NEW s \in Limited
      PROVE  WithinBound(s)
  <2>1. s \in Sections /\ rows[s] = {} /\ Pending(s) = {} /\ Claims(s) = {}
    BY <1>1 DEF Init, Limited, Pending, Claims, RowKeys, PendingKeys, At
  <2>2. Bound(s) \in Nat
    BY BoundTyped
  <2>3. QED
    BY <2>1, <2>2, FS_EmptySet DEF WithinBound, UniqueKeys
<1>3. QED
  BY <1>1, <1>2 DEF LInv, Located, At

LEMMA ArriveLInv ==
    ASSUME LInv, TInv', NEW w \in Workers, Arrive(w)
    PROVE  LInv'
<1>0. req \in [Workers -> Request]
  BY DEF LInv, TInv, TypeOK
<1>1. ASSUME NEW r, Begin(w, r), UNCHANGED rows
      PROVE  req'[w] = r /\ \A u \in Workers \ {w} : req'[u] = req[u]
  BY <1>0, <1>1 DEF Begin
<1>2. CASE GetProfile(w)
  BY <1>1, <1>2, AwayLInv DEF GetProfile, Idle
<1>3. ASSUME NEW fill, NEW clear, NEW country, NEW city,
             UpdateRead(w, fill, clear, country, city)
      PROVE  LInv'
  <2> DEFINE r == [Idle EXCEPT !.pc = "updateWrite", !.fill = fill, !.clear = clear,
                      !.country = country,
                      !.city = IF Mismatch(country, city) THEN NONE ELSE city]
  <2>1. Begin(w, r) /\ UNCHANGED rows
    BY <1>3 DEF UpdateRead
  <2>2. r.pc = "updateWrite"
    BY DEF Idle
  <2> HIDE DEF r
  <2>3. QED
    BY <1>1, <2>1, <2>2, AwayLInv
<1>4. ASSUME NEW s \in Sections, NEW k, Add(w, s, k)
      PROVE  LInv'
  <2> DEFINE r == [Idle EXCEPT !.pc = FirstCheck(s), !.section = s, !.key = k]
  <2>0. Begin(w, r) /\ r.pc = FirstCheck(s) /\ r.section = s
    BY <1>4 DEF Add, Idle
  <2> HIDE DEF r
  <2>1. /\ req'[w].pc = FirstCheck(s) /\ req'[w].section = s
        /\ \A u \in Workers \ {w} : req'[u] = req[u]
    BY <1>1, <1>4, <2>0 DEF Add
  <2>2. Located(w)'
    BY <2>1 DEF Located, At, FirstCheck
  <2>3. \A t \in Limited : w \notin Pending(t)'
    BY <2>1 DEF Pending, At, FirstCheck, Limited
  <2>4. QED
    BY <1>4, <2>1, <2>2, <2>3, PassiveLInv DEF Add
<1>5. ASSUME NEW s, NEW i, NEW k, ChangeRead(w, s, i, k)
      PROVE  LInv'
  <2> DEFINE r == [Idle EXCEPT !.pc = IF k = NONE THEN "change" ELSE "checkOther",
                               !.section = s, !.id = i, !.key = k]
  <2>0. /\ Begin(w, r) /\ r.pc = (IF k = NONE THEN "change" ELSE "checkOther")
        /\ r.section = s /\ r.key = k
    BY <1>5 DEF ChangeRead, Idle
  <2> HIDE DEF r
  <2>1. /\ req'[w].pc = (IF k = NONE THEN "change" ELSE "checkOther")
        /\ req'[w].section = s /\ req'[w].key = k
        /\ \A u \in Workers \ {w} : req'[u] = req[u]
    BY <1>1, <1>5, <2>0 DEF ChangeRead
  <2>2. Located(w)'
    BY <1>5, <2>1 DEF Located, At, ChangeRead
  <2>3. \A t \in Limited : w \notin Pending(t)'
    BY <2>1 DEF Pending, At
  <2>4. QED
    BY <1>5, <2>1, <2>2, <2>3, PassiveLInv DEF ChangeRead
<1>6. ASSUME NEW s, NEW i, RemoveRead(w, s, i)
      PROVE  LInv'
  <2> DEFINE r == [Idle EXCEPT !.pc = "remove", !.section = s, !.id = i]
  <2>1. Begin(w, r) /\ r.pc = "remove" /\ UNCHANGED rows
    BY <1>6 DEF RemoveRead, Idle
  <2> HIDE DEF r
  <2>2. QED
    BY <1>1, <2>1, AwayLInv
<1>7. QED
  BY <1>2, <1>3, <1>4, <1>5, <1>6 DEF Arrive

LEMMA CheckLimitLInv ==
    ASSUME LInv, TInv', NEW w \in Workers, CheckLimit(w)
    PROVE  LInv'
<1>0. /\ req \in [Workers -> Request] /\ rows' = rows /\ At(w, "checkLimit")
      /\ req[w].section \in Sections /\ TypeOK /\ TypeOK'
  BY DEF LInv, TInv, TypeOK, Assigned, At, CheckLimit
<1>1. CASE Finish(w)
  <2>1. req'[w].pc = "idle" /\ \A u \in Workers \ {w} : req'[u] = req[u]
    BY <1>0, <1>1 DEF Finish, Idle
  <2>2. QED
    BY <1>0, <2>1, AwayLInv
<1>2. CASE req[w].section \in Preferences /\ Goto(w, "checkExisting")
  <2>1. /\ req'[w].pc = "checkExisting" /\ req'[w].section = req[w].section
        /\ \A u \in Workers \ {w} : req'[u] = req[u]
    BY <1>0, <1>2 DEF Goto, Request
  <2>2. Located(w)' /\ \A s \in Limited : w \notin Pending(s)'
    BY <1>2, <2>1 DEF Located, At, Pending
  <2>3. QED
    BY <1>0, <2>1, <2>2, PassiveLInv
<1>3. ASSUME NEW limit \in LimitsRead(req[w].section),
             ~LimitReached(req[w].section, limit),
             NEW pc \in {"checkDuplicate", "insert"}, Goto(w, pc)
      PROVE  LInv'
  <2>1. /\ req'[w].pc = pc /\ req'[w].section = req[w].section
        /\ \A u \in Workers \ {w} : req'[u] = req[u]
    BY <1>0, <1>3 DEF Goto, Request, PC
  <2>2. Located(w)'
    BY <1>3, <2>1 DEF Located, At
  <2>3. ASSUME NEW s \in Limited, s # req[w].section
        PROVE  WithinBound(s)'
    <3>1. Pending(s)' \subseteq Pending(s) /\ \A u \in Pending(s)' : req'[u] = req[u]
      BY <2>1, <2>3 DEF Pending, At
    <3>2. QED
      BY <1>0, <3>1, Shrink DEF LInv
  <2>4. ASSUME NEW s \in Limited, s = req[w].section
        PROVE  WithinBound(s)'
    <3>1. /\ Cardinality(rows[s]) <= HighestLimit(s) - 1
          /\ Cardinality(rows'[s]) = Cardinality(rows[s])
      BY <1>0, <1>3, <2>4, Counts, HighestRead DEF LimitReached
    <3>2. Cardinality(rows'[s]) + Cardinality(Pending(s)') <= Bound(s)'
      BY <1>0, <2>4, <3>1, Counts, CountsNext, BoundTyped DEF Bound
    <3>3. CASE s = "educations"
      BY <3>2, <3>3 DEF WithinBound
    <3>4. CASE s # "educations"
      <4>1. UniqueKeys(s)'
        BY <1>0, <3>4 DEF LInv, WithinBound, UniqueKeys
      <4>2. Cardinality(Claims(s)') <= Bound(s)'
        BY <1>0, <2>4, <3>2, CountsNext, BoundTyped DEF Bound
      <4>3. QED
        BY <3>4, <4>1, <4>2 DEF WithinBound
    <3>5. QED
      BY <3>3, <3>4
  <2>5. QED
    BY <2>1, <2>2, <2>3, <2>4, LocatedElsewhere
<1>4. QED
  BY <1>1, <1>2, <1>3 DEF CheckLimit

LEMMA CheckExistingLInv ==
    ASSUME LInv, TInv', NEW w \in Workers, CheckExisting(w)
    PROVE  LInv'
<1>0. /\ req \in [Workers -> Request] /\ rows' = rows /\ At(w, "checkExisting")
      /\ req[w].section \in Preferences /\ TypeOK /\ TypeOK'
  BY DEF LInv, TInv, TypeOK, Located, At, CheckExisting
<1>1. CASE Finish(w)
  <2>1. req'[w].pc = "idle" /\ \A u \in Workers \ {w} : req'[u] = req[u]
    BY <1>0, <1>1 DEF Finish, Idle
  <2>2. QED
    BY <1>0, <2>1, AwayLInv
<1>2. CASE HasKey(req[w].section, req[w].key) /\ Goto(w, "insert")
  <2>1. /\ req'[w].pc = "insert" /\ req'[w].section = req[w].section
        /\ req'[w].key = req[w].key
        /\ \A u \in Workers \ {w} : req'[u] = req[u]
    BY <1>0, <1>2 DEF Goto, Request
  <2>2. Located(w)'
    BY <2>1 DEF Located, At
  <2>3. ASSUME NEW s \in Limited, s # req[w].section
        PROVE  WithinBound(s)'
    <3>1. Pending(s)' \subseteq Pending(s) /\ \A u \in Pending(s)' : req'[u] = req[u]
      BY <2>1, <2>3 DEF Pending, At
    <3>2. QED
      BY <1>0, <3>1, Shrink DEF LInv
  <2>4. ASSUME NEW s \in Limited, s = req[w].section
        PROVE  WithinBound(s)'
    <3>1. s # "educations"
      BY <1>0, <2>4 DEF Preferences
    <3>2. UniqueKeys(s)'
      BY <1>0, <3>1 DEF LInv, WithinBound, UniqueKeys
    <3>3. req[w].key \in RowKeys(s)
      BY <1>2, <2>4 DEF HasKey, RowKeys
    <3>4. \A u \in Workers \ {w} : u \in Pending(s)' => u \in Pending(s)
      BY <2>1 DEF Pending, At
    <3>5. Claims(s)' \subseteq Claims(s)
      <4>1. RowKeys(s)' = RowKeys(s)
        BY <1>0 DEF RowKeys
      <4>2. ASSUME NEW u \in Pending(s)'
            PROVE  req'[u].key \in Claims(s)
        <5>1. u \in Workers
          BY DEF Pending
        <5>2. CASE u = w
          BY <2>1, <3>3, <5>2 DEF Claims
        <5>3. CASE u # w
          BY <2>1, <3>4, <5>1, <5>3 DEF Claims, PendingKeys
        <5>4. QED
          BY <5>2, <5>3
      <4>3. QED
        BY <4>1, <4>2 DEF Claims, PendingKeys
    <3>6. QED
      BY <1>0, <3>1, <3>2, <3>5, FewerClaims DEF LInv
  <2>5. QED
    BY <2>1, <2>2, <2>3, <2>4, LocatedElsewhere
<1>3. QED
  BY <1>1, <1>2 DEF CheckExisting

LEMMA InsertedLInv ==
    ASSUME LInv, TInv', NEW w \in Workers, At(w, "insert"), Inserted(w), Recalculate(w),
           ~HasKey(req[w].section, req[w].key)
    PROVE  LInv'
<1> DEFINE t == req[w].section
           k == req[w].key
<1>0. /\ req \in [Workers -> Request] /\ rows \in [Sections -> SUBSET Row]
      /\ t \in Sections /\ TypeOK /\ TypeOK'
  BY DEF LInv, TInv, TypeOK, Assigned, At
<1>1. PICK i \in Ids : rows' = [rows EXCEPT ![t] = @ \cup {[id |-> i, key |-> k]}]
  BY DEF Inserted
<1>2. /\ req'[w].pc = "recalcRead" /\ \A u \in Workers \ {w} : req'[u] = req[u]
  BY <1>0 DEF Recalculate, Idle
<1>3. ASSUME NEW s \in Limited
      PROVE  /\ Pending(s)' = Pending(s) \ {w}
             /\ \A u \in Pending(s)' : u \in Workers \ {w} /\ req'[u] = req[u]
  BY <1>2 DEF Pending, At
<1>4. Located(w)'
  BY <1>2 DEF Located, At
<1>5. ASSUME NEW s \in Limited, s # t
      PROVE  WithinBound(s)'
  <2>1. rows'[s] = rows[s]
    BY <1>0, <1>1, <1>5 DEF Limited
  <2>2. QED
    BY <1>0, <1>3, <2>1, Shrink DEF LInv
<1>6. ASSUME NEW s \in Limited, s = t
      PROVE  WithinBound(s)'
  <2> DEFINE new == [id |-> i, key |-> k]
  <2>1. rows'[s] = rows[s] \cup {new} /\ new.key = k
    BY <1>0, <1>1, <1>6
  <2> HIDE DEF new
  <2>2. w \in Pending(s)
    BY <1>6 DEF Pending
  <2>3. CASE s = "educations"
    <3>0. IsFiniteSet(rows[s]) /\ Cardinality(rows[s]) \in Nat
      BY <1>0, <1>6, Counts
    <3>1. Cardinality(rows'[s]) <= Cardinality(rows[s]) + 1
      <4> DEFINE R == rows[s]
      <4>1. Cardinality(R \cup {new}) = IF new \in R THEN Cardinality(R)
                                        ELSE Cardinality(R) + 1
        BY <3>0, FS_AddElement
      <4>2. rows'[s] = R \cup {new} /\ Cardinality(R) \in Nat
        BY <2>1, <3>0
      <4> HIDE DEF R
      <4>3. Cardinality(rows'[s]) <= Cardinality(R) + 1
        BY <4>1, <4>2
      <4>4. QED
        BY <4>3 DEF R
    <3>2. Cardinality(Pending(s)') = Cardinality(Pending(s)) - 1
      BY <1>0, <1>3, <1>6, <2>2, Counts, FS_RemoveElement
    <3>3. Cardinality(rows[s]) + Cardinality(Pending(s)) <= Bound(s)
      BY <2>3 DEF LInv, WithinBound
    <3>4. Cardinality(rows'[s]) + Cardinality(Pending(s)') <= Bound(s)'
      BY <1>0, <1>6, <3>1, <3>2, <3>3, Counts, CountsNext, BoundTyped DEF Bound
    <3>5. QED
      BY <2>3, <3>4 DEF WithinBound
  <2>4. CASE s # "educations"
    <3>1. UniqueKeys(s)'
      BY <1>6, <2>1, <2>4 DEF LInv, WithinBound, UniqueKeys, HasKey
    <3>2. RowKeys(s)' = RowKeys(s) \cup {k}
      BY <2>1 DEF RowKeys
    <3>3. k \in PendingKeys(s)
      BY <2>2 DEF PendingKeys
    <3>4. PendingKeys(s)' \subseteq PendingKeys(s)
      BY <1>3 DEF PendingKeys
    <3>5. Claims(s)' \subseteq Claims(s)
      BY <3>2, <3>3, <3>4 DEF Claims
    <3>6. QED
      BY <1>0, <2>4, <3>1, <3>5, FewerClaims DEF LInv
  <2>5. QED
    BY <2>3, <2>4
<1> HIDE DEF t, k
<1>7. QED
  BY <1>2, <1>4, <1>5, <1>6, LocatedElsewhere

LEMMA ChangeLInv ==
    ASSUME LInv, TInv', NEW w \in Workers, Change(w)
    PROVE  LInv'
<1> DEFINE t == req[w].section
           k == req[w].key
           i == req[w].id
           image(x) == IF x.id = i THEN Changed(x, k) ELSE x
<1>0. /\ req \in [Workers -> Request] /\ rows \in [Sections -> SUBSET Row]
      /\ t \in Sections /\ TypeOK /\ TypeOK' /\ At(w, "change")
      /\ (t # "educations" => k = NONE)
  BY DEF LInv, TInv, TypeOK, Assigned, At, Change, Located
<1>1. CASE UNCHANGED rows /\ Finish(w)
  <2>1. req'[w].pc = "idle" /\ \A u \in Workers \ {w} : req'[u] = req[u]
    BY <1>0, <1>1 DEF Finish, Idle
  <2>2. QED
    BY <1>1, <2>1, AwayLInv
<1>2. CASE rows' = [rows EXCEPT ![t] = {image(x) : x \in @}] /\ Recalculate(w)
  <2>1. req'[w].pc = "recalcRead" /\ \A u \in Workers \ {w} : req'[u] = req[u]
    BY <1>0, <1>2 DEF Recalculate, Idle
  <2>2. rows'[t] = {image(x) : x \in rows[t]}
    BY <1>0, <1>2
  <2>3. Located(w)'
    BY <2>1 DEF Located, At
  <2>4. ASSUME NEW s \in Limited
        PROVE  /\ Pending(s)' = Pending(s)
               /\ \A u \in Pending(s)' : req'[u] = req[u]
    BY <1>0, <2>1 DEF Pending, At
  <2>5. ASSUME NEW s \in Limited, s # "educations" \/ s # t
        PROVE  rows'[s] = rows[s]
    <3>1. CASE s # t
      BY <1>0, <1>2, <3>1 DEF Limited
    <3>2. CASE s = t
      BY <1>0, <2>2, <2>5, <3>2 DEF Changed
    <3>3. QED
      BY <3>1, <3>2
  <2>6. ASSUME NEW s \in Limited, s # "educations" \/ s # t
        PROVE  WithinBound(s)'
    BY <1>0, <2>4, <2>5, <2>6, Shrink DEF LInv
  <2>7. ASSUME NEW s \in Limited, s = "educations", s = t
        PROVE  WithinBound(s)'
    <3> DEFINE f == [x \in rows[s] |-> image(x)]
    <3>1. /\ f \in [rows[s] -> rows'[s]]
          /\ \A y \in rows'[s] : \E x \in rows[s] : f[x] = y
      BY <2>2, <2>7
    <3> HIDE DEF f
    <3>2. Cardinality(rows'[s]) <= Cardinality(rows[s])
      BY <1>0, <2>7, <3>1, Counts, ImageBound
    <3>3. Cardinality(rows[s]) + Cardinality(Pending(s)) <= Bound(s)
      BY <2>7 DEF LInv, WithinBound
    <3>4. Cardinality(rows'[s]) + Cardinality(Pending(s)') <= Bound(s)'
      BY <1>0, <2>4, <2>7, <3>2, <3>3, Counts, CountsNext, BoundTyped DEF Bound
    <3>5. QED
      BY <2>7, <3>4 DEF WithinBound
  <2>8. QED
    BY <2>1, <2>3, <2>6, <2>7, LocatedElsewhere
<1>3. QED
  BY <1>1, <1>2 DEF Change

LEMMA StepLInv ==
    ASSUME LInv, TInv', [Next]_vars
    PROVE  LInv'
<1>0. /\ req \in [Workers -> Request] /\ rows \in [Sections -> SUBSET Row]
  BY DEF LInv, TInv, TypeOK
<1>1. CASE UNCHANGED vars
  BY <1>1 DEF vars, LInv, TInv, Located, At, WithinBound, Pending, UniqueKeys, Claims,
              RowKeys, PendingKeys, Bound
<1>2. ASSUME NEW w \in Workers, Continue(w) \/ Fault(w)
      PROVE  LInv'
  <2>1. /\ Finish(w) => /\ req'[w].pc = "idle"
                        /\ \A u \in Workers \ {w} : req'[u] = req[u]
        /\ Recalculate(w) => /\ req'[w].pc = "recalcRead"
                             /\ \A u \in Workers \ {w} : req'[u] = req[u]
    BY <1>0 DEF Finish, Recalculate, Idle
  <2>2. ASSUME Finish(w) \/ Recalculate(w), \A s \in Limited : rows'[s] \subseteq rows[s]
        PROVE  LInv'
    BY <2>1, <2>2, AwayLInv
  <2>3. CASE CreateProfile(w) \/ UpdateWrite(w) \/ RecalcWrite(w) \/ Fault(w)
    BY <2>2, <2>3 DEF CreateProfile, UpdateWrite, RecalcWrite, Fault
  <2>4. CASE CheckDuplicate(w)
    <3>1. CASE Finish(w)
      BY <2>2, <2>4, <3>1 DEF CheckDuplicate
    <3>2. ASSUME NEW pc \in PC, Goto(w, pc),
                 pc = IF req[w].section = "educations" THEN "checkLimit" ELSE "insert"
          PROVE  LInv'
      <4>1. /\ req'[w].pc = pc /\ req'[w].section = req[w].section
            /\ req'[w].key = req[w].key
            /\ \A u \in Workers \ {w} : req'[u] = req[u]
        BY <1>0, <3>2 DEF Goto, Request
      <4>2. Located(w)'
        BY <3>2, <4>1 DEF Located, At
      <4>3. \A s \in Limited : w \in Pending(s)' => w \in Pending(s)
        BY <2>4, <3>2, <4>1 DEF Pending, At, CheckDuplicate
      <4>4. QED
        BY <2>4, <4>1, <4>2, <4>3, PassiveLInv DEF CheckDuplicate
    <3>3. QED
      BY <2>4, <3>1, <3>2 DEF CheckDuplicate, PC
  <2>5. CASE Insert(w)
    <3>1. CASE UNCHANGED rows
      BY <2>2, <2>5, <3>1 DEF Insert
    <3>2. CASE Inserted(w) /\ Recalculate(w) /\ ~HasKey(req[w].section, req[w].key)
      BY <2>5, <3>2, InsertedLInv DEF Insert
    <3>3. QED
      BY <2>5, <3>1, <3>2 DEF Insert
  <2>6. CASE CheckOther(w)
    <3>1. CASE Finish(w)
      BY <2>2, <2>6, <3>1 DEF CheckOther
    <3>2. CASE Goto(w, "change")
      <4>1. /\ req'[w].pc = "change" /\ req'[w].section = req[w].section
            /\ \A u \in Workers \ {w} : req'[u] = req[u]
        BY <1>0, <3>2 DEF Goto, Request
      <4>2. Located(w)' /\ \A s \in Limited : w \notin Pending(s)'
        BY <2>6, <4>1 DEF LInv, Located, At, Pending, CheckOther
      <4>3. QED
        BY <2>6, <4>1, <4>2, PassiveLInv DEF CheckOther
    <3>3. QED
      BY <2>6, <3>1, <3>2 DEF CheckOther
  <2>7. CASE Remove(w)
    <3>1. \A s \in Limited : rows'[s] \subseteq rows[s]
      BY <1>0, <2>7 DEF Remove, Limited
    <3>2. QED
      BY <2>2, <2>7, <3>1 DEF Remove
  <2>8. CASE RecalcRead(w) \/ RecalcWeights(w) \/ RecalcThreshold(w)
    <3>1. /\ req'[w].pc \in {"recalcWeights", "recalcThreshold", "recalcWrite", "idle"}
          /\ \A u \in Workers \ {w} : req'[u] = req[u]
      BY <1>0, <2>1, <2>8 DEF RecalcRead, RecalcWeights, RecalcThreshold, Request
    <3>2. QED
      BY <2>8, <3>1, AwayLInv DEF RecalcRead, RecalcWeights, RecalcThreshold
  <2>9. QED
    BY <1>2, <2>3, <2>4, <2>5, <2>6, <2>7, <2>8, CheckLimitLInv, CheckExistingLInv,
       ChangeLInv DEF Continue
<1>3. QED
  BY <1>1, <1>2, ArriveLInv DEF Next

(* A section exceeds its limit by at most one row for each other request in  *)
(* flight: each create, and each addDegree, addMajor and addInstitution,     *)
(* counts the rows before it inserts its own, and never with it.           *)
THEOREM LimitOvershoot == Spec => []LimitOvershootBounded
<1>1. LInv => LimitOvershootBounded
  <2>1. ASSUME LInv, NEW s \in Sections \ {"specialStatuses"}
        PROVE  Cardinality(rows[s]) <= HighestLimit(s) + Cardinality(Workers) - 1
    BY <2>1, RowsBounded DEF LInv, TInv, Limited, Bound
  <2>2. QED
    BY <2>1 DEF LimitOvershootBounded
<1>2. TInv /\ [Next]_vars => TInv'
  BY StepTInv
<1>3. LInv /\ TInv' /\ [Next]_vars => LInv'
  BY StepLInv
<1>4. QED
  BY <1>1, <1>2, <1>3, InitTInv, InitLInv, PTL DEF Spec
=============================================================================
