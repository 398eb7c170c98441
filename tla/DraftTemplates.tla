--------------------------- MODULE DraftTemplates ---------------------------
(***************************************************************************)
(* DraftTemplatesService: templates of drafts, of which the default ones    *)
(* are offered to everybody, and the workspaces they may be kept in.        *)
(*                                                                         *)
(* A worker is one request in flight, each action one statement.  Spaces    *)
(* are opened and closed here in one step (DraftTree has the detail), and   *)
(* an account is removed by an administrator while its access token lives   *)
(* on: who asks is taken from the token, not from the database.            *)
(***************************************************************************)
EXTENDS FiniteSets

CONSTANTS
    People, Admins,       \* users, and those whose token says admin or system_admin
    Desks,                \* identifiers of draft_spaces
    Templates,            \* identifiers of draft_templates
    TemplateWorkers,      \* requests in flight at the same time
    VOID                  \* null

ASSUME AdminsAssumption == Admins \subseteq People
ASSUME NullAssumption == VOID \notin People \cup Desks \cup Templates

VARIABLES
    accounts,    \* users who have an account
    desks,       \* draft_spaces: owner, by identifier
    templates,   \* draft_templates
    makers,      \* history: whose request made each template
    errand       \* the locals of each request in flight

templateVars == <<accounts, desks, templates, makers, errand>>

DeskRow == [row : {"unborn", "live", "gone"}, owner : {VOID} \cup People]
TemplateRow == [row : {"unborn", "live", "gone"}, isDefault : BOOLEAN,
                space : {VOID} \cup Desks, creator : {VOID} \cup People]
Errand == [pc : {"idle", "space", "insert", "delete"}, user : {VOID} \cup People,
           space : {VOID} \cup Desks, isDefault : BOOLEAN, template : {VOID} \cup Templates]
Still == [pc |-> "idle", user |-> VOID, space |-> VOID, isDefault |-> FALSE, template |-> VOID]

DeskLive(s) == desks[s].row = "live"
Stored(t) == templates[t].row = "live"
Stands(w, pc) == errand[w].pc = pc
Sets(w, r) == errand' = [errand EXCEPT ![w] = r]
Leaves(w) == Sets(w, Still)

TemplatesInit ==
    /\ accounts = People
    /\ desks = [s \in Desks |-> [row |-> "unborn", owner |-> VOID]]
    /\ templates = [t \in Templates |-> [row |-> "unborn", isDefault |-> FALSE,
                                        space |-> VOID, creator |-> VOID]]
    /\ makers = [t \in Templates |-> VOID]
    /\ errand = [w \in TemplateWorkers |-> Still]

-----------------------------------------------------------------------------
(* findAll and findById: the default ones, and one's own.                  *)

Offered(u, t) == Stored(t) /\ (templates[t].isDefault \/ templates[t].creator = u)

(* create: only an administrator makes a default; the space is looked up    *)
(* when one is named.                                                      *)
CreateTemplate(w, u, s, wanted) ==
    /\ Stands(w, "idle")
    /\ Sets(w, [Still EXCEPT !.pc = IF s = VOID THEN "insert" ELSE "space",
                             !.user = u, !.space = s, !.isDefault = wanted /\ u \in Admins])
    /\ UNCHANGED <<accounts, desks, templates, makers>>

(* Mutant: the space is looked up by its id alone. *)
FindSpaceAnyones(w) ==
    /\ Stands(w, "space")
    /\ IF DeskLive(errand[w].space) THEN Sets(w, [errand[w] EXCEPT !.pc = "insert"])
       ELSE Leaves(w)
    /\ UNCHANGED <<accounts, desks, templates, makers>>

FindSpace(w) ==
    LET s == errand[w].space IN
    /\ Stands(w, "space")
    /\ IF DeskLive(s) /\ desks[s].owner = errand[w].user
       THEN Sets(w, [errand[w] EXCEPT !.pc = "insert"])
       ELSE Leaves(w)                             \* FORBIDDEN_WORKSPACE
    /\ UNCHANGED <<accounts, desks, templates, makers>>

(* P2003 when the space or the account went meanwhile *)
InsertTemplate(w) ==
    LET r == errand[w] IN
    /\ Stands(w, "insert")
    /\ IF r.user \in accounts /\ (r.space # VOID => DeskLive(r.space))
       THEN \E t \in Templates :
               /\ templates[t].row = "unborn"
               /\ templates' = [templates EXCEPT ![t] =
                      [row |-> "live", isDefault |-> r.isDefault, space |-> r.space,
                       creator |-> r.user]]
               /\ makers' = [makers EXCEPT ![t] = r.user]
       ELSE UNCHANGED <<templates, makers>>
    /\ Leaves(w)
    /\ UNCHANGED <<accounts, desks>>

(* delete: TEMPLATE_NOT_FOUND unless offered, refused unless one's own *)
FindTemplate(w, u, t) ==
    /\ Stands(w, "idle") /\ Offered(u, t) /\ templates[t].creator = u
    /\ Sets(w, [Still EXCEPT !.pc = "delete", !.user = u, !.template = t])
    /\ UNCHANGED <<accounts, desks, templates, makers>>

RemoveTemplate(w) ==
    LET t == errand[w].template IN
    /\ Stands(w, "delete")
    /\ templates' = IF Stored(t) THEN [templates EXCEPT ![t].row = "gone"]
                    ELSE templates                \* P2025
    /\ Leaves(w)
    /\ UNCHANGED <<accounts, desks, makers>>

-----------------------------------------------------------------------------
(* Around the service.                                                     *)

OpenDesk(u, s) ==
    /\ u \in accounts /\ desks[s].row = "unborn"
    /\ desks' = [desks EXCEPT ![s] = [row |-> "live", owner |-> u]]
    /\ UNCHANGED <<accounts, templates, makers, errand>>

(* The templates kept in a space go with it, default ones too. *)
Without(gone) ==
    [t \in Templates |-> IF Stored(t) /\ templates[t].space \in gone
                         THEN [templates[t] EXCEPT !.row = "gone"] ELSE templates[t]]

CloseDesk(s) ==
    /\ DeskLive(s)
    /\ desks' = [desks EXCEPT ![s].row = "gone"]
    /\ templates' = Without({s})
    /\ UNCHANGED <<accounts, makers, errand>>

(* The spaces of the user cascade; templates kept in none lose their creator.*)
RemoveAccount(u) ==
    LET owned == {s \in Desks : DeskLive(s) /\ desks[s].owner = u} IN
    /\ u \in accounts
    /\ accounts' = accounts \ {u}
    /\ desks' = [s \in Desks |-> IF s \in owned THEN [desks[s] EXCEPT !.row = "gone"] ELSE desks[s]]
    /\ templates' = [t \in Templates |->
           IF Without(owned)[t].creator = u THEN [Without(owned)[t] EXCEPT !.creator = VOID]
           ELSE Without(owned)[t]]
    /\ UNCHANGED <<makers, errand>>

TemplatesNext ==
    \/ \E w \in TemplateWorkers :
          \/ \E u \in People, s \in {VOID} \cup Desks, wanted \in BOOLEAN :
                (\E t \in Templates : templates[t].row = "unborn") /\ CreateTemplate(w, u, s, wanted)
          \/ \E u \in People, t \in Templates : FindTemplate(w, u, t)
          \/ FindSpace(w) \/ InsertTemplate(w) \/ RemoveTemplate(w)
    \/ \E u \in People : RemoveAccount(u) \/ \E s \in Desks : OpenDesk(u, s)
    \/ \E s \in Desks : CloseDesk(s)

TemplatesSpec == TemplatesInit /\ [][TemplatesNext]_templateVars

-----------------------------------------------------------------------------
(* Properties.                                                             *)

(* Types of the variables. *)
TemplatesTypeOK ==
    /\ accounts \subseteq People
    /\ desks \in [Desks -> DeskRow]
    /\ templates \in [Templates -> TemplateRow]
    /\ makers \in [Templates -> {VOID} \cup People]
    /\ errand \in [TemplateWorkers -> Errand]

(* A template is kept in a space of its creator or in none, whatever spaces *)
(* and accounts are removed while it is made; what others are offered was   *)
(* made by an administrator; and one that is nobody's any more, neither     *)
(* offered nor anybody's to delete, was made by an account that is gone.    *)
TemplatesAtHome ==
    \A t \in Templates : Stored(t) =>
        LET template == templates[t]
        IN /\ template.space # VOID =>
                 /\ DeskLive(template.space)
                 /\ desks[template.space].owner = template.creator
           /\ \A u \in People : Offered(u, t) => u = makers[t] \/ makers[t] \in Admins
           /\ (\A u \in People : ~Offered(u, t)) => makers[t] \notin accounts
=============================================================================
