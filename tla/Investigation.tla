--------------------------- MODULE Investigation ---------------------------
(***************************************************************************)
(* PermissionInvestigator.investigate and AccessDiagnoser.diagnose next to *)
(* the tools of IdentityTools: one call that resolves the person a prompt  *)
(* speaks of, collects the groups and the policy statements in one request *)
(* after another while others change the directory, and concludes.         *)
(*                                                                         *)
(* selector is the hint that was read off the prompt, reported the names   *)
(* of the groups; the name of a group is the one statements refer to it by *)
(***************************************************************************)
EXTENDS IdentityTools

CONSTANTS
  PartOf,     \* pairs of names: the first is part of the second
  PageMax,    \* users or groups on the one page that is read (200)
  Statements  \* of the policies: groups, action, words, conditional

ASSUME PageAssumption == PageMax \in Nat

VARIABLES
  listed,     \* users, as they were listed
  staff,      \* hr_candidates
  reported,   \* groups
  matched,    \* matched_policy_statements
  findings    \* cause_category of each finding of a diagnosis

found == <<listed, staff, reported, matched, findings>>
vars  == <<idVars, found>>

Categories == {"group_mismatch", "constraint_block", "permission_scope", "missing_policy"}

Init ==
  /\ IdInit
  /\ listed = {} /\ staff = {} /\ reported = {} /\ matched = {} /\ findings = {}

-----------------------------------------------------------------------------
(*************************** who is meant **********************************)
IsPart(part, whole) == part = whole \/ <<part, whole>> \in PartOf

(* _score_oci_user.                                                        *)
Score(u) ==
  LET hint == selector
      Points(field, fits, n) == IF Has(hint, {field}) /\ fits THEN n ELSE 0 IN
    Points("user_name", u.user_name = hint["user_name"], 80)
  + Points("email", hint["email"] \in {u.email, u.user_name}, 80)
  + Points("name", IsPart(hint["name"], u.name), 40)
  + Points("family_name_kanji", IsPart(hint["family_name_kanji"], u.name), 30)
  + Points("given_name_kanji", IsPart(hint["given_name_kanji"], u.name), 20)

Scored(us) == {u \in us : Score(u) > 0}

BestOf(us) == {u \in us : \A v \in us : Score(v) <= Score(u)}

FirstOfBest(us) == IF Scored(us) = {} THEN {} ELSE {CHOOSE u \in us : u \in BestOf(us)}

(* The candidates resolve_user_with_hr is left with: the best of those who *)
(* fit in something.                                                       *)
Candidates(us) == IF Scored(us) = {} THEN {} ELSE BestOf(us)

AccountsOf(us, e) ==
  {u \in us : e["email"] # Unresolved /\ e["email"] \in {u.user_name, u.email}}

GoOn(id) == user' = id /\ Continue("get_user")

(* resolve_user_with_hr and, for someone only HR knows, the account with   *)
(* that address among those listed; else one is searched for.              *)
Resolve(us, employees) ==
  CASE Cardinality(Candidates(us)) = 1 -> GoOn(IdOf(Candidates(us)))
    [] Cardinality(Candidates(us)) > 1 -> Return(Confirm) /\ UNCHANGED user
    [] Candidates(us) = {} /\ Cardinality(employees) = 1 ->
         LET accounts == AccountsOf(us, CHOOSE e \in employees : TRUE) IN
         IF accounts = {} THEN Continue("fallback") /\ UNCHANGED user
         ELSE \E u \in accounts : GoOn(u.id)
    [] Candidates(us) = {} /\ Cardinality(employees) > 1 ->
         Return(Confirm) /\ UNCHANGED user
    [] Candidates(us) = {} /\ employees = {} ->
         Return(Error) /\ UNCHANGED user

-----------------------------------------------------------------------------
(**************************** the requests *********************************)
Investigating == call.op \in {"investigate", "diagnose"}

(* A diagnosis needs user, resource and action, an investigation a hint.   *)
Ask ==
  /\ place = "start" /\ Investigating
  /\ selector' = call.selector
  /\ IF DOMAIN call.selector = {} \/ (call.op = "diagnose" /\ ~call.complete)
     THEN Return(Confirm) ELSE Continue("list_users")
  /\ UNCHANGED <<domain, call, query, user, group, meant, written, found>>

ListUsers ==
  /\ place = "list_users"
  /\ \E page \in Pages(users, Everyone, PageMax) :
       /\ listed' = page
       /\ IF Conditions(selector) # << >>
          THEN Continue("hr_candidates") /\ UNCHANGED user
          ELSE Resolve(page, {})
  /\ UNCHANGED <<domain, call, selector, query, group, meant, written>>
  /\ UNCHANGED <<staff, reported, matched, findings>>

(* An HR database that cannot be asked has nobody to offer.                *)
QueryHr ==
  /\ place = "hr_candidates"
  /\ \E employees \in {{}, EmployeesWith(Conditions(selector))} :
       staff' = employees /\ Resolve(listed, employees)
  /\ UNCHANGED <<domain, call, selector, query, group, meant, written>>
  /\ UNCHANGED <<listed, reported, matched, findings>>

(* Groups of the account, which the identity domain may leave out.  Only   *)
(* when there are none is the list of all groups searched.                 *)
GroupsOf(id) == {g.name : g \in {h \in Groups : <<h.id, id>> \in members}}

Loaded(id) ==
  \E groups \in {{}, GroupsOf(id)} :
    /\ reported' = groups
    /\ Continue(IF groups = {} THEN "list_groups" ELSE "list_policies")

(* _build_fallback_user_selector: the address of the employee, else what    *)
(* the prompt and HR say of them, with a display name made of the kanji    *)
(* names HR has, or of the others, unless the prompt gives one.            *)
RomanName(s) == NameIn(s, "family_name", "given_name")

FallbackSelector(hint, e) ==
  LET record == OnRecord(e, HrFields)
      said   == OnRecord(hint, DOMAIN hint \intersect (HrFields \union {"name", "user_name"}))
      known  == Filled(Filled(AddressOf(e), said), record) IN
  CASE Has(known, {"name"}) -> known
    [] ~Has(known, {"name"}) /\ Has(record, {"family_name_kanji"}) ->
         Filled(known, [name |-> KanjiName(record)])
    [] ~Has(known, {"name"}) /\ ~Has(record, {"family_name_kanji"})
         /\ Has(record, {"family_name"}) -> Filled(known, [name |-> RomanName(record)])
    [] ~Has(known, {"name"}) /\ ~Has(record, {"family_name_kanji", "family_name"}) -> known

(* The account of an employee for whom HR has no address: it bears the     *)
(* user name or the display name the prompt gives, else the name HR has in *)
(* kanji, else the other; whoever HR has no name for may be anybody.       *)
IsNamed(u, hint, e) ==
  LET said   == Given(hint)
      record == OnRecord(e, HrFields) IN
  IF Has(said, {"user_name"}) THEN u.user_name = said["user_name"]
  ELSE IF Has(said, {"name"}) THEN u.name = said["name"]
  ELSE IF Has(record, {"family_name_kanji"}) THEN u.name = KanjiName(record)
  ELSE Has(record, {"family_name"}) => u.name = RomanName(record)

(* Whom get_user asks HR for, and by what it then looks in the domain.     *)
InHr(s) == IF EnrichQuery(s) = << >> THEN {} ELSE EmployeesWith(EnrichQuery(s))

Sought(s) == IF InHr(s) = {} THEN s ELSE Enriched(s, CHOOSE e \in InHr(s) : TRUE)

(* get_user for the employee: the account may have been on no page, or be  *)
(* new.                                                                    *)
Fallback ==
  /\ place = "fallback"
  /\ LET e == CHOOSE e \in staff : TRUE
         s == FallbackSelector(selector, e) IN
     /\ meant' = {u \in users : IsNamed(u, selector, e)}
     /\ \E page \in Lookup(users, Sought(s)) :
          LET accounts == Resolved(page, Sought(s)) IN
          IF Cardinality(InHr(s)) <= 1 /\ Cardinality(accounts) = 1
          THEN user' = IdOf(accounts) /\ Loaded(IdOf(accounts))
          ELSE Return(Confirm) /\ UNCHANGED <<user, reported>>
  /\ UNCHANGED <<domain, call, selector, query, group, written>>
  /\ UNCHANGED <<listed, staff, matched, findings>>

FallbackFails ==
  /\ place = "fallback"
  /\ Return(Confirm)
  /\ UNCHANGED <<domain, call, work, found>>

GetUser ==
  /\ place = "get_user"
  /\ \E u \in users : u.id = user
  /\ Loaded(user)
  /\ UNCHANGED <<domain, call, work, listed, staff, matched, findings>>

AnyGroupsOn(page, id) == {g.name : g \in {h \in page : \E m \in members : m[1] = h.id}}

(* _extract_groups_from_memberships.                                       *)
GroupsOn(page, id) == {g.name : g \in {h \in page : <<h.id, id>> \in members}}

ListGroups ==
  /\ place = "list_groups"
  /\ \/ \E page \in Pages(Groups, Everyone, PageMax) : reported' = GroupsOn(page, user)
     \/ UNCHANGED reported
  /\ Continue("list_policies")
  /\ UNCHANGED <<domain, call, work, listed, staff, matched, findings>>

MatchAll(groups) == Statements

(* _match_policies: the statements that refer to one of the groups.        *)
MatchPolicies(groups) == {s \in Statements : s.groups \intersect groups # {}}

ListPolicies ==
  /\ place = "list_policies"
  /\ matched' = MatchPolicies(reported)
  /\ Continue("login")
  /\ UNCHANGED <<domain, call, work, listed, staff, reported, findings>>

(* A request that is not answered ends the investigation.                  *)
RequestFails ==
  /\ place \in {"list_users", "get_user", "list_policies"}
  /\ Return(Error)
  /\ UNCHANGED <<domain, call, work, found>>

(* _analyze_root_causes: the action is looked for in the statements' text. *)
Findings ==
  LET mentioning == {s \in matched : call.action \in s.words} IN
  {c \in Categories :
    \/ c = "group_mismatch"   /\ reported = {}
    \/ c = "missing_policy"   /\ mentioning = {}
    \/ c = "constraint_block" /\ \E s \in mentioning : s.conditional
    \/ c = "permission_scope" /\ mentioning # {} /\ \A s \in mentioning : ~s.conditional}

(* The last login is reported if it can be read; then the answer is built. *)
Conclude ==
  /\ place = "login"
  /\ findings' = IF call.op = "diagnose" THEN Findings ELSE {}
  /\ Return(Answer("success", user))
  /\ UNCHANGED <<domain, call, work, listed, staff, reported, matched>>

-----------------------------------------------------------------------------
Investigate ==
  \/ Ask \/ ListUsers \/ QueryHr \/ Fallback \/ FallbackFails
  \/ GetUser \/ ListGroups \/ ListPolicies \/ RequestFails \/ Conclude

Next ==
  \/ ToolNext /\ UNCHANGED found
  \/ Others /\ UNCHANGED found
  \/ Investigate

Spec == Init /\ [][Next]_vars

-----------------------------------------------------------------------------
Ids == {u.id : u \in Accounts \union Joiners} \union {"created"}

(* The values the variables range over; what is changed was found first.   *)
TypeOK ==
  /\ {u.id : u \in users} \subseteq Ids
  /\ members \subseteq {g.id : g \in Groups} \X Ids
  /\ changes \in 0..MaxChanges
  /\ kept \subseteq members /\ members \subseteq held
  /\ call \in Calls
  /\ user \in Ids \union {None}
  /\ group \in {g.id : g \in Groups} \union {None}
  /\ answer.status \in {"none", "success", "needs_confirmation", "error"}
  /\ place = "done" <=> answer.status # "none"
  /\ place \in {"group", "patch", "get_user", "list_groups", "login"} => user # None
  /\ place = "patch" => group # None
  /\ reported \subseteq {g.name : g \in Groups}
  /\ matched \subseteq Statements
  /\ findings \subseteq Categories

Reported == Investigating /\ answer.status = "success"

(* The one whose permissions are reported fits the prompt better than      *)
(* anybody else who was listed, or is the account of the only employee who *)
(* fits it in everything: the one with that employee's address or, when HR *)
(* has none, the only one of that name when it was looked for.  Nobody is  *)
(* picked among equals, or taken for a person HR knows several of.         *)
FitsThePrompt ==
  Reported =>
    \/ \E u \in Scored(listed) : u.id = user /\ \A v \in listed \ {u} : Score(v) < Score(u)
    \/ /\ Scored(listed) = {}
       /\ \E e \in Employees :
            /\ EmployeesWith(Conditions(selector)) = {e}
            /\ IF e["email"] # Unresolved
               THEN \E u \in AccountsOf(Accounts \union Joiners, e) : u.id = user
               ELSE {u.id : u \in meant} = {user}

(* Every group that is reported was the user's at some moment of the       *)
(* investigation, though users, groups and memberships are read apart and  *)
(* change meanwhile; and if any are reported, those the user never left    *)
(* are, unless there are more groups than fit on the page.                 *)
GroupsWereHeld ==
  Reported =>
    /\ \A n \in reported : \E g \in Groups : g.name = n /\ <<g.id, user>> \in held
    /\ reported # {} /\ Cardinality(Groups) <= PageMax =>
         \A g \in Groups : <<g.id, user>> \in kept => g.name \in reported

(* A diagnosis that supposes a grant has one to show: a statement that     *)
(* speaks of the action, for a group the user was in during the            *)
(* investigation; and it never calls the policy missing as well.           *)
SupposedGrantExists ==
  Reported /\ findings \intersect {"constraint_block", "permission_scope"} # {} =>
    /\ "missing_policy" \notin findings
    /\ \E s \in Statements, g \in Groups :
         call.action \in s.words /\ g.name \in s.groups /\ <<g.id, user>> \in held

(* What a confirmed missing policy says: that no statement for the groups  *)
(* of the user covers the action.  The texts of the investigator describe  *)
(* manage as creating, updating and deleting.                              *)
MissingPolicyMeansNoGrant ==
  "missing_policy" \in findings /\ call.action \in {"create", "update", "delete"} =>
    \A s \in matched : s.action # "manage"

=============================================================================
