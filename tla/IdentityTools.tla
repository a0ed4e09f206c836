--------------------------- MODULE IdentityTools ---------------------------
(***************************************************************************)
(* IdentityDomainTools: one call of get_user, create_user,                 *)
(* add_user_to_group, remove_user_from_group or get_last_successful_login  *)
(* over an identity domain that others change while it runs, and the HR    *)
(* database it looks people up in.  Every request is a step of its own.    *)
(*                                                                         *)
(* A payload or a selector is a function from the fields that are given;   *)
(* values are taken without regard to case, as both services compare them. *)
(***************************************************************************)
EXTENDS Integers, SequencesExt, FiniteSetsExt

CONSTANTS
  Calls,       \* what the tools are called with
  Accounts,    \* the users at first
  Joiners,     \* users others may create meanwhile
  Groups,      \* the groups: id, name
  Memberships, \* pairs of a group's and a user's id at first
  Employees,   \* rows of HR.EMPLOYEES
  NameQuery,   \* the HR query for a name that is written in kanji
  FullName,    \* of a family and a given name: the display name made of the two
  MaxChanges,  \* bound on what others change during a call
  Unresolved,  \* a value that is empty or still a reference to another step
  None

HrFields ==
  {"emp_id", "email", "family_name", "given_name", "family_name_kanji", "given_name_kanji"}

(* Directory and HR database are finite; how large is left open. A user    *)
(* has the attributes that are asked for, an employee every column though  *)
(* it may be empty, and memberships are of the groups and users there are; *)
(* None is the id of nothing.                                              *)
ASSUME DirectoryAssumption ==
  /\ IsFiniteSet(Accounts) /\ IsFiniteSet(Groups) /\ IsFiniteSet(Employees)
  /\ \A u \in Accounts \union Joiners : {"id", "user_name", "email", "name"} \subseteq DOMAIN u
  /\ \A e \in Employees : HrFields \subseteq DOMAIN e
  /\ Memberships \subseteq {g.id : g \in Groups} \X {u.id : u \in Accounts}
  /\ None \notin {e.id : e \in Accounts \union Joiners \union Groups} \union {"created"}

ASSUME ChangesAssumption == MaxChanges \in Nat

HighRisk == {"create_user", "add_user_to_group", "remove_user_from_group"}

NameFields == HrFields \ {"emp_id", "email"}

Required == {"family_name", "given_name", "email"}

VARIABLES
  users,     \* the users of the identity domain: id, user_name, email, name
  members,   \* pairs of a group's and a user's id
  changes,   \* how many changes others made
  held,      \* history: the memberships there were at some moment of the call
  kept,      \* history: those there were at every moment
  call,      \* op, selector, group, context and what an investigation asks
  place,     \* where the call is
  selector,  \* user_selector, or the candidate of create_user
  query,     \* query_payload of the HR database
  user,      \* the id of the user that was found
  group,     \* the id of the group that was found
  meant,     \* history: the users that were meant when the user was found
  written,   \* history: the writes of this call the identity domain applied
  answer     \* status and, when a user was reported or changed, its id

domain == <<users, members, changes, held, kept>>
work   == <<selector, query, user, group, meant, written>>
idVars == <<domain, call, place, work, answer>>

Answer(status, id) == [status |-> status, id |-> id]
Error     == Answer("error", None)
Confirm   == Answer("needs_confirmation", None)
NoAnswer  == Answer("none", None)

IdInit ==
  /\ users = Accounts /\ members = Memberships
  /\ changes = 0 /\ held = Memberships /\ kept = Memberships
  /\ call \in Calls
  /\ place = "start"
  /\ selector = << >> /\ query = << >>
  /\ user = None /\ group = None
  /\ meant = {} /\ written = {}
  /\ answer = NoAnswer

-----------------------------------------------------------------------------
(************************** payloads and queries ***************************)
(* Fields without a usable value are dropped.                              *)
Given(s) == Restrict(s, {f \in DOMAIN s : s[f] # Unresolved})

Has(s, fields) == DOMAIN s \intersect fields # {}

(* _build_hr_query_payload.                                                *)
Conditions(s) == Restrict(Given(s), DOMAIN Given(s) \intersect HrFields)

(* The query that may follow when nobody is found: the same without email. *)
CanRelax(q) == Has(q, {"email"}) /\ Has(q, NameFields)
Relaxed(q)  == Restrict(q, DOMAIN q \ {"email"})

(* query_employees.                                                        *)
EmployeesWith(q) == {e \in Employees : \A f \in DOMAIN q : e[f] = q[f]}

(* What _enrich_user_selector_from_hr asks, if anything: no one who is     *)
(* already known to the domain by a field of its own is looked up.         *)
EnrichQuery(s) ==
  LET known == Given(s) IN
  IF Has(known, {"id", "filter", "user_name", "email"}) THEN << >>
  ELSE IF Has(known, HrFields) THEN Conditions(s)
  ELSE IF Has(known, {"name"}) /\ known["name"] \in DOMAIN NameQuery
       THEN NameQuery[known["name"]] ELSE << >>

(* _set_if_missing: what is given stays, what is missing is taken over.    *)
Filled(s, more) ==
  [f \in DOMAIN s \union DOMAIN more |-> IF f \in DOMAIN s THEN s[f] ELSE more[f]]

(* What a record says of some fields: empty ones are missing.              *)
OnRecord(e, fields) == Restrict(e, {f \in fields : e[f] # Unresolved})

(* The address of an employee is the user name of their account.           *)
AddressOf(e) ==
  IF e["email"] = Unresolved THEN << >>
  ELSE [email |-> e["email"], user_name |-> e["email"]]

(* The display name that goes with the names in s.                         *)
NameIn(s, family, given) ==
  IF Has(s, {given}) THEN FullName[<<s[family], s[given]>>] ELSE s[family]

KanjiName(s) == NameIn(s, "family_name_kanji", "given_name_kanji")

(* A selector with the fields of the employee, and a display name made of  *)
(* the kanji names then known unless one was given; fields without a value *)
(* stay when nothing takes their place.                                    *)
Enriched(s, e) ==
  LET more  == Filled(Filled(Given(s), AddressOf(e)), OnRecord(e, NameFields))
      named == IF Has(more, {"family_name_kanji"}) /\ ~Has(more, {"name"})
               THEN Filled(more, [name |-> KanjiName(more)]) ELSE more
  IN Filled(named, s)

SupplementedOver(s, e) == Filled(OnRecord(e, Required), s)

Supplemented(s, e) == Filled(s, OnRecord(e, Required))

-----------------------------------------------------------------------------
(**************************** the identity domain **************************)
Everyone == [attr |-> "any", value |-> "any"]

Matches(entry, filter) ==
  filter.attr = "any" \/ entry[filter.attr] = filter.value

(* A list request answers with some of what matches, at most count.        *)
Pages(entries, filter, count) ==
  LET matching == {e \in entries : Matches(e, filter)} IN
  kSubset(Min({count, Cardinality(matching)}), matching)

(* The filter of _resolve_user and _resolve_group.                         *)
FilterOf(s) ==
  IF Has(s, {"filter"}) THEN s["filter"]
  ELSE IF Has(s, {"user_name", "email", "name"})
  THEN LET attr == CHOOSE a \in {"user_name", "email", "name"} \intersect DOMAIN s :
                     \/ a = "user_name"
                     \/ a = "email" /\ ~Has(s, {"user_name"})
                     \/ a = "name" /\ ~Has(s, {"user_name", "email"})
       IN [attr |-> attr, value |-> s[attr]]
  ELSE Everyone

PageOfOne(entries, s) == Pages(entries, FilterOf(s), 1)

(* The two entries at most that are looked at to tell whether there is one.*)
Lookup(entries, s) == Pages(entries, FilterOf(s), 2)

(* resolve_by_selector: those on the page that bear the name, if there is  *)
(* no better identification.                                               *)
Resolved(page, s) ==
  IF Has(s, {"name"}) /\ ~Has(s, {"user_name", "email"})
  THEN {e \in page : \E f \in {"name", "user_name"} \intersect DOMAIN e : e[f] = s["name"]}
  ELSE page

IdOf(entries) == (CHOOSE e \in entries : TRUE).id

(* The account of an employee, for a selector that gives no address: it    *)
(* has the employee's address or, when HR has none, the display name that  *)
(* was given, else that of the kanji names; an employee HR has none of     *)
(* these for may be anybody.                                               *)
IsOf(u, s, e) ==
  LET names == Filled(s, OnRecord(e, NameFields)) IN
  IF e["email"] # Unresolved THEN u.user_name = e["email"]
  ELSE IF Has(s, {"name"}) THEN u.name = s["name"]
  ELSE Has(names, {"family_name_kanji"}) => u.name = KanjiName(names)

(* Whom a selector means, told from the directory and the HR database at   *)
(* one moment: a filter before a user name, before an e-mail address,      *)
(* before what HR knows of the person, before the display name.            *)
Meant(s) ==
  LET known == Given(s)
      staff == EmployeesWith(EnrichQuery(s)) IN
  IF EnrichQuery(s) # << >> /\ staff # {}
  THEN {u \in users : \E e \in staff : IsOf(u, known, e)}
  ELSE {u \in users : Matches(u, FilterOf(known))}

(* Others create or delete a user, or change who is in a group.            *)
Others ==
  /\ place # "done" /\ changes < MaxChanges
  /\ changes' = changes + 1
  /\ \/ \E u \in Joiners \ users : users' = users \union {u} /\ UNCHANGED members
     \/ \E u \in users : /\ users' = users \ {u}
                         /\ members' = {m \in members : m[2] # u.id}
     \/ /\ \E g \in Groups, u \in users :
             members' = SymDiff(members, {<<g.id, u.id>>})
        /\ UNCHANGED users
  /\ held' = held \union members'
  /\ kept' = kept \intersect members'
  /\ UNCHANGED <<call, place, work, answer>>

-----------------------------------------------------------------------------
(******************************* the tools *********************************)
Tools == {"get_user", "create_user", "add_user_to_group",
          "remove_user_from_group", "get_last_successful_login"}

Changing == call.op \in {"add_user_to_group", "remove_user_from_group"}

Return(a) == place' = "done" /\ answer' = a
Continue(p) == place' = p /\ UNCHANGED answer

(* AmbiguousTargetError: a membership change asks, a read reports an error.*)
Ambiguous == IF Changing THEN Confirm ELSE Error

(* create_user goes on to the request when nothing required is missing.    *)
CreateOrRefuse(candidate) ==
  IF Required \subseteq DOMAIN candidate THEN Continue("create") ELSE Return(Error)

(* The guard of calls on behalf of a peer, the normalization of the        *)
(* payload, and the first request it leads to.                             *)
Begin ==
  /\ place = "start" /\ call.op \in Tools
  /\ LET given == IF call.op = "get_last_successful_login"
                  THEN call.selector ELSE Given(call.selector)
         hr    == IF call.op = "create_user" THEN Conditions(given) ELSE EnrichQuery(given)
     IN
     /\ selector' = given
     /\ query' = hr
     /\ IF \/ call.op \in HighRisk /\ call.context = "unkeyed"
           \/ call.op = "get_user" /\ given = << >>
        THEN Return(Error)
        ELSE IF call.op = "create_user"
        THEN IF hr = << >> \/ Required \subseteq DOMAIN given
             THEN CreateOrRefuse(given) ELSE Continue("hr")
        ELSE Continue(IF Has(given, {"id"}) THEN "by_id"
                      ELSE IF hr # << >> THEN "hr" ELSE "lookup")
  /\ UNCHANGED <<domain, call, user, group, meant, written>>

(* Any request may fail; nothing was written by those that read.           *)
ReadFails ==
  /\ place \in {"hr", "by_id", "lookup", "group"}
  /\ Return(Error)
  /\ UNCHANGED <<domain, call, work>>

(* The employees for a selector: none changes nothing, one is taken over,  *)
(* and of several none is.                                                 *)
HrForSelector ==
  /\ place = "hr" /\ call.op # "create_user"
  /\ LET found == EmployeesWith(query) IN
     IF Cardinality(found) > 1
     THEN Return(Ambiguous) /\ UNCHANGED selector
     ELSE /\ Continue("lookup")
          /\ selector' = IF found = {} THEN selector
                         ELSE Enriched(selector, CHOOSE e \in found : TRUE)
  /\ UNCHANGED <<domain, call, query, user, group, meant, written>>

(* The employees for a new account: if there is none, once more without    *)
(* the e-mail address.                                                     *)
HrForCreate ==
  /\ place = "hr" /\ call.op = "create_user"
  /\ LET found == EmployeesWith(query) IN
     CASE Cardinality(found) > 1 ->
            Return(Confirm) /\ UNCHANGED <<selector, query>>
       [] Cardinality(found) = 1 ->
            LET candidate == Supplemented(selector, CHOOSE e \in found : TRUE) IN
            CreateOrRefuse(candidate) /\ selector' = candidate /\ UNCHANGED query
       [] found = {} /\ CanRelax(query) ->
            query' = Relaxed(query) /\ UNCHANGED <<place, answer, selector>>
       [] found = {} /\ ~CanRelax(query) ->
            CreateOrRefuse(selector) /\ UNCHANGED <<selector, query>>
  /\ UNCHANGED <<domain, call, user, group, meant, written>>

(* The user is known: reads report it, a membership change needs the group.*)
Found(id) ==
  /\ user' = id
  /\ IF Changing THEN Continue("group") ELSE Return(Answer("success", id))

GetByIdUnchecked ==
  /\ place = "by_id"
  /\ Found(selector["id"])
  /\ meant' = {u \in users : u.id = selector["id"]}
  /\ UNCHANGED <<domain, call, selector, query, group, written>>

GetById ==
  /\ place = "by_id"
  /\ LET found == {u \in users : u.id = selector["id"]} IN
     /\ IF found = {} THEN Return(Error) /\ UNCHANGED user ELSE Found(selector["id"])
     /\ meant' = found
  /\ UNCHANGED <<domain, call, selector, query, group, written>>

LookUpUser ==
  /\ place = "lookup"
  /\ \E page \in Lookup(users, selector) :
       LET found == Resolved(page, selector) IN
       IF Cardinality(found) = 1 THEN Found(IdOf(found))
       ELSE Return(IF found = {} THEN Error ELSE Ambiguous) /\ UNCHANGED user
  /\ meant' = Meant(call.selector)
  /\ UNCHANGED <<domain, call, selector, query, group, written>>

(* _resolve_group.                                                         *)
FindGroup ==
  /\ place = "group"
  /\ LET s == Given(call.group) IN
     \E found \in IF Has(s, {"id"}) THEN {{g \in Groups : g.id = s["id"]}}
                  ELSE {Resolved(page, s) : page \in Lookup(Groups, s)} :
       IF Cardinality(found) = 1
       THEN Continue("patch") /\ group' = IdOf(found)
       ELSE Return(IF found = {} THEN Error ELSE Confirm) /\ UNCHANGED group
  /\ UNCHANGED <<domain, call, selector, query, user, meant, written>>

-----------------------------------------------------------------------------
(******************************** writes ***********************************)
LostAnswer == {Error}
LostIsSuccess == {Answer("success", user)}

(* What a tool says when the answer to a write did not come.               *)
AfterLoss == LostAnswer

Write ==
  IF call.op = "add_user_to_group"
  THEN members' = members \union {<<group, user>>}
  ELSE members' = members \ {<<group, user>>}

(* The PATCH is applied, whether or not its answer arrives.                *)
Patch ==
  /\ place = "patch"
  /\ \E u \in users : u.id = user
  /\ Write
  /\ held' = held \union members' /\ kept' = kept \intersect members'
  /\ written' = written \union {<<call.op, group, user>>}
  /\ \E a \in {Answer("success", user)} \union AfterLoss : Return(a)
  /\ UNCHANGED <<users, changes, call, selector, query, user, group, meant>>

(* The POST is applied unless there is a user of that name; the display    *)
(* name is the domain's.                                                   *)
Create ==
  /\ place = "create"
  /\ \A u \in users : u.user_name # selector["email"]
  /\ users' = users \union
       {[id |-> "created", user_name |-> selector["email"], email |-> selector["email"],
         name |-> "created"]}
  /\ user' = "created"
  /\ written' = written \union {<<call.op, None, "created">>}
  /\ \E a \in {Answer("success", "created")} \union AfterLoss : Return(a)
  /\ UNCHANGED <<members, changes, held, kept, call, selector, query, group, meant>>

WriteFails ==
  /\ place \in {"patch", "create"}
  /\ \E a \in AfterLoss : Return(a)
  /\ UNCHANGED <<domain, call, work>>

ToolNext ==
  \/ Begin \/ ReadFails \/ HrForSelector \/ HrForCreate
  \/ GetById \/ LookUpUser \/ FindGroup
  \/ Patch \/ Create \/ WriteFails

-----------------------------------------------------------------------------
(* No change hits anybody but the one who was meant: when a membership was *)
(* changed, its user was the only one the request can have meant, told     *)
(* from directory and HR database at the moment of the lookup, although    *)
(* the code reads two entries of the answer only.  A filter together with  *)
(* a name is the exception: the name is looked for on those two alone.     *)
OnlyTheMeant ==
  \A w \in written :
    w[1] # "create_user" /\ ~(Has(Given(call.selector), {"filter"})
                              /\ Has(Given(call.selector), {"name"})) =>
      {u.id : u \in meant} = {w[3]}

(* The answer tells what was written: success means one write, of the user *)
(* that is reported, a question that nothing was, and an error leaves it   *)
(* open only when the write itself got no answer.                          *)
AnswerTellsWrites ==
  /\ answer.status = "success" /\ call.op \in HighRisk =>
       {w[3] : w \in written} = {answer.id}
  /\ answer.status = "needs_confirmation" => written = {}
  /\ Cardinality(written) <= 1

(* An account is that of one person: what the caller gave is kept, what    *)
(* was missing comes from a single employee, who fits all that was given   *)
(* but perhaps the e-mail address, and is the only one who does.           *)
AccountOfOneEmployee ==
  \A w \in written : w[1] = "create_user" =>
    LET given   == Given(call.selector)
        asked   == Conditions(call.selector)
        fitting == EmployeesWith(asked)
        staff   == IF fitting = {} /\ CanRelax(asked) THEN EmployeesWith(Relaxed(asked)) ELSE fitting
        missing == Required \ DOMAIN given IN
    /\ \A f \in Required \ missing : selector[f] = given[f]
    /\ missing # {} => /\ Cardinality(staff) = 1
                       /\ \A e \in staff, f \in missing : selector[f] = e[f]

=============================================================================
