------------------------ MODULE IdentityTools_proofs ------------------------
(***************************************************************************)
(* Whom the tools change: for any directory, HR database and call, and     *)
(* whatever others change while a call runs.                               *)
(***************************************************************************)
EXTENDS Investigation_proofs

-----------------------------------------------------------------------------
(*************************** payloads and queries **************************)
LEMMA QueriesOfGiven ==
  \A s : Conditions(Given(s)) = Conditions(s) /\ EnrichQuery(Given(s)) = EnrichQuery(s)
<1> TAKE s
<1>1. Given(Given(s)) = Given(s)
  BY GivenTwice
<1>2. Conditions(Given(s)) = Conditions(s)
  BY <1>1 DEF Conditions
<1> QED
  BY <1>1, <1>2 DEF EnrichQuery

LEMMA RelaxedOnce == \A q : ~CanRelax(Relaxed(q))
BY DEF CanRelax, Relaxed, Restrict, Has

-----------------------------------------------------------------------------
(****************************** new accounts *******************************)
(* AccountOfOneEmployee says this of every account that was created.       *)
OfOneEmployee ==
  LET given   == Given(call.selector)
      asked   == Conditions(call.selector)
      fitting == EmployeesWith(asked)
      offered == IF fitting = {} /\ CanRelax(asked) THEN EmployeesWith(Relaxed(asked)) ELSE fitting
      missing == Required \ DOMAIN given IN
  /\ \A f \in Required \ missing : selector[f] = given[f]
  /\ missing # {} => /\ Cardinality(offered) = 1
                     /\ \A e \in offered, f \in missing : selector[f] = e[f]

(* What the HR database is asked for a new account.                        *)
Asking ==
  LET asked == Conditions(call.selector) IN
  /\ selector = Given(call.selector)
  /\ ~(Required \subseteq DOMAIN selector)
  /\ \/ query = asked
     \/ query = Relaxed(asked) /\ EmployeesWith(asked) = {} /\ CanRelax(asked)

NewAccount ==
  /\ place = "hr" /\ call.op = "create_user" => Asking
  /\ place = "create" => OfOneEmployee
  /\ \A w \in written : w[1] = "create_user" => OfOneEmployee

LEMMA BeginAsks ==
  ASSUME IInv, Begin
  PROVE  NewAccount'
<1> DEFINE given == Given(call.selector)
<1>1. written' = {} /\ UNCHANGED call
  BY DEF IInv, WritesAtTheEnd, Begin
<1>2. CASE call.op # "create_user"
  BY <1>1, <1>2 DEF Begin, NewAccount, Return, Continue, Tools
<1>3. CASE call.op = "create_user"
  <2>1. /\ selector' = given /\ query' = Conditions(given)
        /\ \/ place' = "done"
           \/ place' = "create" /\ Required \subseteq DOMAIN given
           \/ place' = "hr" /\ ~(Required \subseteq DOMAIN given)
    BY <1>3 DEF Begin, CreateOrRefuse, Return, Continue
  <2>2. query' = Conditions(call.selector)
    BY <2>1, QueriesOfGiven
  <2>3. place' = "create" => OfOneEmployee'
    BY <1>1, <2>1 DEF OfOneEmployee
  <2>4. place' = "hr" => Asking'
    BY <1>1, <2>1, <2>2 DEF Asking
  <2> QED
    BY <1>1, <2>3, <2>4 DEF NewAccount
<1> QED
  BY <1>2, <1>3

LEMMA HrFindsOne ==
  ASSUME IInv, NewAccount, HrForCreate
  PROVE  NewAccount'
<1> DEFINE cs == call.selector
           asked == Conditions(cs)
           employees == EmployeesWith(query)
<1>1. /\ Asking /\ written' = {} /\ UNCHANGED call
  BY DEF IInv, WritesAtTheEnd, NewAccount, HrForCreate
<1>2. employees = {} \/ Cardinality(employees) = 1 \/ Cardinality(employees) > 1
  BY EmployeesFinite, CasesOfCardinality
<1>3. CASE Cardinality(employees) > 1
  <2>1. employees # {} /\ Cardinality(employees) # 1
    BY <1>3, FS_EmptySet
  <2>2. place' = "done"
    BY <1>3, <2>1 DEF HrForCreate, Return
  <2> QED
    BY <1>1, <2>2 DEF NewAccount
<1>4. CASE Cardinality(employees) = 1
  <2>1. PICK e : employees = {e}
    BY <1>4, EmployeesFinite, FS_Singleton
  <2>2. employees # {} /\ ~(Cardinality(employees) > 1) /\ (CHOOSE x \in employees : TRUE) = e
    BY <1>4, <2>1
  <2>3. selector' = Supplemented(selector, e) /\ place' \in {"create", "done"}
    BY <1>4, <2>2 DEF HrForCreate, CreateOrRefuse, Continue, Return
  <2>4. /\ DOMAIN selector' = DOMAIN selector \union DOMAIN OnRecord(e, Required)
        /\ \A f \in DOMAIN selector : selector'[f] = selector[f]
        /\ \A f \in DOMAIN OnRecord(e, Required) \ DOMAIN selector : selector'[f] = e[f]
    <3> DEFINE more == OnRecord(e, Required)
    <3>1. selector' = Filled(selector, more)
      BY <2>3 DEF Supplemented
    <3>2. \A f \in DOMAIN more : more[f] = e[f]
      BY RecordedFields
    <3> HIDE DEF more
    <3> QED
      BY <3>1, <3>2, FilledFields DEF more
  <2>5. (IF EmployeesWith(asked) = {} /\ CanRelax(asked) THEN EmployeesWith(Relaxed(asked))
         ELSE EmployeesWith(asked)) = {e}
    BY <1>1, <2>1 DEF Asking
  <2>6. Cardinality({e}) = 1
    BY <1>4, <2>1
  <2>7. ASSUME place' = "create" PROVE OfOneEmployee'
    <3>1. Required \subseteq DOMAIN selector'
      BY <1>4, <2>2, <2>3, <2>7 DEF HrForCreate, CreateOrRefuse, Return
    <3>2. /\ \A f \in Required \ (Required \ DOMAIN Given(cs)) : selector'[f] = Given(cs)[f]
          /\ \A x \in {e}, f \in Required \ DOMAIN Given(cs) : selector'[f] = x[f]
      BY <1>1, <2>4, <3>1 DEF Asking
    <3> QED
      BY <1>1, <2>5, <2>6, <3>2 DEF OfOneEmployee
  <2> QED
    BY <1>1, <2>3, <2>7 DEF NewAccount
<1>5. CASE employees = {} /\ CanRelax(query)
  <2>1. Cardinality(employees) # 1 /\ ~(Cardinality(employees) > 1)
    BY <1>5, FS_EmptySet
  <2>2. query' = Relaxed(query) /\ UNCHANGED <<place, selector>>
    BY <1>5, <2>1 DEF HrForCreate
  <2>3. query = asked
    BY <1>1, <1>5, RelaxedOnce DEF Asking
  <2>4. Asking'
    BY <1>1, <1>5, <2>2, <2>3 DEF Asking
  <2> QED
    BY <1>1, <2>2, <2>4 DEF NewAccount, HrForCreate
<1>6. CASE employees = {} /\ ~CanRelax(query)
  <2>1. Cardinality(employees) # 1 /\ ~(Cardinality(employees) > 1)
    BY <1>6, FS_EmptySet
  <2>2. CreateOrRefuse(selector)
    BY <1>6, <2>1 DEF HrForCreate
  <2>3. place' = "done"
    BY <1>1, <2>2 DEF Asking, CreateOrRefuse, Return
  <2> QED
    BY <1>1, <2>3 DEF NewAccount
<1> QED
  BY <1>2, <1>3, <1>4, <1>5, <1>6

(* An investigation leads to no place of the tools.                        *)
LEMMA InvestigationElsewhere ==
  ASSUME IInv, Investigate
  PROVE  /\ place' \notin {"hr", "by_id", "lookup", "group", "patch", "create"}
         /\ written' = {}
<1>1. Investigating /\ UNCHANGED call /\ place # "done" /\ OnItsWay' /\ written' = written
  <2>1. Investigating
    BY DEF IInv, OnItsWay, Searching, Investigate, Ask, ListUsers, QueryHr, Fallback, FallbackFails,
       GetUser, ListGroups, ListPolicies, RequestFails, Conclude
  <2> QED
    BY <2>1, InvestigationIsSilent DEF Silent
<1>2. call.op \notin Tools /\ ~Changing
  BY <1>1 DEF Investigating, Tools, Changing
<1> QED
  BY <1>1, <1>2 DEF OnItsWay, Changing, IInv, WritesAtTheEnd, Tools

LEMMA StaysNewAccount ==
  ASSUME IInv, NewAccount, [Next]_vars PROVE NewAccount'
<1>1. CASE Begin \/ HrForCreate
  BY <1>1, BeginAsks, HrFindsOne
<1>2. ASSUME place' \notin {"hr", "create"}, written' = {} PROVE NewAccount'
  BY <1>2 DEF NewAccount
<1>3. CASE ReadFails \/ HrForSelector \/ WriteFails
  BY <1>2, <1>3 DEF ReadFails, HrForSelector, WriteFails, Return, Continue, IInv, WritesAtTheEnd,
     work
<1>4. CASE GetById \/ LookUpUser \/ FindGroup
  <2>1. place' \notin {"hr", "create"}
    BY <1>4, GetByIdCases, LookUpUserCases, FindGroupCases DEF IInv
  <2>2. written' = {}
    BY <1>4 DEF GetById, LookUpUser, FindGroup, IInv, WritesAtTheEnd
  <2> QED
    BY <1>2, <2>1, <2>2
<1>5. CASE Patch
  <2>1. place' = "done" /\ written' = {<<call.op, group, user>>} /\ call.op # "create_user"
    BY <1>5 DEF Patch, Return, IInv, OnItsWay, WritesAtTheEnd, Changing
  <2>2. \A w \in written' : w[1] # "create_user"
    BY <2>1
  <2> QED
    BY <2>1, <2>2 DEF NewAccount
<1>6. CASE Create
  <2>1. place' = "done" /\ OfOneEmployee /\ UNCHANGED <<call, selector>>
    BY <1>6 DEF Create, Return, NewAccount
  <2>2. OfOneEmployee'
    BY <2>1 DEF OfOneEmployee
  <2> QED
    BY <2>1, <2>2 DEF NewAccount
<1>7. CASE Investigate
  BY <1>2, <1>7, InvestigationElsewhere
<1>8. CASE UNCHANGED <<call, place, work>>
  BY <1>8 DEF work, NewAccount, Asking, OfOneEmployee
<1> QED
  BY <1>1, <1>3, <1>4, <1>5, <1>6, <1>7, <1>8 DEF Next, ToolNext, Others, vars, idVars

(* For any payload and HR database: an account that is created has what    *)
(* the caller gave, and what was missing from the only employee who fits   *)
(* the rest, the e-mail address perhaps excepted (AccountOfOneEmployee).   *)
THEOREM AccountsAreOfOneEmployee == Spec => []AccountOfOneEmployee
<1>1. Init => NewAccount
  BY DEF Init, IdInit, NewAccount
<1>2. IInv /\ NewAccount /\ [Next]_vars => NewAccount'
  BY StaysNewAccount
<1>3. NewAccount => AccountOfOneEmployee
  BY DEF NewAccount, AccountOfOneEmployee, OfOneEmployee
<1> QED
  BY <1>1, <1>2, <1>3, Invariance, PTL DEF Spec

-----------------------------------------------------------------------------
(********************************* lookups *********************************)
(* A filter and a name in one selector, the exception of OnlyTheMeant.     *)
Exempt ==
  Has(Given(call.selector), {"filter"}) /\ Has(Given(call.selector), {"name"})

(* A selector with the fields of an employee is looked up by the address   *)
(* of the employee or, when HR has none, by the display name, since none   *)
(* of the stronger fields was given.                                       *)
LEMMA EnrichedFilter ==
  ASSUME NEW s, NEW e, EnrichQuery(s) # << >>
  PROVE  LET more == Enriched(Given(s), e) IN
         /\ ~Has(more, {"filter"})
         /\ \A u : Matches(u, FilterOf(more)) <=> IsOf(u, Given(s), e)
<1> DEFINE g == Given(s)
           names == Filled(g, OnRecord(e, NameFields))
           kanji == "family_name_kanji" \in DOMAIN names
           more == Enriched(g, e)
<1>1. Given(g) = g
  BY GivenTwice
<1>2. "filter" \notin DOMAIN g /\ "user_name" \notin DOMAIN g /\ "email" \notin DOMAIN g
  BY DEF EnrichQuery, Has
<1> HIDE DEF g
<1>3. /\ "filter" \in DOMAIN more => "filter" \in DOMAIN g
      /\ e["email"] # Unresolved => "user_name" \in DOMAIN more /\ more["user_name"] = e["email"]
      /\ e["email"] = Unresolved => "user_name" \notin DOMAIN more /\ "email" \notin DOMAIN more
      /\ "name" \in DOMAIN g => "name" \in DOMAIN more /\ more["name"] = g["name"]
      /\ "name" \notin DOMAIN g /\ kanji => "name" \in DOMAIN more /\ more["name"] = KanjiName(names)
      /\ "name" \notin DOMAIN g /\ ~kanji => "name" \notin DOMAIN more
  BY <1>1, <1>2, EnrichedFields
<1> HIDE DEF more, names
<1>4. ~Has(more, {"filter"})
  BY <1>2, <1>3 DEF Has
<1>5. CASE e["email"] # Unresolved
  <2>1. FilterOf(more) = [attr |-> "user_name", value |-> e["email"]]
    BY <1>3, <1>4, <1>5, FilterBy DEF Has
  <2> QED
    BY <1>4, <1>5, <2>1 DEF Matches, IsOf, more, g
<1>6. CASE e["email"] = Unresolved
  <2>1. ~Has(more, {"user_name", "email"}) /\ (Has(g, {"name"}) <=> "name" \in DOMAIN g)
        /\ (Has(names, {"family_name_kanji"}) <=> kanji)
    BY <1>3, <1>6 DEF Has
  <2>2. \A u : IsOf(u, g, e) <=> IF "name" \in DOMAIN g THEN u.name = g["name"]
                                ELSE kanji => u.name = KanjiName(names)
    BY <1>6, <2>1 DEF IsOf, names
  <2>3. CASE "name" \in DOMAIN g \/ kanji
    <3>1. Has(more, {"name"})
      BY <1>3, <2>3 DEF Has
    <3>2. FilterOf(more) = [attr |-> "name", value |-> more["name"]]
      BY <1>4, <2>1, <3>1, FilterBy
    <3>3. \A u : Matches(u, FilterOf(more)) <=> u.name = more["name"]
      BY <3>2 DEF Matches
    <3> QED
      BY <1>3, <1>4, <2>2, <2>3, <3>3 DEF more, g
  <2>4. CASE "name" \notin DOMAIN g /\ ~kanji
    <3>1. ~Has(more, {"user_name", "email", "name"})
      BY <1>3, <1>6, <2>4 DEF Has
    <3>2. FilterOf(more) = Everyone
      BY <1>4, <3>1, FilterBy
    <3> QED
      BY <1>4, <2>2, <2>4, <3>2 DEF Matches, Everyone, more, g
  <2> QED
    BY <2>3, <2>4
<1> QED
  BY <1>5, <1>6

-----------------------------------------------------------------------------
(************************* who is changed is meant *************************)
RightUser(id) == Exempt \/ {u.id : u \in meant} = {id}

(* A lookup goes by what the caller gave, when nobody in HR is to be asked *)
(* or HR knows nobody, or by the only employee HR knows.                   *)
GoesBy ==
  LET cs    == call.selector
      known == EmployeesWith(EnrichQuery(cs)) IN
  \/ selector = Given(cs) /\ (EnrichQuery(cs) = << >> \/ known = {})
  \/ /\ EnrichQuery(cs) # << >>
     /\ \E e : known = {e} /\ selector = Enriched(Given(cs), e)

Targeting ==
  /\ place = "hr" /\ Changing =>
       /\ selector = Given(call.selector)
       /\ query = EnrichQuery(call.selector) /\ query # << >>
  /\ place = "lookup" /\ Changing => GoesBy
  /\ place \in {"group", "patch"} => RightUser(user)
  /\ \A w \in written : w[1] # "create_user" => RightUser(w[3])

(* Every user has a display name.                                          *)
Named == \A u \in users : "name" \in DOMAIN u

LEMMA StaysNamed ==
  ASSUME Named, [Next]_vars PROVE Named'
<1> USE DEF Named
<1>1. CASE Others
  <2>1. ASSUME NEW u \in Joiners, users' = users \union {u} PROVE Named'
    BY <2>1, DirectoryAssumption
  <2> QED
    BY <1>1, <2>1 DEF Others
<1>2. CASE Patch
  BY <1>2 DEF Patch
<1>3. CASE Create
  BY <1>3 DEF Create
<1>4. CASE UNCHANGED domain
  BY <1>4 DEF domain
<1> QED
  BY <1>1, <1>2, <1>3, <1>4, DirectoryChanges

(* The user a lookup finds is the only one the selector means.             *)
LEMMA LookUpFindsTheMeant ==
  ASSUME AllFinite, Named, GoesBy,
         NEW page \in Lookup(users, selector), NEW u, Resolved(page, selector) = {u}
  PROVE  Exempt \/ Meant(call.selector) = {u}
<1> DEFINE cs == call.selector
           staffed == EmployeesWith(EnrichQuery(cs))
<1>0. SUFFICES ASSUME ~Exempt PROVE Meant(cs) = {u}
  OBVIOUS
<1>1. /\ page \in Pages(users, FilterOf(selector), 2) /\ IsFiniteSet(users)
      /\ page \subseteq {e \in users : Matches(e, FilterOf(selector))}
  BY DEF Lookup, AllFinite, Pages, kSubset
<1>2. ASSUME ~(Has(selector, {"filter"}) /\ Has(selector, {"name"}))
      PROVE  {e \in users : Matches(e, FilterOf(selector))} = {u}
  <2>1. page = {u}
    BY <1>1, <1>2, NameIsAskedFor DEF Named
  <2> QED
    BY <1>1, <2>1, OneOfTwoIsAlone
<1>3. CASE selector = Given(cs) /\ (EnrichQuery(cs) = << >> \/ staffed = {})
  <2>1. {e \in users : Matches(e, FilterOf(selector))} = {u}
    BY <1>0, <1>2, <1>3 DEF Exempt
  <2> QED
    BY <1>3, <2>1 DEF Meant
<1>4. ASSUME EnrichQuery(cs) # << >>, NEW e, staffed = {e}, selector = Enriched(Given(cs), e)
      PROVE  Meant(cs) = {u}
  <2>1. /\ ~Has(selector, {"filter"})
        /\ \A x : Matches(x, FilterOf(selector)) <=> IsOf(x, Given(cs), e)
    BY <1>4, EnrichedFilter
  <2>2. {x \in users : Matches(x, FilterOf(selector))} = {u}
    BY <1>2, <2>1
  <2>3. Meant(cs) = {x \in users : \E y \in {e} : IsOf(x, Given(cs), y)}
    BY <1>4 DEF Meant
  <2> QED
    BY <2>1, <2>2, <2>3
<1> QED
  BY <1>3, <1>4 DEF GoesBy

LEMMA BeginTargets ==
  ASSUME IInv, Begin PROVE Targeting'
<1> DEFINE given == Given(call.selector)
<1>1. written' = {} /\ UNCHANGED call /\ place' \notin {"group", "patch"}
  BY DEF IInv, WritesAtTheEnd, Begin, CreateOrRefuse, Return, Continue
<1>2. CASE ~Changing
  BY <1>1, <1>2 DEF Targeting, Changing
<1>3. CASE Changing
  <2>1. /\ selector' = given /\ query' = EnrichQuery(given)
        /\ place' = "hr" => query' # << >>
        /\ place' = "lookup" => query' = << >>
    BY <1>3 DEF Begin, Changing, Return, Continue
  <2>2. query' = EnrichQuery(call.selector)
    BY <2>1, QueriesOfGiven
  <2> QED
    BY <1>1, <2>1, <2>2 DEF Targeting, GoesBy
<1> QED
  BY <1>2, <1>3

LEMMA HrTargets ==
  ASSUME IInv, Targeting, HrForSelector PROVE Targeting'
<1> DEFINE cs == call.selector
           employees == EmployeesWith(query)
<1>1. written' = {} /\ UNCHANGED call /\ place' \in {"done", "lookup"}
  BY DEF IInv, WritesAtTheEnd, HrForSelector, Return, Continue
<1>2. ASSUME Changing, place' = "lookup" PROVE GoesBy'
  <2>1. selector = Given(cs) /\ query = EnrichQuery(cs) /\ query # << >>
    BY <1>2 DEF Targeting, HrForSelector
  <2>2. /\ ~(Cardinality(employees) > 1)
        /\ selector' = IF employees = {} THEN selector
                       ELSE Enriched(selector, CHOOSE e \in employees : TRUE)
    BY <1>2 DEF HrForSelector, Return
  <2>3. CASE employees = {}
    BY <1>1, <2>1, <2>2, <2>3 DEF GoesBy
  <2>4. CASE employees # {}
    <3>1. Cardinality(employees) = 1
      BY <2>2, <2>4, EmployeesFinite, CasesOfCardinality
    <3>2. PICK e : employees = {e}
      BY <3>1, EmployeesFinite, FS_Singleton
    <3>3. selector' = Enriched(Given(cs), e)
      BY <2>1, <2>2, <3>2
    <3> QED
      BY <1>1, <2>1, <3>2, <3>3 DEF GoesBy
  <2> QED
    BY <2>3, <2>4
<1> QED
  BY <1>1, <1>2 DEF Targeting, Changing

LEMMA GetByIdTargets ==
  ASSUME IInv, GetById PROVE Targeting'
<1>1. written' = {} /\ place' \in {"group", "done"}
  BY GetByIdCases DEF IInv, WritesAtTheEnd, GetById
<1>2. ASSUME place' = "group" PROVE RightUser(user)'
  <2>1. {u \in users : u.id = selector["id"]} # {} /\ user' = selector["id"]
    BY <1>2, FoundCases DEF GetById, Return
  <2>2. meant' = {u \in users : u.id = selector["id"]}
    BY DEF GetById
  <2>3. {u.id : u \in meant'} = {user'}
    BY <2>1, <2>2
  <2> QED
    BY <2>3 DEF RightUser
<1> QED
  BY <1>1, <1>2 DEF Targeting

LEMMA LookUpTargets ==
  ASSUME IInv, Named, Targeting, LookUpUser PROVE Targeting'
<1>0. AllFinite
  BY DEF IInv
<1>1. written' = {} /\ UNCHANGED call /\ place' \in {"group", "done"}
  BY <1>0, LookUpUserCases DEF IInv, WritesAtTheEnd, LookUpUser
<1>2. ASSUME place' = "group" PROVE RightUser(user)'
  <2>1. Changing /\ \E page \in Lookup(users, selector) : \E u \in users :
          Resolved(page, selector) = {u} /\ user' = u.id
    BY <1>0, <1>2, LookUpUserCases
  <2>2. PICK page \in Lookup(users, selector), u \in users :
          Resolved(page, selector) = {u} /\ user' = u.id
    BY <2>1
  <2>3. GoesBy
    BY <2>1 DEF Targeting, LookUpUser
  <2>4. Exempt \/ Meant(call.selector) = {u}
    BY <1>0, <2>2, <2>3, LookUpFindsTheMeant
  <2>5. meant' = Meant(call.selector)
    BY DEF LookUpUser
  <2>6. Exempt' \/ {x.id : x \in meant'} = {user'}
    BY <1>1, <2>2, <2>4, <2>5 DEF Exempt
  <2> QED
    BY <2>6 DEF RightUser
<1> QED
  BY <1>1, <1>2 DEF Targeting

LEMMA StaysTargeting ==
  ASSUME IInv, Named, Targeting, [Next]_vars PROVE Targeting'
<1>1. CASE Begin \/ HrForSelector \/ GetById \/ LookUpUser
  BY <1>1, BeginTargets, HrTargets, GetByIdTargets, LookUpTargets
<1>2. ASSUME place' \notin {"hr", "lookup", "group", "patch"}, written' = {} PROVE Targeting'
  BY <1>2 DEF Targeting
<1>3. CASE ReadFails \/ WriteFails
  BY <1>2, <1>3 DEF ReadFails, WriteFails, Return, IInv, WritesAtTheEnd, work
<1>4. CASE HrForCreate
  <2>1. /\ written' = {} /\ UNCHANGED call /\ ~Changing
        /\ place' \in {"hr", "create", "done"}
    BY <1>4, EmployeesFinite, CasesOfCardinality
       DEF HrForCreate, CreateOrRefuse, Return, Continue, IInv, WritesAtTheEnd, Changing
  <2> QED
    BY <2>1 DEF Targeting, Changing
<1>5. CASE FindGroup
  <2>1. /\ UNCHANGED <<call, user, meant, written>> /\ place = "group"
        /\ place' \in {"patch", "done"}
    BY <1>5, FindGroupCases DEF FindGroup
  <2> QED
    BY <2>1 DEF Targeting, RightUser, Exempt
<1>6. CASE Patch
  <2>1. /\ written' = {<<call.op, group, user>>} /\ place' = "done" /\ RightUser(user)
        /\ UNCHANGED <<call, meant>>
    BY <1>6 DEF Patch, Return, IInv, WritesAtTheEnd, Targeting
  <2>2. \A w \in written' : w[3] = user
    BY <2>1
  <2>3. \A w \in written' : RightUser(w[3])'
    BY <2>1, <2>2 DEF RightUser, Exempt
  <2> QED
    BY <2>1, <2>3 DEF Targeting
<1>7. CASE Create
  <2>1. written' = {<<"create_user", None, "created">>} /\ place' = "done"
    BY <1>7 DEF Create, Return, IInv, OnItsWay, WritesAtTheEnd
  <2>2. \A w \in written' : w[1] = "create_user"
    BY <2>1
  <2> QED
    BY <2>1, <2>2 DEF Targeting
<1>8. CASE Investigate
  BY <1>2, <1>8, InvestigationElsewhere
<1>9. CASE UNCHANGED <<call, place, work>>
  BY <1>9 DEF work, Targeting, Changing, GoesBy, RightUser, Exempt
<1> QED
  BY <1>1, <1>3, <1>4, <1>5, <1>6, <1>7, <1>8, <1>9 DEF Next, ToolNext, Others, vars, idVars

(* For any directory, HR database and payload, and whatever others change  *)
(* while the call runs: whose membership is changed was, at the moment of  *)
(* the lookup, the only user the request can have meant (OnlyTheMeant).    *)
THEOREM OnlyTheMeantAreChanged == Spec => []OnlyTheMeant
<1>1. Init => Named /\ Targeting
  BY DirectoryAssumption DEF Init, IdInit, Named, Targeting
<1>2. IInv /\ Named /\ Targeting /\ [Next]_vars => Named' /\ Targeting'
  BY StaysNamed, StaysTargeting
<1>3. Targeting => OnlyTheMeant
  BY DEF Targeting, RightUser, Exempt, OnlyTheMeant
<1> QED
  BY <1>1, <1>2, <1>3, Invariance, PTL DEF Spec

=============================================================================
