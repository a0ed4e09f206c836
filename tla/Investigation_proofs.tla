------------------------ MODULE Investigation_proofs ------------------------
(***************************************************************************)
(* What the tools say of their writes, for any directory, HR database,     *)
(* statements and calls, and any number of changes by others.              *)
(***************************************************************************)
EXTENDS Investigation, FiniteSetTheorems, WellFoundedInduction, TLAPS

Searching == {"list_users", "hr_candidates", "fallback", "get_user",
              "list_groups", "list_policies", "login"}

(* Each kind of call passes through places of its own.                     *)
OnItsWay ==
  /\ place \in {"hr", "by_id", "lookup"} => call.op \in Tools
  /\ place \in {"by_id", "lookup"} => call.op # "create_user"
  /\ place \in {"group", "patch"} => Changing
  /\ place = "create" => call.op = "create_user"
  /\ place \in Searching => Investigating

(* A write is the last thing a call does.                                  *)
WritesAtTheEnd == place # "done" => written = {} /\ answer = NoAnswer

(* What can be counted: the users, those listed and the employees.         *)
AllFinite == IsFiniteSet(users) /\ IsFiniteSet(listed) /\ IsFiniteSet(staff)

(* What is written is what the call is for.                                *)
OwnWrites == \A w \in written : w[1] = call.op /\ w[1] \in HighRisk

IInv == OnItsWay /\ WritesAtTheEnd /\ OwnWrites /\ AllFinite /\ AnswerTellsWrites

(* A step that writes nothing and claims no write.                         *)
Silent ==
  /\ UNCHANGED <<call, written>>
  /\ \/ place' # "done" /\ answer' = answer
     \/ /\ place' = "done"
        /\ \/ answer' \in {Error, Confirm}
           \/ call.op \notin HighRisk /\ \E id : answer' = Answer("success", id)

-----------------------------------------------------------------------------
LEMMA SilentStep ==
  ASSUME IInv, place # "done", Silent
  PROVE  WritesAtTheEnd' /\ OwnWrites' /\ AnswerTellsWrites'
<1>0. OwnWrites'
  BY DEF IInv, WritesAtTheEnd, Silent, OwnWrites
<1>1. written' = {} /\ call' = call /\ answer = NoAnswer
  BY DEF IInv, WritesAtTheEnd, Silent
<1>2. Cardinality(written') <= 1
  BY <1>1, FS_EmptySet
<1>3. CASE place' # "done" /\ answer' = answer
  BY <1>0, <1>1, <1>2, <1>3 DEF WritesAtTheEnd, AnswerTellsWrites, NoAnswer, Answer
<1>4. CASE place' = "done" /\ answer' \in {Error, Confirm}
  BY <1>0, <1>1, <1>2, <1>4 DEF WritesAtTheEnd, AnswerTellsWrites, Error, Confirm, Answer
<1>5. CASE /\ place' = "done" /\ call.op \notin HighRisk
           /\ \E id : answer' = Answer("success", id)
  BY <1>0, <1>1, <1>2, <1>5 DEF WritesAtTheEnd, AnswerTellsWrites, Answer
<1> QED
  BY <1>0, <1>3, <1>4, <1>5 DEF Silent

LEMMA EmployeesFinite ==
  ASSUME NEW q
  PROVE  IsFiniteSet(EmployeesWith(q))
BY DirectoryAssumption, FS_Subset DEF EmployeesWith

LEMMA PagesFinite ==
  ASSUME NEW S, IsFiniteSet(S), NEW filter, NEW count, NEW page \in Pages(S, filter, count)
  PROVE  page \subseteq S /\ IsFiniteSet(page)
<1>1. page \subseteq S
  BY DEF Pages, kSubset
<1> QED
  BY <1>1, FS_Subset

LEMMA CasesOfCardinality ==
  ASSUME NEW S, IsFiniteSet(S)
  PROVE  S = {} \/ Cardinality(S) = 1 \/ Cardinality(S) > 1
<1>1. Cardinality(S) \in Nat /\ (Cardinality(S) = 0 <=> S = {})
  BY FS_EmptySet, FS_CardinalityType
<1> QED
  BY <1>1

LEMMA InitIInv == Init => IInv
<1> SUFFICES ASSUME Init PROVE IInv
  OBVIOUS
<1> USE DEF Init, IdInit
<1>1. OnItsWay /\ WritesAtTheEnd /\ OwnWrites
  BY DEF OnItsWay, WritesAtTheEnd, OwnWrites, Searching
<1>2. AllFinite
  BY DirectoryAssumption, FS_EmptySet DEF AllFinite
<1>3. AnswerTellsWrites
  BY FS_EmptySet DEF AnswerTellsWrites, NoAnswer, Answer
<1> QED
  BY <1>1, <1>2, <1>3 DEF IInv

(* The steps that write nothing.                                           *)
LEMMA ToolStepIsSilent ==
  ASSUME IInv, UNCHANGED found,
         Begin \/ ReadFails \/ HrForSelector \/ HrForCreate \/ GetById
           \/ LookUpUser \/ FindGroup \/ WriteFails
  PROVE  place # "done" /\ Silent /\ OnItsWay' /\ AllFinite'
<1> USE DEF Return, Continue, Silent, OnItsWay, Searching, Investigating, Changing, Tools
<1>0. OnItsWay /\ AllFinite
  BY DEF IInv
<1>1. UNCHANGED <<users, listed, staff>> => AllFinite'
  BY <1>0 DEF AllFinite
<1>2. CASE Begin
  BY <1>0, <1>1, <1>2 DEF Begin, CreateOrRefuse, domain, found
<1>3. CASE ReadFails
  BY <1>0, <1>1, <1>3 DEF ReadFails, domain, work, found
<1>4. CASE HrForSelector
  BY <1>0, <1>1, <1>4 DEF HrForSelector, Ambiguous, domain, found
<1>5. CASE HrForCreate
  <2> DEFINE employees == EmployeesWith(query)
  <2>1. employees = {} \/ Cardinality(employees) = 1 \/ Cardinality(employees) > 1
    BY EmployeesFinite, CasesOfCardinality
  <2>2. CASE Cardinality(employees) > 1
    <3>1. employees # {} /\ Cardinality(employees) # 1
      BY <2>2, FS_EmptySet
    <3>2. Return(Confirm) /\ UNCHANGED <<selector, query>>
      BY <1>5, <2>2, <3>1 DEF HrForCreate
    <3> QED
      BY <1>0, <1>1, <1>5, <3>2 DEF HrForCreate, domain, found
  <2>3. CASE Cardinality(employees) = 1
    BY <1>0, <1>1, <1>5, <2>3, FS_EmptySet DEF HrForCreate, CreateOrRefuse, domain, found
  <2>4. CASE employees = {} /\ CanRelax(query)
    BY <1>0, <1>1, <1>5, <2>4, FS_EmptySet DEF HrForCreate, domain, found
  <2>5. CASE employees = {} /\ ~CanRelax(query)
    BY <1>0, <1>1, <1>5, <2>5, FS_EmptySet DEF HrForCreate, CreateOrRefuse, domain, found
  <2> QED
    BY <2>1, <2>2, <2>3, <2>4, <2>5
<1>6. CASE GetById
  BY <1>0, <1>1, <1>6 DEF GetById, Found, HighRisk, domain, found
<1>7. CASE LookUpUser
  BY <1>0, <1>1, <1>7 DEF LookUpUser, Found, HighRisk, Ambiguous, domain, found
<1>8. CASE FindGroup
  BY <1>0, <1>1, <1>8 DEF FindGroup, domain, found
<1>9. CASE WriteFails
  BY <1>0, <1>1, <1>9 DEF WriteFails, AfterLoss, LostAnswer, domain, work, found
<1> QED
  BY <1>2, <1>3, <1>4, <1>5, <1>6, <1>7, <1>8, <1>9

(* Patch and Create write once, and end the call.                          *)
LEMMA WriteTells ==
  ASSUME IInv, UNCHANGED found, Patch \/ Create
  PROVE  IInv'
<1>1. place' = "done"
  BY DEF Patch, Create, Return
<1>2. AllFinite'
  <2>1. IsFiniteSet(users)
    BY DEF IInv, AllFinite
  <2>2. ASSUME Patch PROVE IsFiniteSet(users')
    BY <2>1, <2>2 DEF Patch
  <2>3. ASSUME Create PROVE IsFiniteSet(users')
    <3>1. PICK u : users' = users \union {u}
      BY <2>3 DEF Create
    <3> QED
      BY <2>1, <3>1, FS_AddElement
  <2>4. IsFiniteSet(users')
    BY <2>2, <2>3
  <2> QED
    BY <2>4 DEF IInv, AllFinite, found
<1>3. PICK w, target :
        /\ written' = {w} /\ w[3] = target
        /\ answer' \in {Answer("success", target), Error}
  <2>1. written = {}
    BY DEF IInv, WritesAtTheEnd, Patch, Create
  <2>2. CASE Patch
    <3>1. written' = {<<call.op, group, user>>} /\ <<call.op, group, user>>[3] = user
      BY <2>1, <2>2 DEF Patch
    <3>2. answer' \in {Answer("success", user), Error}
      BY <2>2 DEF Patch, Return, AfterLoss, LostAnswer
    <3> QED
      BY <3>1, <3>2
  <2>3. CASE Create
    <3>1. /\ written' = {<<call.op, None, "created">>}
          /\ <<call.op, None, "created">>[3] = "created"
      BY <2>1, <2>3 DEF Create
    <3>2. answer' \in {Answer("success", "created"), Error}
      BY <2>3 DEF Create, Return, AfterLoss, LostAnswer
    <3> QED
      BY <3>1, <3>2
  <2> QED
    BY <2>2, <2>3
<1>4. Cardinality(written') <= 1
  BY <1>3, FS_Singleton
<1>5. OwnWrites'
  <2>1. CASE Patch
    BY <2>1 DEF Patch, IInv, OnItsWay, WritesAtTheEnd, OwnWrites, Changing, HighRisk
  <2>2. CASE Create
    BY <2>2 DEF Create, IInv, OnItsWay, WritesAtTheEnd, OwnWrites, HighRisk
  <2> QED
    BY <2>1, <2>2
<1>6. AnswerTellsWrites'
  BY <1>3, <1>4 DEF AnswerTellsWrites, Answer, Error
<1> QED
  BY <1>1, <1>2, <1>5, <1>6 DEF IInv, OnItsWay, WritesAtTheEnd, Searching

(* Who is meant is decided without a write: it is the only candidate, or   *)
(* the account of the only employee when there is no candidate.            *)
LEMMA ResolveCases ==
  ASSUME NEW us, IsFiniteSet(us), NEW employees, IsFiniteSet(employees),
         Resolve(us, employees)
  PROVE  \/ /\ place' = "get_user" /\ answer' = answer
            /\ \/ \E u \in us : Candidates(us) = {u} /\ user' = u.id
               \/ /\ Candidates(us) = {}
                  /\ \E e : employees = {e} /\ \E u \in AccountsOf(us, e) : user' = u.id
         \/ /\ place' = "fallback" /\ UNCHANGED <<answer, user>>
            /\ Candidates(us) = {} /\ \E e : employees = {e}
         \/ place' = "done" /\ answer' \in {Error, Confirm} /\ UNCHANGED user
<1>1. IsFiniteSet(Candidates(us)) /\ Candidates(us) \subseteq us
  BY FS_Subset, FS_EmptySet DEF Candidates, BestOf
<1>2. /\ Candidates(us) = {} \/ Cardinality(Candidates(us)) = 1 \/ Cardinality(Candidates(us)) > 1
      /\ employees = {} \/ Cardinality(employees) = 1 \/ Cardinality(employees) > 1
  BY <1>1, CasesOfCardinality
<1>3. CASE Cardinality(Candidates(us)) = 1
  <2>1. PICK u : Candidates(us) = {u}
    BY <1>1, <1>3, FS_Singleton
  <2>2. ~(Cardinality(Candidates(us)) > 1) /\ Candidates(us) # {}
    BY <1>3, <2>1
  <2>3. GoOn(IdOf(Candidates(us)))
    BY <1>3, <2>2 DEF Resolve
  <2>4. IdOf(Candidates(us)) = u.id
    BY <2>1 DEF IdOf
  <2> QED
    BY <1>1, <2>1, <2>3, <2>4 DEF GoOn, Continue
<1>4. CASE Cardinality(Candidates(us)) > 1
  <2>1. Cardinality(Candidates(us)) # 1 /\ Candidates(us) # {}
    BY <1>4, FS_EmptySet
  <2>2. Return(Confirm) /\ UNCHANGED user
    BY <1>4, <2>1 DEF Resolve
  <2> QED
    BY <2>2 DEF Return
<1>5. ASSUME Candidates(us) = {}
      PROVE  Cardinality(Candidates(us)) # 1 /\ ~(Cardinality(Candidates(us)) > 1)
  BY <1>5, FS_EmptySet
<1>6. CASE Candidates(us) = {} /\ Cardinality(employees) = 1
  <2>1. PICK e : employees = {e}
    BY <1>6, FS_Singleton
  <2>2. (CHOOSE x \in employees : TRUE) = e
    BY <2>1
  <2>3. ~(Cardinality(employees) > 1) /\ employees # {}
    BY <1>6, <2>1
  <2>4. \/ Continue("fallback") /\ UNCHANGED user
        \/ \E u \in AccountsOf(us, e) : GoOn(u.id)
    BY <1>5, <1>6, <2>2, <2>3 DEF Resolve
  <2>5. CASE Continue("fallback") /\ UNCHANGED user
    BY <1>6, <2>1, <2>5 DEF Continue
  <2>6. CASE \E u \in AccountsOf(us, e) : GoOn(u.id)
    BY <1>6, <2>1, <2>6 DEF Continue, GoOn
  <2> QED
    BY <2>4, <2>5, <2>6
<1>7. CASE Candidates(us) = {} /\ Cardinality(employees) > 1
  <2>1. Cardinality(employees) # 1 /\ employees # {}
    BY <1>7, FS_EmptySet
  <2>2. Return(Confirm) /\ UNCHANGED user
    BY <1>5, <1>7, <2>1 DEF Resolve
  <2> QED
    BY <2>2 DEF Return
<1>8. CASE Candidates(us) = {} /\ employees = {}
  <2>1. Cardinality(employees) # 1 /\ ~(Cardinality(employees) > 1)
    BY <1>8, FS_EmptySet
  <2>2. Return(Error) /\ UNCHANGED user
    BY <1>5, <1>8, <2>1 DEF Resolve
  <2> QED
    BY <2>2 DEF Return
<1> QED
  BY <1>2, <1>3, <1>4, <1>6, <1>7, <1>8

LEMMA InvestigationIsSilent ==
  ASSUME IInv, Investigate
  PROVE  place # "done" /\ Silent /\ OnItsWay' /\ AllFinite'
<1> USE DEF Return, Continue, Silent, OnItsWay, Searching, Investigating, Changing, Tools
<1>0. OnItsWay /\ AllFinite
  BY DEF IInv
<1>1. UNCHANGED <<users, listed, staff>> => AllFinite'
  BY <1>0 DEF AllFinite
<1>2. CASE Ask
  BY <1>0, <1>1, <1>2 DEF Ask, domain, found
<1>3. CASE ListUsers
  <2>1. PICK page \in Pages(users, Everyone, PageMax) :
          /\ listed' = page
          /\ IF Conditions(selector) # << >>
             THEN Continue("hr_candidates") /\ UNCHANGED user
             ELSE Resolve(page, {})
    BY <1>3 DEF ListUsers
  <2>2. IsFiniteSet(page)
    BY <1>0, <2>1, PagesFinite DEF AllFinite
  <2>3. AllFinite'
    BY <1>0, <1>3, <2>1, <2>2 DEF AllFinite, ListUsers, domain
  <2>4. \/ place' \in {"hr_candidates", "get_user", "fallback"} /\ answer' = answer
        \/ place' = "done" /\ answer' \in {Error, Confirm}
    BY <2>1, <2>2, ResolveCases, FS_EmptySet
  <2> QED
    BY <1>0, <1>3, <2>3, <2>4 DEF ListUsers
<1>4. CASE QueryHr
  <2>1. PICK employees \in {{}, EmployeesWith(Conditions(selector))} :
          staff' = employees /\ Resolve(listed, employees)
    BY <1>4 DEF QueryHr
  <2>2. IsFiniteSet(employees)
    BY <2>1, EmployeesFinite, FS_EmptySet
  <2>3. AllFinite'
    BY <1>0, <1>4, <2>1, <2>2 DEF AllFinite, QueryHr, domain
  <2>4. \/ place' \in {"get_user", "fallback"} /\ answer' = answer
        \/ place' = "done" /\ answer' \in {Error, Confirm}
    BY <1>0, <2>1, <2>2, ResolveCases DEF AllFinite
  <2> QED
    BY <1>0, <1>4, <2>3, <2>4 DEF QueryHr
<1>5. CASE Fallback
  BY <1>0, <1>1, <1>5 DEF Fallback, Loaded, domain
<1>6. CASE FallbackFails
  BY <1>0, <1>1, <1>6 DEF FallbackFails, domain, work, found
<1>7. CASE GetUser
  BY <1>0, <1>1, <1>7 DEF GetUser, Loaded, domain, work
<1>8. CASE ListGroups
  BY <1>0, <1>1, <1>8 DEF ListGroups, domain, work
<1>9. CASE ListPolicies
  BY <1>0, <1>1, <1>9 DEF ListPolicies, domain, work
<1>10. CASE RequestFails
  BY <1>0, <1>1, <1>10 DEF RequestFails, domain, work, found
<1>11. CASE Conclude
  BY <1>0, <1>1, <1>11 DEF Conclude, HighRisk, domain, work
<1> QED
  BY <1>2, <1>3, <1>4, <1>5, <1>6, <1>7, <1>8, <1>9, <1>10, <1>11 DEF Investigate

(* What others do touches neither the call nor what can be counted.        *)
LEMMA OthersKeepIInv ==
  ASSUME IInv, Others, UNCHANGED found
  PROVE  IInv'
<1>1. IsFiniteSet(users')
  <2>1. IsFiniteSet(users)
    BY DEF IInv, AllFinite
  <2>2. ASSUME NEW u, users' = users \union {u} PROVE IsFiniteSet(users')
    BY <2>1, <2>2, FS_AddElement
  <2>3. ASSUME NEW u, users' = users \ {u} PROVE IsFiniteSet(users')
    BY <2>1, <2>3, FS_RemoveElement
  <2> QED
    BY <2>1, <2>2, <2>3 DEF Others
<1> QED
  BY <1>1 DEF IInv, AllFinite, OnItsWay, WritesAtTheEnd, OwnWrites, AnswerTellsWrites,
     Others, work, found, Investigating, Changing

LEMMA StepIInv == IInv /\ [Next]_vars => IInv'
<1> SUFFICES ASSUME IInv, [Next]_vars PROVE IInv'
  OBVIOUS
<1>1. ASSUME place # "done", Silent, OnItsWay', AllFinite' PROVE IInv'
  BY <1>1, SilentStep DEF IInv
<1>2. CASE ToolNext /\ UNCHANGED found
  BY <1>1, <1>2, ToolStepIsSilent, WriteTells DEF ToolNext
<1>3. CASE Others /\ UNCHANGED found
  BY <1>3, OthersKeepIInv
<1>4. CASE Investigate
  BY <1>1, <1>4, InvestigationIsSilent
<1>5. CASE UNCHANGED vars
  BY <1>5 DEF vars, idVars, domain, work, found, IInv, AllFinite, OnItsWay,
     WritesAtTheEnd, OwnWrites, AnswerTellsWrites, Investigating, Changing
<1> QED
  BY <1>2, <1>3, <1>4, <1>5 DEF Next

LEMMA Invariance == Spec => []IInv
BY InitIInv, StepIInv, PTL DEF Spec

(* For any directory, any HR database and any changes by others: success   *)
(* of a high-risk tool means one write, of the user it reports, a request  *)
(* for confirmation means none, and no call writes twice.                  *)
THEOREM AnswersTellWrites == Spec => []AnswerTellsWrites
<1>1. IInv => AnswerTellsWrites
  BY DEF IInv
<1> QED
  BY <1>1, Invariance, PTL

-----------------------------------------------------------------------------
(* Only others and the writes of the tools change the directory.           *)
LEMMA DirectoryChanges ==
  ASSUME [Next]_vars
  PROVE  \/ Others /\ UNCHANGED found
         \/ (Patch \/ Create) /\ UNCHANGED found
         \/ UNCHANGED domain
BY DEF Next, ToolNext, Investigate, vars, idVars, Begin, ReadFails, HrForSelector, HrForCreate,
       GetById, LookUpUser, FindGroup, WriteFails, Ask, ListUsers, QueryHr, Fallback,
       FallbackFails, GetUser, ListGroups, ListPolicies, RequestFails, Conclude

GroupIds == {g.id : g \in Groups}

DomainTyped ==
  /\ {u.id : u \in users} \subseteq Ids
  /\ members \subseteq GroupIds \X Ids
  /\ changes \in 0..MaxChanges
  /\ kept \subseteq members /\ members \subseteq held

(* Where a user or a group is needed, one was found.                       *)
FoundTyped ==
  /\ {u.id : u \in listed} \subseteq Ids
  /\ user \in Ids \union {None} /\ group \in GroupIds \union {None}
  /\ place \in {"group", "patch", "get_user", "list_groups", "list_policies", "login"}
       => user # None
  /\ place = "patch" => group # None

AnswerTyped ==
  /\ answer.status \in {"none", "success", "needs_confirmation", "error"}
  /\ place = "done" <=> answer.status # "none"

ReportTyped ==
  /\ reported \subseteq {g.name : g \in Groups}
  /\ matched \subseteq Statements
  /\ findings \subseteq Categories

Typed == DomainTyped /\ FoundTyped /\ AnswerTyped /\ ReportTyped /\ call \in Calls

LEMMA NoneIsNoId == None \notin Ids /\ None \notin GroupIds /\ "created" \in Ids
BY DirectoryAssumption DEF Ids, GroupIds

LEMMA InitTyped == Init => Typed
<1> SUFFICES ASSUME Init PROVE Typed
  OBVIOUS
<1> USE DEF Init, IdInit
<1>1. DomainTyped
  BY DirectoryAssumption, ChangesAssumption DEF DomainTyped, Ids, GroupIds
<1> QED
  BY <1>1 DEF Typed, FoundTyped, AnswerTyped, ReportTyped, NoAnswer, Answer

LEMMA DomainStaysTyped ==
  ASSUME Typed, [Next]_vars PROVE DomainTyped'
<1> USE DEF Typed, DomainTyped
<1>1. CASE Others
  <2>1. {u.id : u \in users'} \subseteq Ids
    BY <1>1 DEF Others, Ids
  <2>2. members' \subseteq GroupIds \X Ids
    <3>1. ASSUME NEW g \in Groups, NEW u \in users,
                 members' = SymDiff(members, {<<g.id, u.id>>})
          PROVE  members' \subseteq GroupIds \X Ids
      BY <3>1 DEF SymDiff, GroupIds
    <3> QED
      BY <1>1, <3>1 DEF Others
  <2>3. kept' \subseteq members' /\ members' \subseteq held'
    BY <1>1 DEF Others
  <2>4. changes' \in 0..MaxChanges
    BY <1>1, ChangesAssumption DEF Others
  <2> QED
    BY <2>1, <2>2, <2>3, <2>4
<1>2. CASE Patch
  <2>1. group \in GroupIds /\ user \in Ids
    BY <1>2 DEF FoundTyped, Patch
  <2>2. members' \subseteq GroupIds \X Ids
    BY <1>2, <2>1 DEF Patch, Write
  <2> QED
    BY <1>2, <2>2 DEF Patch
<1>3. CASE Create
  BY <1>3, NoneIsNoId DEF Create
<1>4. CASE UNCHANGED domain
  BY <1>4 DEF domain
<1> QED
  BY <1>1, <1>2, <1>3, <1>4, DirectoryChanges

LEMMA AnswerStaysTyped ==
  ASSUME IInv, Typed, [Next]_vars PROVE AnswerTyped'
<1> USE DEF Typed, AnswerTyped, Answer
<1>1. ASSUME place # "done", Silent PROVE AnswerTyped'
  BY <1>1 DEF IInv, WritesAtTheEnd, Silent, Error, Confirm, NoAnswer
<1>2. CASE Patch \/ Create
  BY <1>2 DEF Patch, Create, Return, AfterLoss, LostAnswer, Error
<1>3. CASE ToolNext /\ UNCHANGED found
  BY <1>1, <1>2, <1>3, ToolStepIsSilent DEF ToolNext
<1>4. CASE Investigate
  BY <1>1, <1>4, InvestigationIsSilent
<1>5. CASE Others
  BY <1>5 DEF Others
<1>6. CASE UNCHANGED vars
  BY <1>6 DEF vars, idVars
<1> QED
  BY <1>3, <1>4, <1>5, <1>6 DEF Next

LEMMA LoadedCases ==
  ASSUME NEW id, Loaded(id)
  PROVE  /\ reported' = {} \/ reported' = GroupsOf(id)
         /\ reported' \subseteq {g.name : g \in Groups}
         /\ place' \in {"list_groups", "list_policies"} /\ answer' = answer
         /\ place' = "list_groups" => reported' = {}
BY DEF Loaded, GroupsOf, Continue

LEMMA ReportStaysTyped ==
  ASSUME Typed, [Next]_vars PROVE ReportTyped'
<1> USE DEF Typed, ReportTyped, found
<1>1. CASE UNCHANGED found
  BY <1>1
<1>2. CASE Fallback
  <2>1. reported' \subseteq {g.name : g \in Groups} \/ UNCHANGED reported
    BY <1>2, LoadedCases DEF Fallback
  <2> QED
    BY <1>2, <2>1 DEF Fallback
<1>3. CASE GetUser
  BY <1>3, LoadedCases DEF GetUser
<1>4. CASE ListGroups
  <2>1. \A page \in Pages(Groups, Everyone, PageMax) : GroupsOn(page, user) \subseteq {g.name : g \in Groups}
    BY DEF Pages, kSubset, GroupsOn
  <2> QED
    BY <1>4, <2>1 DEF ListGroups
<1>5. CASE ListPolicies
  BY <1>5 DEF ListPolicies, MatchPolicies
<1>6. CASE Conclude
  BY <1>6 DEF Conclude, Findings
<1>7. CASE ListUsers \/ QueryHr
  BY <1>7 DEF ListUsers, QueryHr
<1> QED
  BY <1>1, <1>2, <1>3, <1>4, <1>5, <1>6, <1>7
     DEF Next, Investigate, Ask, FallbackFails, RequestFails, vars

(* The id of the only entry of a page is that of an entry.                 *)
LEMMA IdOfOne ==
  ASSUME NEW S, IsFiniteSet(S), NEW T, T \subseteq S, Cardinality(T) = 1
  PROVE  \E x \in S : T = {x} /\ IdOf(T) = x.id
<1>1. IsFiniteSet(T)
  BY FS_Subset
<1>2. PICK x : T = {x}
  BY <1>1, FS_Singleton
<1>3. IdOf(T) = x.id
  BY <1>2 DEF IdOf
<1> QED
  BY <1>2, <1>3

LEMMA ResolvedSubset == \A page, s : Resolved(page, s) \subseteq page
BY DEF Resolved

(* A search for the employee finds one account, or ends the call.          *)
LEMMA FallbackCases ==
  ASSUME AllFinite, Fallback
  PROVE  LET sought == Sought(FallbackSelector(selector, CHOOSE e \in staff : TRUE)) IN
         \/ \E page \in Lookup(users, sought), u \in users :
              Resolved(page, sought) = {u} /\ user' = u.id /\ Loaded(u.id)
         \/ Return(Confirm) /\ UNCHANGED <<user, reported>>
<1> DEFINE s == FallbackSelector(selector, CHOOSE e \in staff : TRUE)
           sought == Sought(s)
<1>1. PICK page \in Lookup(users, sought) :
        IF Cardinality(InHr(s)) <= 1 /\ Cardinality(Resolved(page, sought)) = 1
        THEN user' = IdOf(Resolved(page, sought)) /\ Loaded(IdOf(Resolved(page, sought)))
        ELSE Return(Confirm) /\ UNCHANGED <<user, reported>>
  BY DEF Fallback
<1> HIDE DEF s, sought
<1>2. Resolved(page, sought) \subseteq users
  BY <1>1, PagesFinite, ResolvedSubset DEF AllFinite, Lookup
<1>3. CASE Cardinality(InHr(s)) <= 1 /\ Cardinality(Resolved(page, sought)) = 1
  <2>1. PICK u \in users : Resolved(page, sought) = {u} /\ IdOf(Resolved(page, sought)) = u.id
    BY <1>2, <1>3, IdOfOne DEF AllFinite
  <2> QED
    BY <1>1, <1>3, <2>1 DEF sought, s
<1>4. CASE ~(Cardinality(InHr(s)) <= 1 /\ Cardinality(Resolved(page, sought)) = 1)
  BY <1>1, <1>4
<1> QED
  BY <1>3, <1>4

LEMMA FoundCases ==
  ASSUME NEW id, Found(id)
  PROVE  /\ user' = id
         /\ \/ Changing /\ place' = "group"
            \/ ~Changing /\ place' = "done"
BY DEF Found, Continue, Return

(* The lookup of a user finds one there is, and ends the call otherwise.   *)
LEMMA LookUpUserCases ==
  ASSUME AllFinite, LookUpUser
  PROVE  \/ /\ \E page \in Lookup(users, selector) :
                 \E u \in users : Resolved(page, selector) = {u} /\ user' = u.id
            /\ (Changing /\ place' = "group") \/ place' = "done"
         \/ place' = "done" /\ UNCHANGED user
<1>1. PICK page \in Lookup(users, selector) :
        LET bearing == Resolved(page, selector) IN
        IF Cardinality(bearing) = 1 THEN Found(IdOf(bearing))
        ELSE Return(IF bearing = {} THEN Error ELSE Ambiguous) /\ UNCHANGED user
  BY DEF LookUpUser
<1>2. page \subseteq users
  BY PagesFinite DEF AllFinite, Lookup
<1>3. CASE Cardinality(Resolved(page, selector)) = 1
  <2>1. PICK u \in users : Resolved(page, selector) = {u} /\ IdOf(Resolved(page, selector)) = u.id
    BY <1>2, <1>3, IdOfOne, ResolvedSubset DEF AllFinite
  <2>2. Found(u.id)
    BY <1>1, <1>3, <2>1
  <2> QED
    BY <2>1, <2>2, FoundCases
<1>4. CASE Cardinality(Resolved(page, selector)) # 1
  BY <1>1, <1>4 DEF Return
<1> QED
  BY <1>3, <1>4

LEMMA GetByIdCases ==
  ASSUME GetById
  PROVE  \/ /\ \E u \in users : u.id = selector["id"] /\ user' = selector["id"]
            /\ (Changing /\ place' = "group") \/ place' = "done"
         \/ place' = "done" /\ UNCHANGED user
<1>1. CASE {u \in users : u.id = selector["id"]} = {}
  BY <1>1 DEF GetById, Return
<1>2. CASE {u \in users : u.id = selector["id"]} # {}
  BY <1>2, FoundCases DEF GetById
<1> QED
  BY <1>1, <1>2

LEMMA FindGroupCases ==
  ASSUME FindGroup
  PROVE  /\ UNCHANGED user
         /\ \/ place' = "patch" /\ group' \in GroupIds
            \/ place' = "done" /\ UNCHANGED group
<1> DEFINE s == Given(call.group)
<1>1. PICK bearing \in IF Has(s, {"id"}) THEN {{g \in Groups : g.id = s["id"]}}
                       ELSE {Resolved(page, s) : page \in Lookup(Groups, s)} :
        IF Cardinality(bearing) = 1
        THEN Continue("patch") /\ group' = IdOf(bearing)
        ELSE Return(IF bearing = {} THEN Error ELSE Confirm) /\ UNCHANGED group
  BY DEF FindGroup
<1>2. bearing \subseteq Groups
  <2>1. \A page \in Lookup(Groups, s) : Resolved(page, s) \subseteq Groups
    BY DirectoryAssumption, PagesFinite, ResolvedSubset DEF Lookup
  <2> QED
    BY <1>1, <2>1
<1>3. CASE Cardinality(bearing) = 1
  <2>1. PICK g \in Groups : IdOf(bearing) = g.id
    BY <1>2, <1>3, IdOfOne, DirectoryAssumption
  <2> QED
    BY <1>1, <1>3, <2>1 DEF FindGroup, Continue, GroupIds
<1>4. CASE Cardinality(bearing) # 1
  BY <1>1, <1>4 DEF FindGroup, Return
<1> QED
  BY <1>3, <1>4

(* Only what the investigation lists or the tools find becomes the user.   *)
LEMMA ListedStaysTyped ==
  ASSUME IInv, Typed, [Next]_vars PROVE {u.id : u \in listed'} \subseteq Ids
<1>1. CASE ListUsers
  <2>1. PICK page \in Pages(users, Everyone, PageMax) : listed' = page
    BY <1>1 DEF ListUsers
  <2>2. page \subseteq users
    BY <2>1, PagesFinite DEF IInv, AllFinite
  <2> QED
    BY <2>1, <2>2 DEF Typed, DomainTyped
<1>2. CASE UNCHANGED listed
  BY <1>2 DEF Typed, FoundTyped
<1> QED
  BY <1>1, <1>2 DEF Next, Investigate, Ask, QueryHr, Fallback, FallbackFails, GetUser, ListGroups,
     ListPolicies, RequestFails, Conclude, vars, found

LEMMA ResolveFindsAnId ==
  ASSUME NEW us, IsFiniteSet(us), {u.id : u \in us} \subseteq Ids,
         NEW employees, IsFiniteSet(employees), Resolve(us, employees)
  PROVE  \/ place' = "get_user" /\ user' \in Ids
         \/ place' \in {"fallback", "done"} /\ UNCHANGED user
<1>1. \A u \in us : u.id \in Ids
  OBVIOUS
<1>2. \A e : AccountsOf(us, e) \subseteq us
  BY DEF AccountsOf
<1> QED
  BY <1>1, <1>2, ResolveCases

LEMMA FoundStaysTyped ==
  ASSUME IInv, Typed, [Next]_vars PROVE FoundTyped'
<1> DEFINE Needing == {"group", "patch", "get_user", "list_groups", "list_policies", "login"}
<1>0. /\ FoundTyped /\ AllFinite /\ \A u \in users : u.id \in Ids
      /\ {u.id : u \in listed'} \subseteq Ids
  BY ListedStaysTyped DEF Typed, DomainTyped, IInv
<1>1. ASSUME user' = user \/ user' \in Ids, UNCHANGED group,
             place' \in Needing => user' # None, place' # "patch"
      PROVE  FoundTyped'
  BY <1>0, <1>1 DEF FoundTyped
<1>2. ASSUME UNCHANGED <<user, group>>, place' \notin Needing PROVE FoundTyped'
  BY <1>1, <1>2
<1>3. CASE Begin \/ HrForSelector
  BY <1>2, <1>3 DEF Begin, HrForSelector, CreateOrRefuse, Return, Continue
<1>4. CASE HrForCreate
  <2>1. place' \in {"done", "create", "hr"}
    <3>1. EmployeesWith(query) = {} \/ Cardinality(EmployeesWith(query)) = 1
            \/ Cardinality(EmployeesWith(query)) > 1
      BY EmployeesFinite, CasesOfCardinality
    <3> QED
      BY <1>4, <3>1 DEF HrForCreate, CreateOrRefuse, Return, Continue
  <2> QED
    BY <1>2, <1>4, <2>1 DEF HrForCreate
<1>5. CASE GetById
  <2>1. user' = user \/ user' \in Ids
    BY <1>0, <1>5, GetByIdCases
  <2>2. place' \in Needing => user' # None
    BY <1>0, <1>5, GetByIdCases, NoneIsNoId
  <2>3. place' # "patch"
    BY <1>5, GetByIdCases
  <2> QED
    BY <1>1, <1>5, <2>1, <2>2, <2>3 DEF GetById
<1>6. CASE LookUpUser
  <2>1. user' = user \/ user' \in Ids
    BY <1>0, <1>6, LookUpUserCases
  <2>2. place' \in Needing => user' # None
    BY <1>0, <1>6, LookUpUserCases, NoneIsNoId
  <2>3. place' # "patch"
    BY <1>6, <1>0, LookUpUserCases
  <2> QED
    BY <1>1, <1>6, <2>1, <2>2, <2>3 DEF LookUpUser
<1>7. CASE FindGroup
  <2>1. place = "group" /\ UNCHANGED user /\ user # None
    BY <1>0, <1>7, FindGroupCases DEF FoundTyped, FindGroup
  <2>2. CASE place' = "patch" /\ group' \in GroupIds
    BY <1>0, <2>1, <2>2, NoneIsNoId DEF FoundTyped, FindGroup
  <2>3. CASE place' = "done" /\ UNCHANGED group
    BY <1>2, <2>1, <2>3 DEF FindGroup
  <2> QED
    BY <1>7, <2>2, <2>3, FindGroupCases
<1>8. CASE ReadFails \/ Patch \/ WriteFails
  BY <1>2, <1>8 DEF ReadFails, Patch, WriteFails, Return, work
<1>9. CASE Create
  BY <1>1, <1>9, NoneIsNoId DEF Create, Return
<1>10. CASE Ask \/ FallbackFails \/ RequestFails \/ Conclude
  BY <1>2, <1>10 DEF Ask, FallbackFails, RequestFails, Conclude, Return, Continue, work
<1>11. CASE ListUsers
  <2>1. PICK page \in Pages(users, Everyone, PageMax) :
          IF Conditions(selector) # << >>
          THEN Continue("hr_candidates") /\ UNCHANGED user
          ELSE Resolve(page, {})
    BY <1>11 DEF ListUsers
  <2>2. IsFiniteSet(page) /\ {u.id : u \in page} \subseteq Ids /\ IsFiniteSet({})
    BY <1>0, <2>1, PagesFinite, FS_EmptySet DEF AllFinite
  <2>3. \/ place' \in {"get_user"} /\ user' \in Ids
        \/ place' \in {"hr_candidates", "fallback", "done"} /\ UNCHANGED user
    BY <2>1, <2>2, ResolveFindsAnId DEF Continue
  <2> QED
    BY <1>1, <1>11, <2>3, NoneIsNoId DEF ListUsers
<1>12. CASE QueryHr
  <2>1. PICK employees \in {{}, EmployeesWith(Conditions(selector))} : Resolve(listed, employees)
    BY <1>12 DEF QueryHr
  <2>2. IsFiniteSet(employees)
    BY <2>1, EmployeesFinite, FS_EmptySet
  <2>3. {u.id : u \in listed} \subseteq Ids /\ IsFiniteSet(listed)
    BY <1>0 DEF FoundTyped, AllFinite
  <2>4. \/ place' \in {"get_user"} /\ user' \in Ids
        \/ place' \in {"fallback", "done"} /\ UNCHANGED user
    BY <2>1, <2>2, <2>3, ResolveFindsAnId
  <2> QED
    BY <1>1, <1>12, <2>4, NoneIsNoId DEF QueryHr
<1>13. CASE Fallback
  <2>3. \/ user' \in Ids /\ place' # "patch"
        \/ UNCHANGED user /\ place' = "done"
    BY <1>0, <1>13, FallbackCases, LoadedCases DEF Return
  <2> QED
    BY <1>1, <1>13, <2>3, NoneIsNoId DEF Fallback
<1>14. CASE GetUser
  BY <1>0, <1>1, <1>14, LoadedCases DEF GetUser, work, FoundTyped
<1>15. CASE ListGroups \/ ListPolicies
  BY <1>0, <1>1, <1>15 DEF ListGroups, ListPolicies, Continue, work, FoundTyped
<1>16. CASE Others
  BY <1>0, <1>16 DEF Others, work, FoundTyped
<1>17. CASE UNCHANGED vars
  BY <1>0, <1>17 DEF vars, idVars, work, FoundTyped
<1> QED
  BY <1>3, <1>4, <1>5, <1>6, <1>7, <1>8, <1>9, <1>10, <1>11, <1>12, <1>13, <1>14, <1>15,
     <1>16, <1>17 DEF Next, ToolNext, Investigate

LEMMA StepTyped == IInv /\ Typed /\ [Next]_vars => Typed'
<1>1. [Next]_vars => call' = call
  BY DEF Next, ToolNext, Investigate, vars, idVars, Begin, ReadFails, HrForSelector,
     HrForCreate, GetById, LookUpUser, FindGroup, Patch, Create, WriteFails, Others, Ask, ListUsers,
     QueryHr, Fallback, FallbackFails, GetUser, ListGroups, ListPolicies, RequestFails, Conclude
<1> QED
  BY <1>1, DomainStaysTyped, FoundStaysTyped, AnswerStaysTyped, ReportStaysTyped DEF Typed

LEMMA TypedInvariance == Spec => []Typed
BY InitTyped, StepTyped, Invariance, PTL DEF Spec

(* For any directory and HR database and any changes by others: a call     *)
(* only names users, groups and statements there are, and it has found a   *)
(* user and a group wherever the code goes on as if it had.                *)
THEOREM TypeCorrect == Spec => []TypeOK
<1>1. Typed => TypeOK
  BY DEF Typed, DomainTyped, FoundTyped, AnswerTyped, ReportTyped, TypeOK, GroupIds
<1> QED
  BY <1>1, TypedInvariance, PTL

-----------------------------------------------------------------------------
Collected == {"list_groups", "list_policies", "login"}

(* The groups that were read are groups the user had; when the page they   *)
(* were on was complete, or they came with the account, none the user kept *)
(* all along is missing.                                                   *)
ReportHeld ==
  place \in Collected \/ Reported =>
    /\ \A n \in reported : \E g \in Groups : g.name = n /\ <<g.id, user>> \in held
    /\ reported # {} /\ Cardinality(Groups) <= PageMax =>
         \A g \in Groups : <<g.id, user>> \in kept => g.name \in reported

(* No tool gives the answer of an investigation, and no investigation      *)
(* answers but at its end.                                                 *)
LEMMA ReportedAtTheEnd ==
  ASSUME IInv, Typed, [Next]_vars, Reported'
  PROVE  Conclude \/ UNCHANGED vars
<1>1. answer'.status = "success" /\ Investigating'
  BY DEF Reported
<1>2. ASSUME answer' = answer, place # "done" PROVE FALSE
  BY <1>1, <1>2 DEF IInv, WritesAtTheEnd, NoAnswer, Answer
<1>3. ASSUME answer' \in {Error, Confirm} PROVE FALSE
  BY <1>1, <1>3 DEF Error, Confirm, Answer
<1>4. Investigating => call.op \notin Tools /\ ~Changing
  BY DEF Investigating, Tools, Changing
<1>5. ASSUME place # "done", Silent, ToolNext PROVE FALSE
  <2>1. Investigating
    BY <1>1, <1>5 DEF Silent, Investigating
  <2>2. ReadFails
    <3>1. ~Begin
      BY <1>4, <2>1 DEF Begin
    <3>2. place \notin {"hr", "by_id", "lookup", "group", "patch", "create"}
      BY <1>4, <2>1 DEF IInv, OnItsWay, Tools, Investigating
    <3> QED
      BY <1>5, <3>1, <3>2 DEF ToolNext, HrForSelector, HrForCreate, GetById, LookUpUser, FindGroup,
         Patch, Create, WriteFails
  <2> QED
    BY <1>3, <2>2 DEF ReadFails, Return
<1>6. CASE ToolNext /\ UNCHANGED found
  <2>1. CASE Patch \/ Create
    BY <1>1, <2>1 DEF Patch, Create, IInv, OnItsWay, Changing, Investigating
  <2> QED
    BY <1>5, <1>6, <2>1, ToolStepIsSilent DEF ToolNext
<1>7. CASE Others
  BY <1>2, <1>7 DEF Others
<1>8. CASE Investigate
  <2>1. place # "done"
    BY <1>8, InvestigationIsSilent
  <2>2. CASE ListUsers
    <3>1. PICK page \in Pages(users, Everyone, PageMax) :
            IF Conditions(selector) # << >>
            THEN Continue("hr_candidates") /\ UNCHANGED user
            ELSE Resolve(page, {})
      BY <2>2 DEF ListUsers
    <3>2. IsFiniteSet(page) /\ IsFiniteSet({})
      BY <3>1, PagesFinite, FS_EmptySet DEF IInv, AllFinite
    <3>3. answer' = answer \/ answer' \in {Error, Confirm}
      BY <3>1, <3>2, ResolveCases DEF Continue
    <3> QED
      BY <1>2, <1>3, <2>1, <3>3
  <2>3. CASE QueryHr
    <3>1. PICK employees \in {{}, EmployeesWith(Conditions(selector))} : Resolve(listed, employees)
      BY <2>3 DEF QueryHr
    <3>2. IsFiniteSet(employees) /\ IsFiniteSet(listed)
      BY <3>1, EmployeesFinite, FS_EmptySet DEF IInv, AllFinite
    <3>3. answer' = answer \/ answer' \in {Error, Confirm}
      BY <3>1, <3>2, ResolveCases
    <3> QED
      BY <1>2, <1>3, <2>1, <3>3
  <2>4. CASE Ask \/ Fallback \/ FallbackFails \/ GetUser \/ ListGroups \/ ListPolicies \/ RequestFails
    <3>1. answer' = answer \/ answer' \in {Error, Confirm}
      BY <2>4, LoadedCases DEF Ask, Fallback, FallbackFails, GetUser, ListGroups, ListPolicies,
         RequestFails, Return, Continue
    <3> QED
      BY <1>2, <1>3, <2>1, <3>1
  <2> QED
    BY <1>8, <2>2, <2>3, <2>4 DEF Investigate
<1> QED
  BY <1>6, <1>7, <1>8 DEF Next

(* How an investigation gets to where the groups are read, and on.         *)
LEMMA CollectingSteps ==
  ASSUME IInv, Typed, [Next]_vars, place' \in Collected \/ Reported'
  PROVE  \/ /\ Fallback \/ GetUser
            /\ \E id : user' = id /\ Loaded(id) /\ UNCHANGED domain
         \/ ListGroups \/ ListPolicies \/ Conclude
         \/ Others /\ UNCHANGED found
         \/ UNCHANGED vars
<1>1. CASE Reported'
  BY <1>1, ReportedAtTheEnd
<1>2. CASE place' \in Collected
  <2> USE <1>2 DEF Collected
  <2>1. ~ToolNext
    <3>1. ~(Begin \/ ReadFails \/ HrForSelector \/ Patch \/ Create \/ WriteFails)
      BY DEF Begin, ReadFails, HrForSelector, Patch, Create, WriteFails, Return, Continue,
         CreateOrRefuse
    <3>2. ~HrForCreate
      <4>1. EmployeesWith(query) = {} \/ Cardinality(EmployeesWith(query)) = 1
              \/ Cardinality(EmployeesWith(query)) > 1
        BY EmployeesFinite, CasesOfCardinality
      <4> QED
        BY <4>1 DEF HrForCreate, CreateOrRefuse, Return, Continue
    <3>3. ~(GetById \/ LookUpUser \/ FindGroup)
      BY GetByIdCases, LookUpUserCases, FindGroupCases DEF IInv
    <3> QED
      BY <3>1, <3>2, <3>3 DEF ToolNext
  <2>2. ~(Ask \/ FallbackFails \/ RequestFails)
    BY DEF Ask, FallbackFails, RequestFails, Return, Continue
  <2>3. ~ListUsers
    <3> SUFFICES ASSUME ListUsers PROVE FALSE
      OBVIOUS
    <3>1. PICK page \in Pages(users, Everyone, PageMax) :
            IF Conditions(selector) # << >>
            THEN Continue("hr_candidates") /\ UNCHANGED user
            ELSE Resolve(page, {})
      BY DEF ListUsers
    <3>2. IsFiniteSet(page) /\ IsFiniteSet({})
      BY <3>1, PagesFinite, FS_EmptySet DEF IInv, AllFinite
    <3> QED
      BY <3>1, <3>2, ResolveCases DEF Continue
  <2>4. ~QueryHr
    <3> SUFFICES ASSUME QueryHr PROVE FALSE
      OBVIOUS
    <3>1. PICK employees \in {{}, EmployeesWith(Conditions(selector))} : Resolve(listed, employees)
      BY DEF QueryHr
    <3>2. IsFiniteSet(employees) /\ IsFiniteSet(listed)
      BY <3>1, EmployeesFinite, FS_EmptySet DEF IInv, AllFinite
    <3> QED
      BY <3>1, <3>2, ResolveCases
  <2>5. CASE Fallback
    <3>1. \/ \E id : user' = id /\ Loaded(id)
          \/ Return(Confirm)
      BY <2>5, FallbackCases DEF IInv
    <3> QED
      BY <2>5, <3>1 DEF Fallback, Return
  <2>6. CASE GetUser
    BY <2>6 DEF GetUser, work
  <2> QED
    BY <2>1, <2>2, <2>3, <2>4, <2>5, <2>6 DEF Next, Investigate
<1> QED
  BY <1>1, <1>2

(* A page of all groups, when it has room for them, has them all.          *)
LEMMA GroupPage ==
  ASSUME NEW page \in Pages(Groups, Everyone, PageMax)
  PROVE  page \subseteq Groups /\ (Cardinality(Groups) <= PageMax => page = Groups)
<1>1. {g \in Groups : Matches(g, Everyone)} = Groups
  BY DEF Matches, Everyone
<1>2. page \in kSubset(Min({PageMax, Cardinality(Groups)}), Groups)
  BY <1>1 DEF Pages
<1>3. page \subseteq Groups /\ Cardinality(page) = Min({PageMax, Cardinality(Groups)})
  BY <1>2 DEF kSubset
<1>4. IsFiniteSet(Groups) /\ Cardinality(Groups) \in Nat
  BY DirectoryAssumption, FS_CardinalityType
<1>5. ASSUME Cardinality(Groups) <= PageMax PROVE page = Groups
  <2>1. Min({PageMax, Cardinality(Groups)}) = Cardinality(Groups)
    BY <1>4, <1>5, PageAssumption DEF Min
  <2> QED
    BY <1>3, <1>4, <2>1, FS_Subset
<1> QED
  BY <1>3, <1>5

LEMMA ReportStaysHeld ==
  ASSUME IInv, Typed, ReportHeld, [Next]_vars PROVE ReportHeld'
<1> SUFFICES ASSUME place' \in Collected \/ Reported'
             PROVE  /\ \A n \in reported' : \E g \in Groups : g.name = n /\ <<g.id, user'>> \in held'
                    /\ reported' # {} /\ Cardinality(Groups) <= PageMax =>
                         \A g \in Groups : <<g.id, user'>> \in kept' => g.name \in reported'
  BY DEF ReportHeld
<1>0. kept \subseteq members /\ members \subseteq held
  BY DEF Typed, DomainTyped
<1>1. ASSUME NEW id, user' = id, Loaded(id), UNCHANGED domain
      PROVE  /\ \A n \in reported' : \E g \in Groups : g.name = n /\ <<g.id, user'>> \in held'
             /\ reported' # {} => \A g \in Groups : <<g.id, user'>> \in kept' => g.name \in reported'
  BY ZenonT(40), <1>0, <1>1, LoadedCases DEF GroupsOf, domain
<1>2. CASE ListGroups
  <2>0. place \in Collected /\ UNCHANGED <<user, held, kept>>
    BY <1>2 DEF ListGroups, Collected, domain, work
  <2>1. CASE UNCHANGED reported
    BY <2>0, <2>1 DEF ReportHeld
  <2>2. CASE \E page \in Pages(Groups, Everyone, PageMax) : reported' = GroupsOn(page, user)
    BY <1>0, <2>0, <2>2, GroupPage DEF GroupsOn
  <2> QED
    BY <1>2, <2>1, <2>2 DEF ListGroups
<1>3. CASE ListPolicies \/ Conclude
  BY <1>3 DEF ListPolicies, Conclude, ReportHeld, Collected, domain, work
<1>4. CASE Others /\ UNCHANGED found
  BY <1>4 DEF Others, found, work, ReportHeld, Reported, Investigating
<1>5. CASE UNCHANGED vars
  BY <1>5 DEF vars, idVars, domain, work, found, ReportHeld, Reported, Investigating
<1> QED
  BY <1>1, <1>2, <1>3, <1>4, <1>5, CollectingSteps

(* For any directory and any changes by others between the requests: every *)
(* group an investigation reports was the user's at some moment of it, and *)
(* when any are reported and the list of groups fits on its page, the ones *)
(* the user never left are among them.                                     *)
THEOREM ReportedGroupsWereHeld == Spec => []GroupsWereHeld
<1>1. Init => ReportHeld
  BY DEF Init, IdInit, ReportHeld, Collected, Reported, NoAnswer, Answer
<1>2. IInv /\ Typed /\ ReportHeld /\ [Next]_vars => ReportHeld'
  BY ReportStaysHeld
<1>3. ReportHeld => GroupsWereHeld
  BY DEF ReportHeld, GroupsWereHeld
<1> QED
  BY <1>1, <1>2, <1>3, Invariance, TypedInvariance, PTL DEF Spec

-----------------------------------------------------------------------------
(* The conclusion is drawn from the statements for the reported groups.    *)
Concluded ==
  /\ place = "login" \/ Reported => matched = MatchPolicies(reported)
  /\ Reported => findings = {} \/ findings = Findings

LEMMA StaysConcluded ==
  ASSUME IInv, Typed, Concluded, [Next]_vars PROVE Concluded'
<1> SUFFICES ASSUME place' = "login" \/ Reported' PROVE Concluded'
  BY DEF Concluded
<1>1. ASSUME NEW id, Loaded(id) PROVE FALSE
  <2>1. place' # "login" /\ place' # "done"
    BY <1>1, LoadedCases
  <2>2. UNCHANGED answer
    BY <1>1, LoadedCases
  <2>3. CASE Reported'
    BY <1>1, <2>1, <2>3, ReportedAtTheEnd DEF Conclude, Return, vars, idVars, Reported, Typed, AnswerTyped
  <2> QED
    BY <2>1, <2>3
<1>2. CASE ListGroups
  <2>1. ~Reported'
    BY <1>2, ReportedAtTheEnd DEF ListGroups, Continue, Conclude, vars, idVars
  <2> QED
    BY <1>2, <2>1 DEF ListGroups, Continue
<1>3. CASE ListPolicies
  <2>1. matched' = MatchPolicies(reported')
    BY <1>3 DEF ListPolicies, MatchPolicies
  <2>2. ~Reported'
    BY <1>3, ReportedAtTheEnd DEF ListPolicies, Continue, Conclude, vars, idVars
  <2> QED
    BY <2>1, <2>2 DEF Concluded
<1>4. CASE Conclude
  <2>1. UNCHANGED <<reported, matched, call>>
    BY <1>4 DEF Conclude
  <2>2. matched' = MatchPolicies(reported')
    BY <1>4, <2>1 DEF Conclude, Concluded, MatchPolicies
  <2>3. findings' = {} \/ findings' = Findings
    BY <1>4 DEF Conclude
  <2>4. Findings' = Findings
    BY <2>1 DEF Findings
  <2> QED
    BY <2>2, <2>3, <2>4 DEF Concluded
<1>5. CASE Others /\ UNCHANGED found
  BY <1>5 DEF Others, found, Concluded, Reported, Investigating, Findings, MatchPolicies
<1>6. CASE UNCHANGED vars
  BY <1>6 DEF vars, idVars, found, Concluded, Reported, Investigating, Findings, MatchPolicies
<1> QED
  BY <1>1, <1>2, <1>3, <1>4, <1>5, <1>6, CollectingSteps DEF Collected

(* For any statements and any changes by others: a diagnosis that finds a  *)
(* constraint or a scope has a statement that speaks of the action for a   *)
(* group the user was in during it, and does not find the policy missing.  *)
THEOREM SupposedGrantsExist == Spec => []SupposedGrantExists
<1>1. Init => Concluded
  BY DEF Init, IdInit, Concluded, Reported, NoAnswer, Answer
<1>2. IInv /\ Typed /\ Concluded /\ [Next]_vars => Concluded'
  BY StaysConcluded
<1>3. Init => ReportHeld
  BY DEF Init, IdInit, ReportHeld, Collected, Reported, NoAnswer, Answer
<1>4. IInv /\ Typed /\ ReportHeld /\ [Next]_vars => ReportHeld'
  BY ReportStaysHeld
<1>5. ReportHeld /\ Concluded => SupposedGrantExists
  <2> SUFFICES ASSUME ReportHeld, Concluded, Reported,
                      findings \intersect {"constraint_block", "permission_scope"} # {}
               PROVE  /\ "missing_policy" \notin findings
                      /\ \E s \in Statements, g \in Groups :
                           call.action \in s.words /\ g.name \in s.groups /\ <<g.id, user>> \in held
    BY DEF SupposedGrantExists
  <2>1. findings = Findings /\ matched = MatchPolicies(reported)
    BY DEF Concluded
  <2>2. PICK s \in matched : call.action \in s.words
    BY <2>1 DEF Findings
  <2>3. "missing_policy" \notin findings
    BY <2>1, <2>2 DEF Findings
  <2>4. PICK n \in s.groups : n \in reported
    BY <2>1, <2>2 DEF MatchPolicies
  <2>5. PICK g \in Groups : g.name = n /\ <<g.id, user>> \in held
    BY <2>4 DEF ReportHeld
  <2>6. s \in Statements
    BY <2>1, <2>2 DEF MatchPolicies
  <2> QED
    BY <2>2, <2>3, <2>4, <2>5, <2>6
<1> QED
  BY <1>1, <1>2, <1>3, <1>4, <1>5, Invariance, TypedInvariance, PTL DEF Spec

-----------------------------------------------------------------------------
(* The user fits the prompt better than anybody else who was listed, or,   *)
(* when nobody fits, is the account of the only employee who does.         *)
Best(u) == u \in Scored(listed) /\ \A v \in listed \ {u} : Score(v) < Score(u)

OnlyEmployee(e) == e \in Employees /\ EmployeesWith(Conditions(selector)) = {e}

AccountIsUser(e) ==
  IF e["email"] # Unresolved
  THEN \E u \in AccountsOf(Accounts \union Joiners, e) : u.id = user
  ELSE {u.id : u \in meant} = {user}

FitNow ==
  \/ \E u : Best(u) /\ u.id = user
  \/ Scored(listed) = {} /\ \E e : OnlyEmployee(e) /\ AccountIsUser(e)

(* HR is asked only for a prompt that says something HR knows.             *)
Fits ==
  /\ place \in Collected \union {"get_user"} \/ Reported => FitNow
  /\ place = "fallback" => Scored(listed) = {} /\ \E e : OnlyEmployee(e) /\ staff = {e}
  /\ place \in {"hr_candidates", "fallback"} => Conditions(selector) # << >>
  /\ Investigating => users \subseteq Accounts \union Joiners
  /\ listed \subseteq Accounts \union Joiners

LEMMA ScoreType == \A u : Score(u) \in 0..250
BY DEF Score

LEMMA SmallestNumber ==
  ASSUME NEW I, I \subseteq Nat, I # {}
  PROVE  \E x \in I : \A y \in I : x <= y
<1>1. PICK x \in I : \A y \in I : ~(<<y, x>> \in OpToRel(<, Nat))
  BY NatLessThanWellFounded, WFMin
<1>2. ASSUME NEW y \in I, y < x PROVE FALSE
  <2>1. <<y, x>> \in Nat \X Nat /\ <<y, x>>[1] = y /\ <<y, x>>[2] = x
    OBVIOUS
  <2>2. <<y, x>> \in OpToRel(<, Nat)
    BY <1>2, <2>1, Zenon DEF OpToRel
  <2> QED
    BY <1>1, <2>2
<1> QED
  BY <1>2

(* Somebody is best where there is anybody.                                *)
LEMMA NoCandidates ==
  ASSUME NEW us, Candidates(us) = {} PROVE Scored(us) = {}
<1> SUFFICES ASSUME NEW w \in us, Score(w) > 0, BestOf(us) = {} PROVE FALSE
  BY DEF Candidates, Scored
<1> DEFINE lacking == {250 - Score(u) : u \in us}
<1>1. lacking \subseteq Nat /\ lacking # {}
  BY ScoreType
<1>2. PICK x \in lacking : \A y \in lacking : x <= y
  <2> HIDE DEF lacking
  <2> QED
    BY <1>1, SmallestNumber
<1>3. PICK u \in us : x = 250 - Score(u)
  BY <1>2
<1>4. ASSUME NEW v \in us PROVE Score(v) <= Score(u)
  <2>1. 250 - Score(u) <= 250 - Score(v)
    BY <1>2, <1>3
  <2>2. Score(u) \in 0..250 /\ Score(v) \in 0..250
    BY ScoreType
  <2>3. \A a, b \in 0..250 : 250 - a <= 250 - b => b <= a
    OBVIOUS
  <2> QED
    BY <2>1, <2>2, <2>3
<1> QED
  BY <1>4 DEF BestOf

LEMMA OnlyCandidate ==
  ASSUME NEW us, NEW u, Candidates(us) = {u}
  PROVE  u \in Scored(us) /\ \A v \in us \ {u} : Score(v) < Score(u)
<1>1. Scored(us) # {} /\ BestOf(us) = {u}
  BY DEF Candidates
<1>2. u \in us /\ \A v \in us : Score(v) <= Score(u)
  BY <1>1 DEF BestOf
<1>3. u \in Scored(us)
  BY <1>1, <1>2, ScoreType DEF Scored
<1>4. ASSUME NEW v \in us \ {u} PROVE Score(v) < Score(u)
  <2>1. PICK w \in us : ~(Score(w) <= Score(v))
    BY <1>1 DEF BestOf
  <2>2. Score(u) \in 0..250 /\ Score(v) \in 0..250 /\ Score(w) \in 0..250
    BY ScoreType
  <2>3. \A a, b, c \in 0..250 : ~(c <= b) /\ c <= a => b < a
    OBVIOUS
  <2>4. w \in us /\ Score(w) <= Score(u)
    BY <1>2
  <2> QED
    BY <2>1, <2>2, <2>3, <2>4
<1> QED
  BY <1>3, <1>4

-----------------------------------------------------------------------------
(*************************** payloads and lookups **************************)
LEMMA GivenTwice == \A s : Given(Given(s)) = Given(s)
<1> TAKE s
<1>1. DOMAIN Given(s) = {f \in DOMAIN s : s[f] # Unresolved}
  BY DEF Given, Restrict
<1>2. \A f \in DOMAIN Given(s) : Given(s)[f] = s[f] /\ Given(s)[f] # Unresolved
  BY <1>1 DEF Given, Restrict
<1>3. {f \in DOMAIN Given(s) : Given(s)[f] # Unresolved} = DOMAIN Given(s)
  BY <1>2
<1>4. Given(Given(s)) = [f \in DOMAIN Given(s) |-> Given(s)[f]]
  BY <1>3 DEF Given, Restrict
<1>5. Given(s) = [f \in DOMAIN Given(s) |-> Given(s)[f]]
  BY <1>1 DEF Given, Restrict
<1> QED
  BY <1>4, <1>5

LEMMA FilledFields ==
  ASSUME NEW s, NEW more
  PROVE  /\ DOMAIN Filled(s, more) = DOMAIN s \union DOMAIN more
         /\ \A f \in DOMAIN s : Filled(s, more)[f] = s[f]
         /\ \A f \in DOMAIN more \ DOMAIN s : Filled(s, more)[f] = more[f]
BY DEF Filled

(* What _resolve_user and _resolve_group go by, without a filter.           *)
LEMMA FilterBy ==
  ASSUME NEW s, ~Has(s, {"filter"})
  PROVE  /\ Has(s, {"user_name"}) =>
              FilterOf(s) = [attr |-> "user_name", value |-> s["user_name"]]
         /\ ~Has(s, {"user_name", "email"}) /\ Has(s, {"name"}) =>
              FilterOf(s) = [attr |-> "name", value |-> s["name"]]
         /\ ~Has(s, {"user_name", "email", "name"}) => FilterOf(s) = Everyone
<1> DEFINE Chosen(a) == \/ a = "user_name"
                        \/ a = "email" /\ ~Has(s, {"user_name"})
                        \/ a = "name" /\ ~Has(s, {"user_name", "email"})
           attr == CHOOSE a \in {"user_name", "email", "name"} \intersect DOMAIN s : Chosen(a)
<1>1. ASSUME Has(s, {"user_name", "email", "name"})
      PROVE  FilterOf(s) = [attr |-> attr, value |-> s[attr]]
  BY <1>1 DEF FilterOf
<1>2. ASSUME Has(s, {"user_name"})
      PROVE  Has(s, {"user_name", "email", "name"}) /\ attr = "user_name"
  <2>1. "user_name" \in DOMAIN s
    BY <1>2 DEF Has
  <2>2. \A a : Chosen(a) <=> a = "user_name"
    BY <2>1 DEF Has
  <2>3. attr = "user_name"
    <3> HIDE DEF Chosen
    <3> QED
      BY <2>1, <2>2
  <2> QED
    BY <2>1, <2>3 DEF Has
<1>3. ASSUME ~Has(s, {"user_name", "email"}), Has(s, {"name"})
      PROVE  Has(s, {"user_name", "email", "name"}) /\ attr = "name"
  <2>1. {"user_name", "email", "name"} \intersect DOMAIN s = {"name"}
    BY <1>3 DEF Has
  <2>2. Chosen("name")
    BY <1>3
  <2> QED
    BY <2>1, <2>2 DEF Has
<1> HIDE DEF attr
<1> QED
  BY <1>1, <1>2, <1>3 DEF FilterOf

(* Two entries are read to tell whether there is one: a page of one entry  *)
(* shows the only one that matches.                                        *)
LEMMA OneOfTwoIsAlone ==
  ASSUME NEW S, IsFiniteSet(S), NEW filter, NEW u, {u} \in Pages(S, filter, 2)
  PROVE  {e \in S : Matches(e, filter)} = {u}
<1> DEFINE matching == {e \in S : Matches(e, filter)}
           n == Cardinality(matching)
<1>1. IsFiniteSet(matching) /\ n \in Nat
  BY FS_Subset, FS_CardinalityType
<1>2. {u} \subseteq matching /\ Cardinality({u}) = Min({2, n})
  BY DEF Pages, kSubset
<1>3. Cardinality({u}) = 1
  BY FS_Singleton
<1>4. Min({2, n}) \in {2, n}
  <2>1. {2, n} \subseteq Nat /\ {2, n} # {}
    BY <1>1
  <2>2. PICK x \in {2, n} : \A y \in {2, n} : x <= y
    BY <2>1, SmallestNumber
  <2> QED
    BY <2>2 DEF Min
<1>5. n = 1
  BY <1>2, <1>3, <1>4
<1> HIDE DEF matching
<1>6. PICK x : matching = {x}
  BY <1>1, <1>5, FS_Singleton
<1>7. matching = {u}
  BY <1>2, <1>6
<1> QED
  BY <1>7 DEF matching

(* Where the name alone identifies, it is the name that was asked for.     *)
LEMMA NameIsAskedFor ==
  ASSUME NEW s, ~(Has(s, {"filter"}) /\ Has(s, {"name"})), NEW page,
         \A e \in page : "name" \in DOMAIN e /\ Matches(e, FilterOf(s))
  PROVE  Resolved(page, s) = page
<1>1. CASE Has(s, {"name"}) /\ ~Has(s, {"user_name", "email"})
  <2>1. ~Has(s, {"filter"}) /\ Has(s, {"user_name", "email", "name"})
    BY <1>1 DEF Has
  <2>3. FilterOf(s) = [attr |-> "name", value |-> s["name"]]
    BY <1>1, <2>1, FilterBy
  <2>4. \A e \in page : e["name"] = s["name"]
    BY <2>3 DEF Matches
  <2> QED
    BY <2>4 DEF Resolved
<1>2. CASE ~(Has(s, {"name"}) /\ ~Has(s, {"user_name", "email"}))
  BY <1>2 DEF Resolved
<1> QED
  BY <1>1, <1>2

LEMMA RecordedFields ==
  ASSUME NEW e, NEW fields
  PROVE  /\ DOMAIN OnRecord(e, fields) = {f \in fields : e[f] # Unresolved}
         /\ \A f \in DOMAIN OnRecord(e, fields) : OnRecord(e, fields)[f] = e[f]
BY DEF OnRecord, Restrict

LEMMA GivenFields ==
  ASSUME NEW s
  PROVE  /\ DOMAIN Given(s) = {f \in DOMAIN s : s[f] # Unresolved}
         /\ \A f \in DOMAIN Given(s) : Given(s)[f] = s[f]
         /\ DOMAIN Conditions(s) = DOMAIN Given(s) \intersect HrFields
         /\ \A f \in DOMAIN Conditions(s) : Conditions(s)[f] = s[f]
BY DEF Given, Conditions, Restrict

LEMMA AddressFields ==
  ASSUME NEW e
  PROVE  /\ e["email"] = Unresolved => DOMAIN AddressOf(e) = {}
         /\ e["email"] # Unresolved =>
              /\ DOMAIN AddressOf(e) = {"email", "user_name"}
              /\ AddressOf(e)["user_name"] = e["email"]
              /\ AddressOf(e)["email"] = e["email"]
BY DEF AddressOf

(* The display name depends on the two kanji names alone.                  *)
LEMMA KanjiNameOf ==
  ASSUME NEW s, NEW t, "family_name_kanji" \in DOMAIN s,
         \A f \in {"family_name_kanji", "given_name_kanji"} :
           /\ f \in DOMAIN s <=> f \in DOMAIN t
           /\ f \in DOMAIN s => s[f] = t[f]
  PROVE  KanjiName(s) = KanjiName(t)
<1>1. Has(s, {"given_name_kanji"}) <=> Has(t, {"given_name_kanji"})
  BY DEF Has
<1>2. CASE Has(s, {"given_name_kanji"})
  <2>1. "given_name_kanji" \in DOMAIN s
    BY <1>2 DEF Has
  <2> QED
    BY <1>1, <1>2, <2>1 DEF KanjiName, NameIn
<1>3. CASE ~Has(s, {"given_name_kanji"})
  BY <1>1, <1>3 DEF KanjiName, NameIn
<1> QED
  BY <1>2, <1>3

(* What a selector holds when an employee was added to it.                 *)
LEMMA EnrichedFields ==
  ASSUME NEW s, NEW e
  PROVE  LET more  == Enriched(s, e)
             names == Filled(Given(s), OnRecord(e, NameFields))
             kanji == "family_name_kanji" \in DOMAIN names
         IN
         /\ "filter" \in DOMAIN more => "filter" \in DOMAIN s
         /\ e["email"] # Unresolved /\ "user_name" \notin DOMAIN Given(s) =>
              "user_name" \in DOMAIN more /\ more["user_name"] = e["email"]
         /\ e["email"] = Unresolved => \A f \in {"user_name", "email"} :
              f \in DOMAIN more => f \in DOMAIN s
         /\ "name" \in DOMAIN Given(s) => "name" \in DOMAIN more /\ more["name"] = s["name"]
         /\ "name" \notin DOMAIN Given(s) /\ kanji =>
              "name" \in DOMAIN more /\ more["name"] = KanjiName(names)
         /\ "name" \notin DOMAIN Given(s) /\ ~kanji =>
              /\ "name" \in DOMAIN more <=> "name" \in DOMAIN s
              /\ "name" \in DOMAIN s => more["name"] = s["name"]
<1> DEFINE g == Given(s)
           address == AddressOf(e)
           record == OnRecord(e, NameFields)
           names == Filled(g, record)
           kanji == "family_name_kanji" \in DOMAIN names
           with == Filled(g, address)
           first == Filled(with, record)
           addition == [name |-> KanjiName(first)]
           named == IF Has(first, {"family_name_kanji"}) /\ ~Has(first, {"name"})
                    THEN Filled(first, addition) ELSE first
           more == Enriched(s, e)
<1>1. more = Filled(named, s)
  BY DEF Enriched
<1>2. /\ DOMAIN g \subseteq DOMAIN s /\ \A f \in DOMAIN g : g[f] = s[f]
      /\ DOMAIN record \subseteq NameFields
  <2>1. DOMAIN Given(s) \subseteq DOMAIN s /\ \A f \in DOMAIN Given(s) : Given(s)[f] = s[f]
    BY Zenon, GivenFields
  <2>2. DOMAIN OnRecord(e, NameFields) \subseteq NameFields
    <3>1. DOMAIN OnRecord(e, NameFields) = {f \in NameFields : e[f] # Unresolved}
      BY RecordedFields
    <3> QED
      BY <3>1
  <2> QED
    BY <2>1, <2>2
<1>3. /\ e["email"] = Unresolved => DOMAIN address = {}
      /\ e["email"] # Unresolved =>
           DOMAIN address = {"email", "user_name"} /\ address["user_name"] = e["email"]
  BY AddressFields
<1>4. NameFields = {"family_name", "given_name", "family_name_kanji", "given_name_kanji"}
  BY DEF NameFields, HrFields
<1>5. /\ DOMAIN with = DOMAIN g \union DOMAIN address
      /\ \A f \in DOMAIN g : with[f] = g[f]
      /\ \A f \in DOMAIN address \ DOMAIN g : with[f] = address[f]
  BY FilledFields
<1>6. /\ DOMAIN names = DOMAIN g \union DOMAIN record
      /\ \A f \in DOMAIN g : names[f] = g[f]
      /\ \A f \in DOMAIN record \ DOMAIN g : names[f] = record[f]
  BY FilledFields
<1> HIDE DEF g, address, record, with, names
<1>7. /\ DOMAIN first = DOMAIN with \union DOMAIN record
      /\ \A f \in DOMAIN with : first[f] = with[f]
      /\ \A f \in DOMAIN record \ DOMAIN with : first[f] = record[f]
  BY FilledFields
<1> HIDE DEF first
<1>8. \A f \in {"family_name_kanji", "given_name_kanji"} :
        /\ f \in DOMAIN names <=> f \in DOMAIN first
        /\ f \in DOMAIN names => names[f] = first[f]
  BY <1>3, <1>5, <1>6, <1>7
<1>9. kanji => KanjiName(names) = KanjiName(first)
  BY <1>8, KanjiNameOf
<1>10. DOMAIN addition = {"name"} /\ addition["name"] = KanjiName(first)
  OBVIOUS
<1> HIDE DEF addition
<1>11. /\ DOMAIN Filled(first, addition) = DOMAIN first \union {"name"}
       /\ \A f \in DOMAIN first : Filled(first, addition)[f] = first[f]
       /\ "name" \notin DOMAIN first => Filled(first, addition)["name"] = KanjiName(first)
  <2>1. /\ DOMAIN Filled(first, addition) = DOMAIN first \union DOMAIN addition
        /\ \A f \in DOMAIN first : Filled(first, addition)[f] = first[f]
        /\ \A f \in DOMAIN addition \ DOMAIN first : Filled(first, addition)[f] = addition[f]
    BY FilledFields
  <2> QED
    BY <1>10, <2>1
<1>12. "name" \in DOMAIN first <=> "name" \in DOMAIN g
  BY <1>2, <1>3, <1>4, <1>5, <1>7
<1>13. /\ DOMAIN named = DOMAIN first \union (IF kanji THEN {"name"} ELSE {})
       /\ \A f \in DOMAIN first : named[f] = first[f]
       /\ kanji /\ "name" \notin DOMAIN g => named["name"] = KanjiName(names)
  <2>1. (Has(first, {"family_name_kanji"}) <=> kanji) /\ (Has(first, {"name"}) <=> "name" \in DOMAIN g)
    BY <1>8, <1>12 DEF Has
  <2>2. CASE kanji /\ "name" \notin DOMAIN g
    <3>1. named = Filled(first, addition)
      BY <2>1, <2>2
    <3> QED
      BY <1>9, <1>11, <1>12, <2>2, <3>1
  <2>3. CASE ~(kanji /\ "name" \notin DOMAIN g)
    <3>1. named = first
      BY <2>1, <2>3
    <3> QED
      BY <1>12, <2>3, <3>1
  <2> QED
    BY <2>2, <2>3
<1> HIDE DEF named, kanji
<1>14. /\ DOMAIN more = DOMAIN named \union DOMAIN s
       /\ \A f \in DOMAIN named : more[f] = named[f]
       /\ \A f \in DOMAIN s \ DOMAIN named : more[f] = s[f]
  <2>1. /\ DOMAIN Filled(named, s) = DOMAIN named \union DOMAIN s
        /\ \A f \in DOMAIN named : Filled(named, s)[f] = named[f]
        /\ \A f \in DOMAIN s \ DOMAIN named : Filled(named, s)[f] = s[f]
    BY FilledFields
  <2> QED
    BY <1>1, <2>1
<1> HIDE DEF more
<1>15. "filter" \in DOMAIN more => "filter" \in DOMAIN s
  BY <1>2, <1>3, <1>4, <1>5, <1>7, <1>13, <1>14
<1>16. ASSUME e["email"] # Unresolved, "user_name" \notin DOMAIN g
       PROVE  "user_name" \in DOMAIN more /\ more["user_name"] = e["email"]
  BY <1>3, <1>5, <1>7, <1>13, <1>14, <1>16
<1>17. ASSUME e["email"] = Unresolved, NEW f \in {"user_name", "email"}, f \in DOMAIN more
       PROVE  f \in DOMAIN s
  BY <1>2, <1>3, <1>4, <1>5, <1>7, <1>13, <1>14, <1>17
<1>18. ASSUME "name" \in DOMAIN g PROVE "name" \in DOMAIN more /\ more["name"] = s["name"]
  BY <1>2, <1>5, <1>7, <1>13, <1>14, <1>18
<1>19. ASSUME "name" \notin DOMAIN g, kanji
       PROVE  "name" \in DOMAIN more /\ more["name"] = KanjiName(names)
  BY <1>13, <1>14, <1>19
<1>20. ASSUME "name" \notin DOMAIN g, ~kanji
       PROVE  /\ "name" \in DOMAIN more <=> "name" \in DOMAIN s
              /\ "name" \in DOMAIN s => more["name"] = s["name"]
  BY <1>12, <1>13, <1>14, <1>20
<1> QED
  BY <1>15, <1>16, <1>17, <1>18, <1>19, <1>20 DEF more, g, names, kanji, record

(* What HR is asked for of an employee is what HR has of them.             *)
LEMMA AskedOf ==
  ASSUME NEW hint, NEW e, EmployeesWith(Conditions(hint)) = {e}
  PROVE  \A f \in DOMAIN Given(hint) \intersect HrFields : hint[f] = e[f] /\ e[f] # Unresolved
<1>1. e \in EmployeesWith(Conditions(hint))
  OBVIOUS
<1>2. \A f \in DOMAIN Conditions(hint) : e[f] = Conditions(hint)[f]
  BY <1>1 DEF EmployeesWith
<1>3. /\ DOMAIN Given(hint) = {f \in DOMAIN hint : hint[f] # Unresolved}
      /\ DOMAIN Conditions(hint) = DOMAIN Given(hint) \intersect HrFields
      /\ \A f \in DOMAIN Conditions(hint) : Conditions(hint)[f] = hint[f]
  BY GivenFields
<1> QED
  BY <1>2, <1>3

(* The selector for an employee that was not among those listed.           *)
LEMMA FallbackFields ==
  ASSUME NEW hint, NEW e, EmployeesWith(Conditions(hint)) = {e}
  PROVE  LET s      == FallbackSelector(hint, e)
             given  == Given(hint)
             record == OnRecord(e, HrFields)
         IN
         /\ "filter" \notin DOMAIN s /\ "id" \notin DOMAIN s
         /\ \A f \in HrFields : f \in DOMAIN s <=> e[f] # Unresolved
         /\ \A f \in HrFields \intersect DOMAIN s : s[f] = e[f]
         /\ e["email"] # Unresolved => "user_name" \in DOMAIN s /\ s["user_name"] = e["email"]
         /\ e["email"] = Unresolved =>
              /\ "user_name" \in DOMAIN s <=> "user_name" \in DOMAIN given
              /\ "user_name" \in DOMAIN given => s["user_name"] = given["user_name"]
         /\ "name" \in DOMAIN given => "name" \in DOMAIN s /\ s["name"] = given["name"]
         /\ "name" \notin DOMAIN given =>
              /\ "family_name_kanji" \in DOMAIN record =>
                   "name" \in DOMAIN s /\ s["name"] = KanjiName(record)
              /\ "family_name_kanji" \notin DOMAIN record =>
                   /\ "name" \in DOMAIN s <=> "family_name" \in DOMAIN record
                   /\ "name" \in DOMAIN s => s["name"] = RomanName(record)
<1> DEFINE given == Given(hint)
           record == OnRecord(e, HrFields)
           others == HrFields \union {"name", "user_name"}
           said == OnRecord(hint, DOMAIN hint \intersect others)
           address == AddressOf(e)
           first == Filled(address, said)
           known == Filled(first, record)
           s == FallbackSelector(hint, e)
<1>1. /\ DOMAIN said = DOMAIN given \intersect others
      /\ \A f \in DOMAIN said : said[f] = given[f]
      /\ \A f \in DOMAIN said \intersect HrFields : said[f] = e[f] /\ e[f] # Unresolved
  <2>1. /\ DOMAIN said = {f \in DOMAIN hint \intersect others : hint[f] # Unresolved}
        /\ \A f \in DOMAIN said : said[f] = hint[f]
    BY RecordedFields
  <2>2. /\ DOMAIN given = {f \in DOMAIN hint : hint[f] # Unresolved}
        /\ \A f \in DOMAIN given : given[f] = hint[f]
    BY GivenFields
  <2>3. \A f \in DOMAIN given \intersect HrFields : hint[f] = e[f] /\ e[f] # Unresolved
    BY AskedOf
  <2> HIDE DEF said, given, others
  <2> QED
    BY <2>1, <2>2, <2>3
<1>2. /\ DOMAIN record = {f \in HrFields : e[f] # Unresolved}
      /\ \A f \in DOMAIN record : record[f] = e[f]
  BY RecordedFields
<1>3. /\ e["email"] = Unresolved => DOMAIN address = {}
      /\ e["email"] # Unresolved =>
           /\ DOMAIN address = {"email", "user_name"}
           /\ address["email"] = e["email"] /\ address["user_name"] = e["email"]
  BY AddressFields
<1>4. others = {"emp_id", "email", "family_name", "given_name", "family_name_kanji",
                "given_name_kanji", "name", "user_name"}
      /\ HrFields = {"emp_id", "email", "family_name", "given_name", "family_name_kanji",
                     "given_name_kanji"}
  BY DEF HrFields
<1> HIDE DEF given, record, others, said, address
<1>5. /\ DOMAIN first = DOMAIN address \union DOMAIN said
      /\ \A f \in DOMAIN address : first[f] = address[f]
      /\ \A f \in DOMAIN said \ DOMAIN address : first[f] = said[f]
  BY FilledFields
<1> HIDE DEF first
<1>6. /\ DOMAIN known = DOMAIN first \union DOMAIN record
      /\ \A f \in DOMAIN first : known[f] = first[f]
      /\ \A f \in DOMAIN record \ DOMAIN first : known[f] = record[f]
  BY FilledFields
<1> HIDE DEF known
<1>7. /\ "filter" \notin DOMAIN known /\ "id" \notin DOMAIN known
      /\ "name" \in DOMAIN known <=> "name" \in DOMAIN given
      /\ "name" \in DOMAIN given => known["name"] = given["name"]
  BY <1>1, <1>2, <1>3, <1>4, <1>5, <1>6
<1>8. \A f \in HrFields :
        /\ f \in DOMAIN known <=> e[f] # Unresolved
        /\ f \in DOMAIN known => known[f] = e[f]
  <2> TAKE f \in HrFields
  <2>1. f \in DOMAIN address => address[f] = e[f] /\ e[f] # Unresolved
    BY <1>3, <1>4
  <2>2. f \in DOMAIN said => said[f] = e[f] /\ e[f] # Unresolved
    BY <1>1
  <2>3. f \in DOMAIN record <=> e[f] # Unresolved
    BY <1>2
  <2>4. f \in DOMAIN record => record[f] = e[f]
    BY <1>2
  <2> QED
    BY <1>5, <1>6, <2>1, <2>2, <2>3, <2>4
<1>9. /\ e["email"] # Unresolved => "user_name" \in DOMAIN known /\ known["user_name"] = e["email"]
      /\ e["email"] = Unresolved =>
           /\ "user_name" \in DOMAIN known <=> "user_name" \in DOMAIN given
           /\ "user_name" \in DOMAIN given => known["user_name"] = given["user_name"]
  BY <1>1, <1>2, <1>3, <1>4, <1>5, <1>6
<1>10. \/ /\ "name" \in DOMAIN given
          /\ s = known
       \/ /\ "name" \notin DOMAIN given /\ "family_name_kanji" \in DOMAIN record
          /\ s = Filled(known, [name |-> KanjiName(record)])
       \/ /\ "name" \notin DOMAIN given /\ "family_name_kanji" \notin DOMAIN record
          /\ "family_name" \in DOMAIN record
          /\ s = Filled(known, [name |-> RomanName(record)])
       \/ /\ "name" \notin DOMAIN given /\ "family_name_kanji" \notin DOMAIN record
          /\ "family_name" \notin DOMAIN record
          /\ s = known
  <2>1. /\ Has(known, {"name"}) <=> "name" \in DOMAIN given
        /\ Has(record, {"family_name_kanji"}) <=> "family_name_kanji" \in DOMAIN record
        /\ Has(record, {"family_name"}) <=> "family_name" \in DOMAIN record
        /\ Has(record, {"family_name_kanji", "family_name"}) <=>
             "family_name_kanji" \in DOMAIN record \/ "family_name" \in DOMAIN record
    BY <1>7 DEF Has
  <2>2. s = CASE Has(known, {"name"}) -> known
              [] ~Has(known, {"name"}) /\ Has(record, {"family_name_kanji"}) ->
                   Filled(known, [name |-> KanjiName(record)])
              [] ~Has(known, {"name"}) /\ ~Has(record, {"family_name_kanji"})
                   /\ Has(record, {"family_name"}) -> Filled(known, [name |-> RomanName(record)])
              [] ~Has(known, {"name"}) /\ ~Has(record, {"family_name_kanji", "family_name"}) -> known
    BY DEF FallbackSelector, known, first, address, said, others, record
  <2> HIDE DEF s
  <2> QED
    BY <2>1, <2>2
<1> HIDE DEF s
<1>11. ASSUME NEW name, s = Filled(known, [name |-> name])
       PROVE  /\ DOMAIN s = DOMAIN known \union {"name"}
              /\ \A f \in DOMAIN known : s[f] = known[f]
              /\ "name" \notin DOMAIN known => s["name"] = name
  <2> DEFINE more == [name |-> name]
             with == Filled(known, more)
  <2>1. DOMAIN more = {"name"} /\ more["name"] = name
    OBVIOUS
  <2> HIDE DEF more
  <2>2. /\ DOMAIN with = DOMAIN known \union DOMAIN more
        /\ \A f \in DOMAIN known : with[f] = known[f]
        /\ \A f \in DOMAIN more \ DOMAIN known : with[f] = more[f]
    BY FilledFields
  <2>3. s = with
    BY <1>11 DEF more
  <2> HIDE DEF with
  <2> QED
    BY <2>1, <2>2, <2>3
<1>12. /\ DOMAIN s \ {"name"} = DOMAIN known \ {"name"}
       /\ \A f \in DOMAIN known : s[f] = known[f]
  BY <1>10, <1>11
<1>13. /\ "name" \in DOMAIN given => "name" \in DOMAIN s /\ s["name"] = given["name"]
       /\ "name" \notin DOMAIN given =>
            /\ "family_name_kanji" \in DOMAIN record =>
                 "name" \in DOMAIN s /\ s["name"] = KanjiName(record)
            /\ "family_name_kanji" \notin DOMAIN record =>
                 /\ "name" \in DOMAIN s <=> "family_name" \in DOMAIN record
                 /\ "name" \in DOMAIN s => s["name"] = RomanName(record)
  BY <1>7, <1>10, <1>11
<1>14. "name" \notin HrFields
  BY <1>4
<1>15. /\ \A f \in HrFields : f \in DOMAIN s <=> e[f] # Unresolved
       /\ \A f \in HrFields \intersect DOMAIN s : s[f] = e[f]
  BY <1>8, <1>12, <1>14
<1> QED
  BY <1>7, <1>9, <1>12, <1>13, <1>15 DEF s, given, record

LEMMA NoConditions ==
  ASSUME NEW s, DOMAIN Conditions(s) = {}
  PROVE  Conditions(s) = << >>
<1>1. Conditions(s) = [f \in DOMAIN Conditions(s) |-> Conditions(s)[f]]
  BY DEF Conditions, Restrict
<1>2. << >> = [f \in {} |-> Conditions(s)[f]]
  OBVIOUS
<1> QED
  BY <1>1, <1>2

(* get_user asks HR for nobody else, and goes by the address of the        *)
(* employee or, when HR has none, by what the employee is named.           *)
LEMMA FallbackFilter ==
  ASSUME NEW hint, NEW e, EmployeesWith(Conditions(hint)) = {e}, Conditions(hint) # << >>
  PROVE  LET sought == Sought(FallbackSelector(hint, e)) IN
         /\ ~Has(sought, {"filter"})
         /\ \A u : Matches(u, FilterOf(sought)) <=>
                    IF e["email"] # Unresolved THEN u.user_name = e["email"]
                    ELSE IsNamed(u, hint, e)
<1> DEFINE s == FallbackSelector(hint, e)
           given == Given(hint)
           record == OnRecord(e, HrFields)
           sought == Sought(s)
<1>1. /\ "filter" \notin DOMAIN s /\ "id" \notin DOMAIN s
      /\ \A f \in HrFields : f \in DOMAIN s <=> e[f] # Unresolved
      /\ \A f \in HrFields \intersect DOMAIN s : s[f] = e[f]
      /\ e["email"] # Unresolved => "user_name" \in DOMAIN s /\ s["user_name"] = e["email"]
      /\ e["email"] = Unresolved =>
           /\ "user_name" \in DOMAIN s <=> "user_name" \in DOMAIN given
           /\ "user_name" \in DOMAIN given => s["user_name"] = given["user_name"]
      /\ "name" \in DOMAIN given => "name" \in DOMAIN s /\ s["name"] = given["name"]
      /\ "name" \notin DOMAIN given =>
           /\ "family_name_kanji" \in DOMAIN record =>
                "name" \in DOMAIN s /\ s["name"] = KanjiName(record)
           /\ "family_name_kanji" \notin DOMAIN record =>
                /\ "name" \in DOMAIN s <=> "family_name" \in DOMAIN record
                /\ "name" \in DOMAIN s => s["name"] = RomanName(record)
  BY FallbackFields
<1>2. /\ DOMAIN given = {f \in DOMAIN hint : hint[f] # Unresolved}
      /\ \A f \in DOMAIN given : given[f] = hint[f]
      /\ DOMAIN Conditions(hint) = DOMAIN given \intersect HrFields
      /\ \A f \in DOMAIN Conditions(hint) : Conditions(hint)[f] = hint[f] /\ hint[f] = e[f]
      /\ \A f \in DOMAIN Conditions(hint) : e[f] # Unresolved
  <2>1. /\ DOMAIN Given(hint) = {f \in DOMAIN hint : hint[f] # Unresolved}
        /\ \A f \in DOMAIN Given(hint) : Given(hint)[f] = hint[f]
        /\ DOMAIN Conditions(hint) = DOMAIN Given(hint) \intersect HrFields
        /\ \A f \in DOMAIN Conditions(hint) : Conditions(hint)[f] = hint[f]
    BY GivenFields
  <2>2. \A f \in DOMAIN Given(hint) \intersect HrFields : hint[f] = e[f] /\ e[f] # Unresolved
    BY AskedOf
  <2> QED
    BY <2>1, <2>2
<1>3. /\ DOMAIN Given(s) = {f \in DOMAIN s : s[f] # Unresolved}
      /\ \A f \in DOMAIN Given(s) : Given(s)[f] = s[f]
      /\ DOMAIN Conditions(s) = DOMAIN Given(s) \intersect HrFields
      /\ \A f \in DOMAIN Conditions(s) : Conditions(s)[f] = s[f]
  BY GivenFields
<1>4. "email" \in HrFields /\ "name" \notin HrFields
  BY DEF HrFields
<1> HIDE DEF s, given, record
<1>5. CASE "user_name" \in DOMAIN Given(s)
  <2>1. Has(Given(s), {"id", "filter", "user_name", "email"})
    BY <1>5 DEF Has
  <2>2. sought = s
    BY <2>1 DEF EnrichQuery, InHr, Sought
  <2>3. ~Has(s, {"filter"}) /\ Has(s, {"user_name"})
    BY <1>1, <1>3, <1>5 DEF Has
  <2>4. FilterOf(s) = [attr |-> "user_name", value |-> s["user_name"]]
    BY <2>3, FilterBy
  <2>5. \A u : Matches(u, FilterOf(s)) <=> u.user_name = s["user_name"]
    BY <2>4 DEF Matches
  <2>6. CASE e["email"] # Unresolved
    BY <1>1, <2>2, <2>3, <2>5, <2>6 DEF s
  <2>7. CASE e["email"] = Unresolved
    <3>1. Has(given, {"user_name"}) /\ s["user_name"] = given["user_name"]
      BY <1>1, <1>3, <1>5, <2>7 DEF Has
    <3>2. \A u : IsNamed(u, hint, e) <=> u.user_name = s["user_name"]
      BY <3>1 DEF IsNamed, given
    <3> QED
      BY <2>2, <2>3, <2>5, <2>7, <3>2 DEF s
  <2> QED
    BY <2>6, <2>7
<1>6. CASE "user_name" \notin DOMAIN Given(s)
  <2>1. e["email"] = Unresolved /\ "user_name" \notin DOMAIN given /\ "user_name" \notin DOMAIN s
    BY <1>1, <1>2, <1>3, <1>6
  <2>2. "email" \notin DOMAIN s
    BY <1>1, <1>4, <2>1
  <2>3. ~Has(Given(s), {"id", "filter", "user_name", "email"})
    BY <1>1, <1>3, <2>1, <2>2 DEF Has
  <2>4. \A f \in DOMAIN Conditions(hint) : f \in DOMAIN Conditions(s) /\ Conditions(s)[f] = Conditions(hint)[f]
    BY <1>1, <1>2, <1>3
  <2>5. Has(Given(s), HrFields)
    <3>1. DOMAIN Conditions(hint) # {}
      BY NoConditions
    <3> QED
      BY <1>3, <2>4, <3>1 DEF Has
  <2>6. EnrichQuery(s) = Conditions(s)
    BY <2>3, <2>5 DEF EnrichQuery
  <2>7. EmployeesWith(Conditions(s)) \subseteq {e}
    <3>1. EmployeesWith(Conditions(s)) \subseteq EmployeesWith(Conditions(hint))
      BY <2>4 DEF EmployeesWith
    <3> QED
      BY <3>1
  <2>8. sought \in {s, Enriched(s, e)}
    BY <2>6, <2>7 DEF InHr, Sought
  <2>9. /\ "filter" \notin DOMAIN sought /\ "user_name" \notin DOMAIN sought
        /\ "email" \notin DOMAIN sought
        /\ "name" \in DOMAIN sought <=> "name" \in DOMAIN s
        /\ "name" \in DOMAIN s => sought["name"] = s["name"]
    <3>1. CASE sought = s
      BY <1>1, <2>1, <2>2, <3>1
    <3>2. CASE sought = Enriched(s, e)
      <4> DEFINE names == Filled(Given(s), OnRecord(e, NameFields))
                 kanji == "family_name_kanji" \in DOMAIN names
      <4>1. /\ "filter" \in DOMAIN sought => "filter" \in DOMAIN s
            /\ \A f \in {"user_name", "email"} : f \in DOMAIN sought => f \in DOMAIN s
            /\ "name" \in DOMAIN Given(s) => "name" \in DOMAIN sought /\ sought["name"] = s["name"]
            /\ "name" \notin DOMAIN Given(s) /\ kanji =>
                 "name" \in DOMAIN sought /\ sought["name"] = KanjiName(names)
            /\ "name" \notin DOMAIN Given(s) /\ ~kanji =>
                 /\ "name" \in DOMAIN sought <=> "name" \in DOMAIN s
                 /\ "name" \in DOMAIN s => sought["name"] = s["name"]
        BY <2>1, <3>2, EnrichedFields
      <4>2. /\ DOMAIN names = DOMAIN Given(s) \union DOMAIN OnRecord(e, NameFields)
            /\ \A f \in DOMAIN Given(s) : names[f] = Given(s)[f]
            /\ \A f \in DOMAIN OnRecord(e, NameFields) \ DOMAIN Given(s) : names[f] = OnRecord(e, NameFields)[f]
        BY FilledFields
      <4>3. /\ DOMAIN OnRecord(e, NameFields) = {f \in NameFields : e[f] # Unresolved}
            /\ \A f \in DOMAIN OnRecord(e, NameFields) : OnRecord(e, NameFields)[f] = e[f]
            /\ DOMAIN record = {f \in HrFields : e[f] # Unresolved}
            /\ \A f \in DOMAIN record : record[f] = e[f]
        BY RecordedFields DEF record
      <4> HIDE DEF names
      <4>4. {"family_name_kanji", "given_name_kanji"} \subseteq NameFields /\ NameFields \subseteq HrFields
        BY DEF NameFields, HrFields
      <4>5. ASSUME NEW f \in {"family_name_kanji", "given_name_kanji"}
            PROVE  /\ f \in DOMAIN names <=> f \in DOMAIN record
                   /\ f \in DOMAIN names => names[f] = record[f]
        <5>1. f \in NameFields /\ f \in HrFields
          BY <4>4
        <5>2. f \in DOMAIN Given(s) => e[f] # Unresolved /\ Given(s)[f] = e[f]
          BY <1>1, <1>3, <5>1
        <5> QED
          BY <4>2, <4>3, <5>1, <5>2
      <4>6. ASSUME "name" \notin DOMAIN Given(s), kanji
            PROVE  "name" \in DOMAIN s /\ s["name"] = KanjiName(names)
        <5>1. "family_name_kanji" \in DOMAIN record /\ KanjiName(names) = KanjiName(record)
          BY <4>5, <4>6, KanjiNameOf
        <5>2. "name" \notin DOMAIN given
          BY <1>1, <1>2, <1>3, <4>6
        <5> QED
          BY <1>1, <5>1, <5>2
      <4> QED
        BY <1>1, <1>3, <2>1, <2>2, <4>1, <4>6
    <3> QED
      BY <2>8, <3>1, <3>2
  <2> HIDE DEF sought
  <2>10. ~Has(sought, {"filter"}) /\ ~Has(sought, {"user_name", "email"})
    BY <2>9 DEF Has
  <2>11. ~Has(given, {"user_name"}) /\ (Has(given, {"name"}) <=> "name" \in DOMAIN given)
         /\ (Has(record, {"family_name_kanji"}) <=> "family_name_kanji" \in DOMAIN record)
         /\ (Has(record, {"family_name"}) <=> "family_name" \in DOMAIN record)
    BY <2>1 DEF Has
  <2>12. \A u : IsNamed(u, hint, e) <=>
           IF "name" \in DOMAIN given THEN u.name = given["name"]
           ELSE IF "family_name_kanji" \in DOMAIN record THEN u.name = KanjiName(record)
           ELSE "family_name" \in DOMAIN record => u.name = RomanName(record)
    BY <2>11 DEF IsNamed, given, record
  <2>13. CASE "name" \in DOMAIN s
    <3>1. Has(sought, {"name"})
      BY <2>9, <2>13 DEF Has
    <3>2. FilterOf(sought) = [attr |-> "name", value |-> s["name"]]
      BY <2>9, <2>10, <2>13, <3>1, FilterBy
    <3>3. \A u : Matches(u, FilterOf(sought)) <=> u.name = s["name"]
      BY <3>2 DEF Matches
    <3>4. \A u : IsNamed(u, hint, e) <=> u.name = s["name"]
      BY <1>1, <2>12, <2>13
    <3> QED
      BY <2>1, <2>10, <3>3, <3>4 DEF sought, s
  <2>14. CASE "name" \notin DOMAIN s
    <3>1. ~Has(sought, {"user_name", "email", "name"})
      BY <2>9, <2>14 DEF Has
    <3>2. FilterOf(sought) = Everyone
      BY <2>10, <3>1, FilterBy
    <3>3. \A u : Matches(u, FilterOf(sought))
      BY <3>2 DEF Matches, Everyone
    <3>4. \A u : IsNamed(u, hint, e)
      BY <1>1, <2>12, <2>14
    <3> QED
      BY <2>1, <2>10, <3>3, <3>4 DEF sought, s
  <2> QED
    BY <2>13, <2>14
<1> QED
  BY <1>5, <1>6

(* What is said of those who were listed stays so.                         *)
LEMMA ScoredStays ==
  ASSUME UNCHANGED selector, NEW us, listed' = us
  PROVE  /\ Scored(listed)' = Scored(us)
         /\ \A u : OnlyEmployee(u)' <=> OnlyEmployee(u)
         /\ \A u : Best(u)' <=> u \in Scored(us) /\ \A v \in us \ {u} : Score(v) < Score(u)
BY DEF Scored, Score, Best, OnlyEmployee

LEMMA FitStays ==
  ASSUME UNCHANGED <<selector, listed, user, meant>>
  PROVE  FitNow' <=> FitNow
BY DEF FitNow, Scored, Score, Best, OnlyEmployee, AccountIsUser

(* The account that is found is that of the employee.                      *)
LEMMA FallbackFindsTheAccount ==
  ASSUME IInv, Fits, Fallback, place' # "done", NEW e, OnlyEmployee(e), staff = {e}
  PROVE  AccountIsUser(e)'
<1> DEFINE sought == Sought(FallbackSelector(selector, e))
<1>1. (CHOOSE x \in staff : TRUE) = e
  OBVIOUS
<1>2. PICK page \in Lookup(users, sought), u \in users :
        Resolved(page, sought) = {u} /\ user' = u.id
  BY <1>1, FallbackCases DEF IInv, Return
<1>3. meant' = {x \in users : IsNamed(x, selector, e)}
  BY <1>1 DEF Fallback
<1>4. /\ ~Has(sought, {"filter"})
      /\ \A x : Matches(x, FilterOf(sought)) <=>
                 IF e["email"] # Unresolved THEN x.user_name = e["email"]
                 ELSE IsNamed(x, selector, e)
  BY FallbackFilter DEF OnlyEmployee, Fits, Fallback
<1>5. users \subseteq Accounts \union Joiners /\ IsFiniteSet(users)
  BY DEF IInv, AllFinite, OnItsWay, Searching, Fallback, Fits
<1> HIDE DEF sought
<1>6. /\ page \in Pages(users, FilterOf(sought), 2)
      /\ page \subseteq {x \in users : Matches(x, FilterOf(sought))}
  BY DEF Lookup, Pages, kSubset
<1>7. Resolved(page, sought) = page
  BY <1>4, <1>5, <1>6, NameIsAskedFor, DirectoryAssumption
<1>8. {x \in users : Matches(x, FilterOf(sought))} = {u}
  BY <1>2, <1>5, <1>6, <1>7, OneOfTwoIsAlone
<1>9. CASE e["email"] # Unresolved
  <2>1. u \in Accounts \union Joiners /\ u.user_name = e["email"]
    BY <1>4, <1>5, <1>8, <1>9
  <2>2. u \in AccountsOf(Accounts \union Joiners, e)
    BY <1>9, <2>1 DEF AccountsOf
  <2> QED
    BY <1>2, <1>9, <2>2 DEF AccountIsUser
<1>10. CASE e["email"] = Unresolved
  <2>1. meant' = {u}
    BY <1>3, <1>4, <1>8, <1>10
  <2> QED
    BY <1>2, <1>10, <2>1 DEF AccountIsUser
<1> QED
  BY <1>9, <1>10

(* How somebody is found.                                                  *)
LEMMA SearchingSteps ==
  ASSUME IInv, [Next]_vars, place' \in {"get_user", "fallback", "hr_candidates"}
  PROVE  ListUsers \/ QueryHr \/ (Others /\ UNCHANGED found) \/ UNCHANGED vars
<1>1. ~ToolNext
  <2>1. ~(Begin \/ ReadFails \/ HrForSelector \/ Patch \/ Create \/ WriteFails)
    BY DEF Begin, ReadFails, HrForSelector, Patch, Create, WriteFails, Return, Continue,
       CreateOrRefuse
  <2>2. ~HrForCreate
    <3>1. EmployeesWith(query) = {} \/ Cardinality(EmployeesWith(query)) = 1
            \/ Cardinality(EmployeesWith(query)) > 1
      BY EmployeesFinite, CasesOfCardinality
    <3> QED
      BY <3>1 DEF HrForCreate, CreateOrRefuse, Return, Continue
  <2>3. ~(GetById \/ LookUpUser \/ FindGroup)
    BY GetByIdCases, LookUpUserCases, FindGroupCases DEF IInv
  <2> QED
    BY <2>1, <2>2, <2>3 DEF ToolNext
<1>2. ~(Ask \/ Fallback \/ FallbackFails \/ RequestFails \/ GetUser \/ ListGroups \/ ListPolicies \/ Conclude)
  BY LoadedCases DEF Ask, Fallback, FallbackFails, RequestFails, GetUser, ListGroups, ListPolicies,
     Conclude, Return, Continue
<1> QED
  BY <1>1, <1>2 DEF Next, Investigate

LEMMA UsersStayKnown ==
  ASSUME IInv, Fits, [Next]_vars
  PROVE  /\ Investigating' => users' \subseteq Accounts \union Joiners
         /\ listed' \subseteq Accounts \union Joiners
<1>1. Investigating' <=> Investigating
  BY DEF Next, ToolNext, Investigate, vars, idVars, Begin, ReadFails, HrForSelector,
     HrForCreate, GetById, LookUpUser, FindGroup, Patch, Create, WriteFails, Others, Ask, ListUsers,
     QueryHr, Fallback, FallbackFails, GetUser, ListGroups, ListPolicies, RequestFails, Conclude,
     Investigating
<1>2. Investigating => ~Create
  BY DEF Create, IInv, OnItsWay, Investigating
<1>3. Investigating' => users' \subseteq Accounts \union Joiners
  BY <1>1, <1>2, DirectoryChanges DEF Others, Patch, domain, Fits
<1>4. CASE ListUsers
  <2>1. PICK page \in Pages(users, Everyone, PageMax) : listed' = page
    BY <1>4 DEF ListUsers
  <2>2. page \subseteq users /\ Investigating
    BY <1>4, <2>1, PagesFinite DEF IInv, AllFinite, OnItsWay, Searching, ListUsers
  <2> QED
    BY <1>3, <2>1, <2>2 DEF Fits
<1>5. CASE UNCHANGED listed
  BY <1>3, <1>5 DEF Fits
<1> QED
  BY <1>4, <1>5 DEF Next, Investigate, Ask, QueryHr, Fallback, FallbackFails, GetUser, ListGroups,
     ListPolicies, RequestFails, Conclude, vars, found

LEMMA StepFits ==
  ASSUME IInv, Typed, Fits, [Next]_vars PROVE Fits'
<1>0. /\ Investigating' => users' \subseteq Accounts \union Joiners
      /\ listed' \subseteq Accounts \union Joiners
      /\ AllFinite
  BY UsersStayKnown DEF IInv
<1>1. CASE ListUsers
  <2>1. PICK page \in Pages(users, Everyone, PageMax) :
          /\ listed' = page
          /\ IF Conditions(selector) # << >>
             THEN Continue("hr_candidates") /\ UNCHANGED user
             ELSE Resolve(page, {})
    BY <1>1 DEF ListUsers
  <2>2. IsFiniteSet(page) /\ IsFiniteSet({})
    BY <1>0, <2>1, PagesFinite, FS_EmptySet DEF AllFinite
  <2>3. ~Reported' /\ place' \notin Collected \union {"fallback"}
    <3>1. place' \in {"hr_candidates", "get_user"} \/ (place' = "done" /\ answer' \in {Error, Confirm})
      <4>1. CASE Resolve(page, {})
        BY <2>2, <4>1, ResolveCases
      <4> QED
        BY <2>1, <4>1 DEF Continue
    <3> QED
      BY <3>1, ReportedAtTheEnd, <1>1 DEF Collected, ListUsers, Conclude, vars, idVars,
         Reported, Error, Confirm, Answer
  <2>4. ASSUME place' = "get_user" PROVE FitNow'
    <3>1. Resolve(page, {})
      BY <2>1, <2>4 DEF Continue
    <3>2. PICK u : Candidates(page) = {u} /\ user' = u.id
      BY <2>2, <2>4, <3>1, ResolveCases
    <3>3. Best(u)'
      BY <1>1, <2>1, <3>2, OnlyCandidate, ScoredStays DEF ListUsers
    <3> QED
      BY <3>2, <3>3 DEF FitNow
  <2>5. place' = "hr_candidates" => Conditions(selector') # << >>
    <3>1. Resolve(page, {}) => place' # "hr_candidates"
      BY <2>2, ResolveCases
    <3> QED
      BY <1>1, <2>1, <3>1 DEF ListUsers
  <2> QED
    BY <1>0, <2>3, <2>4, <2>5 DEF Fits
<1>2. CASE QueryHr
  <2>1. PICK employees \in {{}, EmployeesWith(Conditions(selector))} :
          staff' = employees /\ Resolve(listed, employees)
    BY <1>2 DEF QueryHr
  <2>2. IsFiniteSet(employees) /\ IsFiniteSet(listed)
    BY <1>0, <2>1, EmployeesFinite, FS_EmptySet DEF AllFinite
  <2>3. UNCHANGED <<selector, listed>>
    BY <1>2 DEF QueryHr
  <2>4. ASSUME NEW e, employees = {e} PROVE OnlyEmployee(e) /\ OnlyEmployee(e)'
    <3>1. OnlyEmployee(e)
      BY <2>1, <2>4 DEF OnlyEmployee, EmployeesWith
    <3> QED
      BY <2>3, <3>1 DEF OnlyEmployee
  <2>5. PICK us : listed = us
    OBVIOUS
  <2>6. \/ /\ place' = "get_user"
           /\ \/ \E u \in us : Candidates(us) = {u} /\ user' = u.id
              \/ /\ Candidates(us) = {}
                 /\ \E e : employees = {e} /\ \E u \in AccountsOf(us, e) : user' = u.id
        \/ place' = "fallback" /\ Candidates(us) = {} /\ \E e : employees = {e}
        \/ place' = "done" /\ answer' \in {Error, Confirm}
    BY <2>1, <2>2, <2>5, ResolveCases
  <2>7. ~Reported' /\ place' \notin Collected
    <3>1. place' \in {"fallback", "get_user"} \/ (place' = "done" /\ answer' \in {Error, Confirm})
      BY <2>6
    <3> QED
      BY <3>1, ReportedAtTheEnd, <1>2 DEF Collected, QueryHr, Conclude, vars, idVars,
         Reported, Error, Confirm, Answer
  <2>8. ASSUME Candidates(us) = {} PROVE Scored(listed)' = {}
    BY <2>3, <2>5, <2>8, NoCandidates, ScoredStays
  <2>9. CASE \E u \in us : Candidates(us) = {u} /\ place' = "get_user" /\ user' = u.id
    <3>1. PICK u \in us : Candidates(us) = {u} /\ place' = "get_user" /\ user' = u.id
      BY <2>9
    <3>2. Best(u)'
      BY <2>3, <2>5, <3>1, OnlyCandidate, ScoredStays
    <3>3. FitNow'
      BY <3>1, <3>2 DEF FitNow
    <3> QED
      BY <1>0, <2>7, <3>1, <3>3 DEF Fits
  <2>10. CASE /\ Candidates(us) = {} /\ place' = "get_user"
             /\ \E e : employees = {e} /\ \E u \in AccountsOf(us, e) : user' = u.id
    <3>1. PICK e : employees = {e} /\ \E u \in AccountsOf(us, e) : user' = u.id
      BY <2>10
    <3>2. PICK u \in AccountsOf(Accounts \union Joiners, e) : user' = u.id /\ e["email"] # Unresolved
      BY <1>0, <2>3, <2>5, <3>1 DEF AccountsOf
    <3>3. FitNow'
      BY <2>4, <2>8, <2>10, <3>1, <3>2 DEF FitNow, AccountIsUser
    <3> QED
      BY <1>0, <2>7, <2>10, <3>3 DEF Fits
  <2>11. CASE Candidates(us) = {} /\ place' = "fallback" /\ \E e : employees = {e}
    <3>1. Scored(listed)' = {} /\ \E e : OnlyEmployee(e)' /\ staff' = {e}
      BY <2>1, <2>4, <2>8, <2>11
    <3>2. Conditions(selector') # << >>
      BY <1>2, <2>3 DEF Fits, QueryHr
    <3> QED
      BY <1>0, <2>7, <2>11, <3>1, <3>2 DEF Fits
  <2>12. CASE place' = "done"
    BY <1>0, <2>7, <2>12 DEF Fits
  <2> QED
    BY <2>9, <2>10, <2>11, <2>12, <2>6
<1>3. CASE Fallback
  <2>1. place' \notin {"fallback", "get_user", "hr_candidates"}
    BY <1>0, <1>3, FallbackCases, LoadedCases DEF Return
  <2>2. ASSUME place' \in Collected \/ Reported' PROVE FitNow'
    <3>1. PICK e : OnlyEmployee(e) /\ staff = {e}
      BY <1>3 DEF Fallback, Fits
    <3>2. Scored(listed) = {} /\ UNCHANGED <<selector, listed>>
      BY <1>3 DEF Fallback, Fits
    <3>3. ~Reported'
      BY <1>3, ReportedAtTheEnd DEF Fallback, Conclude, vars, idVars, Reported, Typed, AnswerTyped
    <3>4. place' # "done"
      BY <2>2, <3>3 DEF Collected
    <3>5. AccountIsUser(e)'
      BY <1>3, <3>1, <3>4, FallbackFindsTheAccount
    <3>6. Scored(listed)' = {} /\ OnlyEmployee(e)'
      BY <3>1, <3>2, ScoredStays
    <3> QED
      BY <3>5, <3>6 DEF FitNow
  <2> QED
    BY <1>0, <2>1, <2>2 DEF Fits
<1>4. CASE GetUser \/ ListGroups \/ ListPolicies \/ Conclude
  <2>1. UNCHANGED <<selector, listed, user, meant>> /\ place \in Collected \union {"get_user"}
    BY <1>4 DEF GetUser, ListGroups, ListPolicies, Conclude, work, Collected
  <2>2. FitNow'
    BY <2>1, FitStays DEF Fits
  <2>3. place' \notin {"fallback", "hr_candidates"}
    BY <1>4, LoadedCases DEF GetUser, ListGroups, ListPolicies, Conclude, Continue, Return
  <2> QED
    BY <1>0, <2>2, <2>3 DEF Fits
<1>5. CASE UNCHANGED <<place, answer, call, work, found>>
  <2>1. UNCHANGED <<selector, listed, user, meant, staff>>
    BY <1>5 DEF work, found
  <2>2. FitNow' <=> FitNow
    BY <2>1, FitStays
  <2>3. Scored(listed)' = Scored(listed) /\ \A e : OnlyEmployee(e)' <=> OnlyEmployee(e)
    BY <2>1 DEF Scored, Score, OnlyEmployee
  <2> QED
    BY <1>0, <1>5, <2>1, <2>2, <2>3 DEF Fits, Reported, Investigating
<1>6. CASE Others /\ UNCHANGED found
  BY <1>5, <1>6 DEF Others
<1>7. CASE UNCHANGED vars
  BY <1>5, <1>7 DEF vars, idVars
<1>8. CASE place' \notin Collected \union {"get_user", "fallback", "hr_candidates"} /\ ~Reported'
  BY <1>0, <1>8 DEF Fits
<1> QED
  BY <1>1, <1>2, <1>3, <1>4, <1>6, <1>7, <1>8, SearchingSteps, CollectingSteps

(* For any directory, HR database and prompt, and any changes by others:   *)
(* the one whose permissions are reported fits the prompt better than      *)
(* anybody else who was listed, or is the account of the only employee     *)
(* whom the HR database finds for it: the one with the address of the      *)
(* employee or, when HR has none, the only one of the employee's name.     *)
THEOREM ReportedFitsThePrompt == Spec => []FitsThePrompt
<1>1. Init => Fits
  BY DEF Init, IdInit, Fits, Collected, Reported, NoAnswer, Answer
<1>2. IInv /\ Typed /\ Fits /\ [Next]_vars => Fits'
  BY StepFits
<1>3. Fits => FitsThePrompt
  BY DEF Fits, FitsThePrompt, FitNow, Best, OnlyEmployee, AccountIsUser
<1> QED
  BY <1>1, <1>2, <1>3, Invariance, TypedInvariance, PTL DEF Spec

=============================================================================
