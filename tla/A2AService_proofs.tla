-------------------------- MODULE A2AService_proofs --------------------------
(***************************************************************************)
(* Theorems about the receiving side of agent-to-agent execution, for      *)
(* every number of calls, keys, requests and restarts.                     *)
(***************************************************************************)
EXTENDS A2AService, TLAPS

USE A2AAssumption

-----------------------------------------------------------------------------
LEMMA RejectionType ==
  \A r : Rejection(r) \in {"none", "a2a_disabled", "missing_input", "internal_error",
                           "invalid_argument", "loop_detected", "peer_untrusted",
                           "unsupported_operation"}
BY DEF Rejection, Violation

LEMMA ResponseStatusType == \A status : ResponseStatus(status) \in Statuses
BY DEF ResponseStatus, Statuses

LEMMA RecordType ==
  \A r \in Requests, response \in Responses :
    [fingerprint |-> r.fingerprint, response |-> response] \in Record
BY DEF RequestType, Record

(* Every variable keeps to its type (A2AService!TypeOK).                   *)
THEOREM TypeCorrect == Spec => []TypeOK
<1>1. Init => TypeOK
  BY DEF Init, TypeOK, Locations
<1>2. TypeOK /\ [Next]_vars => TypeOK'
  <2> SUFFICES ASSUME TypeOK, [Next]_vars PROVE TypeOK'
    OBVIOUS
  <2> USE DEF TypeOK, locals, history, Goto, Return, Locations
  <2>1. ASSUME NEW c \in Calls, Reject(c) PROVE TypeOK'
    <3>1. PICK r \in Requests : /\ Rejection(r) # "none"
                                /\ request' = [request EXCEPT ![c] = r]
                                /\ Return(c, Refusal(Rejection(r)))
      BY <2>1 DEF Reject
    <3>2. Refusal(Rejection(r)) \in Refusals
      BY <3>1, RejectionType DEF Refusal, Refusals, Codes
    <3>3. QED
      BY <2>1, <3>1, <3>2 DEF Reject
  <2>2. ASSUME NEW c \in Calls, Admit(c) PROVE TypeOK'
    BY <2>2 DEF Admit
  <2>3. ASSUME NEW c \in Calls, LookupMiss(c) PROVE TypeOK'
    BY <2>3 DEF LookupMiss
  <2>4. ASSUME NEW c \in Calls, LookupNoKey(c) PROVE TypeOK'
    BY <2>4 DEF LookupNoKey, Refusal, Refusals, Codes
  <2>5. ASSUME NEW c \in Calls, LookupHit(c) PROVE TypeOK'
    <3>1. /\ request[c] \in Requests /\ request[c].key \in Keys
          /\ records[request[c].key] \in Record
      BY <2>5 DEF LookupHit, RequestType
    <3>2. PICK answer \in Responses \union Refusals : Return(c, answer)
      BY <2>5, <3>1 DEF LookupHit, Record, Conflict, Refusal, Refusals, Codes
    <3>3. QED
      BY <2>5, <3>2 DEF LookupHit
  <2>6. ASSUME NEW c \in Calls, CallTool(c) PROVE TypeOK'
    <3>1. PICK response \in Responses :
            /\ result' = [result EXCEPT ![c] = response]
            /\ executions' = executions \union {Execution(c, response)}
      BY <2>6, ResponseStatusType DEF CallTool, Responses
    <3>2. Execution(c, response) \in Executions
      BY <2>6 DEF CallTool, Execution, Executions
    <3>3. QED
      BY <2>6, <3>1, <3>2 DEF CallTool
  <2>7. ASSUME NEW c \in Calls, Save(c) PROVE TypeOK'
    <3>1. [fingerprint |-> request[c].fingerprint, response |-> result[c]] \in Record
      BY <2>7, RecordType DEF Save
    <3>2. records' \in [Keys -> Record \union {None}]
      BY <2>7, <3>1 DEF Save
    <3>3. QED
      BY <2>7, <3>2 DEF Save
  <2>8. ASSUME NEW c \in Calls, AuditAndReturn(c) PROVE TypeOK'
    <3>1. [call |-> c, status |-> result[c].status] \in [call : Calls, status : Statuses]
      BY <2>8 DEF AuditAndReturn, Responses
    <3>2. QED
      BY <2>8, <3>1 DEF AuditAndReturn
  <2>9. CASE Restart
    <3>1. forgotten' \subseteq Keys \union {NoKey}
      BY <2>9 DEF Restart, Executions, RequestType
    <3>2. QED
      BY <2>9, <3>1 DEF Restart
  <2>10. CASE UNCHANGED vars
    BY <2>10 DEF vars
  <2>11. QED
    BY <2>1, <2>2, <2>3, <2>4, <2>5, <2>6, <2>7, <2>8, <2>9, <2>10
       DEF Next, Serve, AllAnswered
<1>3. QED
  BY <1>1, <1>2, PTL DEF Spec

-----------------------------------------------------------------------------
(* What the checks of execute() have established by the time a call has    *)
(* passed them: the input guard's and the service's when it looks its key  *)
(* up, the second look at the key when it goes on to call the tool.        *)
Passed(r) == Rejection(r) = "none"

Keyed(r) == HighRisk(r) => r.key \in Keys

ChecksPassed ==
  \A c \in Calls :
    /\ pc[c] \in {"lookup", "call", "save", "audit"} => Passed(request[c])
    /\ pc[c] \in {"call", "save", "audit"} => Keyed(request[c])

ExecutionsChecked == \A e \in executions : Passed(e.request) /\ Keyed(e.request)

Checks == ChecksPassed /\ ExecutionsChecked

(* What an admitted request has going for it.                              *)
LEMMA PassedMeans ==
  ASSUME NEW r \in Requests, Passed(r)
  PROVE  /\ A2AEnabled /\ r.complete /\ r.wellFormed /\ r.trusted /\ r.target # "other"
         /\ r.hopCount <= MaxHops /\ ~r.visitsSelf /\ r.operation \in Operations
<1>1. A2AEnabled /\ r.complete /\ r.wellFormed /\ ~(r.hopCount > MaxHops) /\ ~r.visitsSelf
  BY DEF Passed, Rejection, Violation
<1>2. r.target # "other" /\ r.trusted /\ r.operation \in Operations
  BY <1>1 DEF Passed, Rejection, Violation
<1>3. r.hopCount \in Nat
  BY DEF RequestType
<1>4. r.hopCount <= MaxHops
  BY <1>1, <1>3
<1>5. QED
  BY <1>1, <1>2, <1>4

LEMMA ChecksInvariant == Spec => []Checks
<1>1. Init => Checks
  BY DEF Init, Checks, ChecksPassed, ExecutionsChecked
<1>2. TypeOK /\ Checks /\ [Next]_vars => Checks'
  <2> SUFFICES ASSUME TypeOK, Checks, [Next]_vars PROVE Checks'
    OBVIOUS
  <2> USE DEF TypeOK, locals, history, Goto, Return, Checks, ChecksPassed, ExecutionsChecked
  <2>1. ASSUME NEW c \in Calls, Reject(c) PROVE Checks'
    BY <2>1 DEF Reject
  <2>2. ASSUME NEW c \in Calls, Admit(c) PROVE Checks'
    BY <2>2 DEF Admit, Passed
  <2>3. ASSUME NEW c \in Calls, LookupMiss(c) PROVE Checks'
    <3>1. Keyed(request[c])
      BY <2>3 DEF LookupMiss, Keyed, RequestType
    <3>2. QED
      BY <2>3, <3>1 DEF LookupMiss
  <2>4. ASSUME NEW c \in Calls, LookupNoKey(c) PROVE Checks'
    BY <2>4 DEF LookupNoKey
  <2>5. ASSUME NEW c \in Calls, LookupHit(c) PROVE Checks'
    BY <2>5 DEF LookupHit
  <2>6. ASSUME NEW c \in Calls, CallTool(c) PROVE Checks'
    <3>1. PICK response : executions' = executions \union {Execution(c, response)}
      BY <2>6 DEF CallTool
    <3>2. Execution(c, response).request = request[c]
      BY DEF Execution
    <3>3. QED
      BY <2>6, <3>1, <3>2 DEF CallTool
  <2>7. ASSUME NEW c \in Calls, Save(c) PROVE Checks'
    BY <2>7 DEF Save
  <2>8. ASSUME NEW c \in Calls, AuditAndReturn(c) PROVE Checks'
    BY <2>8 DEF AuditAndReturn
  <2>9. CASE Restart
    BY <2>9 DEF Restart
  <2>10. CASE UNCHANGED vars
    BY <2>10 DEF vars
  <2>11. QED
    BY <2>1, <2>2, <2>3, <2>4, <2>5, <2>6, <2>7, <2>8, <2>9, <2>10
       DEF Next, Serve, AllAnswered
<1>3. QED
  BY <1>1, <1>2, TypeCorrect, PTL DEF Spec

(* No tool runs but for an admitted request, and no high-risk tool without *)
(* a key (GuardedExecution).                                               *)
THEOREM ExecutionIsGuarded == Spec => []GuardedExecution
<1>1. TypeOK /\ Checks => GuardedExecution
  <2> SUFFICES ASSUME TypeOK, Checks, NEW e \in executions
      PROVE /\ A2AEnabled /\ e.request.complete /\ e.request.wellFormed
            /\ e.request.trusted /\ e.request.target # "other"
            /\ e.request.hopCount <= MaxHops /\ ~e.request.visitsSelf
            /\ e.request.operation \in Operations
            /\ HighRisk(e.request) => e.request.key \in Keys
    BY DEF GuardedExecution
  <2>1. e.request \in Requests
    BY DEF TypeOK, Executions
  <2>2. Passed(e.request) /\ Keyed(e.request)
    BY DEF Checks, ExecutionsChecked
  <2>3. QED
    BY <2>1, <2>2, PassedMeans DEF Keyed
<1>2. QED
  BY <1>1, TypeCorrect, ChecksInvariant, PTL

-----------------------------------------------------------------------------
(* The executions of high-risk tools under a key.                          *)
ExecutionsOf(key) == {e \in executions : HighRisk(e.request) /\ e.request.key = key}

Clean(key) == key \notin contended /\ key \notin forgotten

(* A clean key has one call under way at most; it has an execution only if *)
(* the record of it is there or is about to be saved; and a call about to  *)
(* execute is the first.                                                   *)
OneAtATime ==
  \A key \in Keys : Clean(key) =>
    \A c, d \in Calls : Executing(c, key) /\ Executing(d, key) => c = d

ExecutedIsRecorded ==
  \A key \in Keys : Clean(key) /\ ExecutionsOf(key) # {} =>
    \/ records[key] # None
    \/ \E c \in Calls : pc[c] = "save" /\ Executing(c, key)

FirstToExecute ==
  \A key \in Keys, c \in Calls :
    Clean(key) /\ pc[c] = "call" /\ Executing(c, key) => ExecutionsOf(key) = {}

ExecutedOnce ==
  \A key \in Keys : Clean(key) =>
    \A e, f \in ExecutionsOf(key) : e = f

Idempotence ==
  /\ OneAtATime
  /\ ExecutedIsRecorded
  /\ FirstToExecute
  /\ ExecutedOnce

(* A step that neither enters nor leaves the tool call of any request.     *)
Aside ==
  /\ UNCHANGED <<records, executions, contended, forgotten>>
  /\ \A c \in Calls :
       \/ pc'[c] = pc[c] /\ request'[c] = request[c]
       \/ pc[c] \notin {"call", "save"} /\ pc'[c] \notin {"call", "save"}

LEMMA AsideKeeps == ASSUME Idempotence, Aside PROVE Idempotence'
<1>1. \A c \in Calls, key \in Keys :
        /\ Executing(c, key)' <=> Executing(c, key)
        /\ Executing(c, key) => pc'[c] = pc[c]
  BY DEF Aside, Executing
<1>2. \A key \in Keys : ExecutionsOf(key)' = ExecutionsOf(key) /\ (Clean(key)' <=> Clean(key))
  BY DEF Aside, ExecutionsOf, Clean
<1>3. OneAtATime'
  BY <1>1, <1>2 DEF Idempotence, OneAtATime
<1>4. ExecutedIsRecorded'
  BY <1>1, <1>2 DEF Idempotence, ExecutedIsRecorded, Aside
<1>5. FirstToExecute'
  BY <1>1, <1>2 DEF Idempotence, FirstToExecute
<1>6. ExecutedOnce'
  BY <1>2 DEF Idempotence, ExecutedOnce
<1>7. QED
  BY <1>3, <1>4, <1>5, <1>6 DEF Idempotence

LEMMA MissKeeps ==
  ASSUME TypeOK, Checks, Idempotence, NEW c \in Calls, LookupMiss(c)
  PROVE  Idempotence'
<1>1. /\ pc[c] = "lookup" /\ pc'[c] = "call"
      /\ \A d \in Calls \ {c} : pc'[d] = pc[d]
      /\ UNCHANGED <<records, request, executions, forgotten>>
  BY DEF TypeOK, LookupMiss, Goto, locals
<1>2. /\ contended \subseteq contended'
      /\ \A key \in Keys, d \in Calls \ {c} :
           HighRisk(request[c]) /\ request[c].key = key /\ Executing(d, key)
             => key \in contended'
  BY DEF LookupMiss
<1>3. \A key \in Keys :
        /\ Clean(key)' => Clean(key)
        /\ ExecutionsOf(key)' = ExecutionsOf(key)
        /\ ~Executing(c, key)
        /\ \A d \in Calls \ {c} : Executing(d, key)' <=> Executing(d, key)
  BY <1>1, <1>2 DEF Clean, ExecutionsOf, Executing
<1>4. ASSUME NEW key \in Keys, Clean(key)', Executing(c, key)'
      PROVE  /\ \A d \in Calls : ~Executing(d, key)
             /\ records[key] = None /\ ExecutionsOf(key) = {}
  <2>1. HighRisk(request[c]) /\ request[c].key = key
    BY <1>1, <1>4 DEF Executing
  <2>2. \A d \in Calls : ~Executing(d, key)
    BY <1>2, <1>3, <1>4, <2>1 DEF Clean
  <2>3. records[key] = None
    BY <2>1 DEF LookupMiss
  <2>4. ExecutionsOf(key) = {}
    BY <1>3, <1>4, <2>2, <2>3 DEF Idempotence, ExecutedIsRecorded
  <2>5. QED
    BY <2>2, <2>3, <2>4
<1>5. OneAtATime'
  BY <1>3, <1>4 DEF Idempotence, OneAtATime
<1>6. ExecutedIsRecorded'
  <2> SUFFICES ASSUME NEW key \in Keys, Clean(key)', ExecutionsOf(key) # {}, records[key] = None
      PROVE \E d \in Calls : pc'[d] = "save" /\ Executing(d, key)'
    BY <1>1, <1>3 DEF ExecutedIsRecorded
  <2>1. PICK d \in Calls : pc[d] = "save" /\ Executing(d, key)
    BY <1>3 DEF Idempotence, ExecutedIsRecorded
  <2>2. d # c
    BY <1>1, <2>1
  <2>3. QED
    BY <1>1, <1>3, <2>1, <2>2
<1>7. FirstToExecute'
  BY <1>1, <1>3, <1>4 DEF Idempotence, FirstToExecute
<1>8. ExecutedOnce'
  BY <1>3 DEF Idempotence, ExecutedOnce
<1>9. QED
  BY <1>5, <1>6, <1>7, <1>8 DEF Idempotence

LEMMA ToolKeeps ==
  ASSUME TypeOK, Checks, Idempotence, NEW c \in Calls, CallTool(c)
  PROVE  Idempotence'
<1>1. /\ pc[c] = "call" /\ pc'[c] = "save"
      /\ \A d \in Calls \ {c} : pc'[d] = pc[d]
      /\ UNCHANGED <<records, request, contended, forgotten>>
  BY DEF TypeOK, CallTool, Goto
<1>2. PICK e : e.request = request[c] /\ executions' = executions \union {e}
  BY DEF CallTool, Execution
<1>3. \A key \in Keys :
        /\ Clean(key)' <=> Clean(key)
        /\ \A d \in Calls : Executing(d, key)' <=> Executing(d, key)
        /\ ExecutionsOf(key)' = IF Executing(c, key) THEN ExecutionsOf(key) \union {e} ELSE ExecutionsOf(key)
  BY <1>1, <1>2 DEF Clean, Executing, ExecutionsOf
<1>4. OneAtATime'
  BY <1>3 DEF Idempotence, OneAtATime
<1>5. ExecutedIsRecorded'
  BY <1>1, <1>3 DEF Idempotence, ExecutedIsRecorded
<1>6. FirstToExecute'
  BY <1>1, <1>3 DEF Idempotence, FirstToExecute, OneAtATime
<1>7. ExecutedOnce'
  BY <1>1, <1>3 DEF Idempotence, ExecutedOnce, FirstToExecute
<1>8. QED
  BY <1>4, <1>5, <1>6, <1>7 DEF Idempotence

LEMMA SaveKeeps ==
  ASSUME TypeOK, Checks, Idempotence, NEW c \in Calls, Save(c)
  PROVE  Idempotence'
<1>1. /\ pc[c] = "save" /\ pc'[c] = "audit"
      /\ \A d \in Calls \ {c} : pc'[d] = pc[d]
      /\ UNCHANGED <<request, executions, contended, forgotten>>
  BY DEF TypeOK, Save, Goto, locals, history
<1>2. \A key \in Keys : records'[key] # records[key] => Executing(c, key)
  BY <1>1 DEF TypeOK, Save, Executing
<1>3. \A key \in Keys : Executing(c, key) => records'[key] # None
  <2> SUFFICES ASSUME NEW key \in Keys, Executing(c, key) PROVE records'[key] # None
    OBVIOUS
  <2>1. [fingerprint |-> request[c].fingerprint, response |-> result[c]] \in Record
    BY <1>1, RecordType DEF TypeOK
  <2>2. QED
    BY <2>1 DEF TypeOK, Save, Executing
<1>4. \A key \in Keys :
        /\ Clean(key)' <=> Clean(key)
        /\ ExecutionsOf(key)' = ExecutionsOf(key)
        /\ ~Executing(c, key)'
        /\ \A d \in Calls \ {c} : Executing(d, key)' <=> Executing(d, key)
  BY <1>1 DEF Clean, Executing, ExecutionsOf
<1>5. OneAtATime'
  BY <1>4 DEF Idempotence, OneAtATime
<1>6. ExecutedIsRecorded'
  <2> SUFFICES ASSUME NEW key \in Keys, Clean(key), ExecutionsOf(key) # {}, records'[key] = None
      PROVE \E d \in Calls : pc'[d] = "save" /\ Executing(d, key)'
    BY <1>4 DEF ExecutedIsRecorded
  <2>1. records[key] = None /\ ~Executing(c, key)
    BY <1>2, <1>3
  <2>2. PICK d \in Calls : pc[d] = "save" /\ Executing(d, key)
    BY <2>1 DEF Idempotence, ExecutedIsRecorded
  <2>3. QED
    BY <1>1, <1>4, <2>1, <2>2
<1>7. FirstToExecute'
  BY <1>1, <1>4 DEF Idempotence, FirstToExecute
<1>8. ExecutedOnce'
  BY <1>4 DEF Idempotence, ExecutedOnce
<1>9. QED
  BY <1>5, <1>6, <1>7, <1>8 DEF Idempotence

LEMMA RestartKeeps ==
  ASSUME TypeOK, Idempotence, Restart PROVE Idempotence'
<1>1. \A c \in Calls : pc'[c] \notin {"call", "save"}
  BY DEF TypeOK, Restart
<1>2. \A key \in Keys : Clean(key)' => ExecutionsOf(key)' = {}
  BY DEF Restart, Clean, ExecutionsOf
<1>3. QED
  BY <1>1, <1>2 DEF Idempotence, OneAtATime, ExecutedIsRecorded, FirstToExecute,
                    ExecutedOnce, Executing

LEMMA IdempotenceInvariant == Spec => []Idempotence
<1>1. Init => Idempotence
  BY DEF Init, Idempotence, OneAtATime, ExecutedIsRecorded, FirstToExecute, ExecutedOnce,
         Executing, ExecutionsOf
<1>2. TypeOK /\ Checks /\ Idempotence /\ [Next]_vars => Idempotence'
  <2> SUFFICES ASSUME TypeOK, Checks, Idempotence, [Next]_vars PROVE Idempotence'
    OBVIOUS
  <2> USE DEF TypeOK, locals, history, Goto, Return
  <2>1. ASSUME NEW c \in Calls, Reject(c) PROVE Idempotence'
    BY <2>1, AsideKeeps DEF Reject, Aside
  <2>2. ASSUME NEW c \in Calls, Admit(c) PROVE Idempotence'
    BY <2>2, AsideKeeps DEF Admit, Aside
  <2>3. ASSUME NEW c \in Calls, LookupNoKey(c) PROVE Idempotence'
    BY <2>3, AsideKeeps DEF LookupNoKey, Aside
  <2>4. ASSUME NEW c \in Calls, LookupHit(c) PROVE Idempotence'
    BY <2>4, AsideKeeps DEF LookupHit, Aside
  <2>5. ASSUME NEW c \in Calls, AuditAndReturn(c) PROVE Idempotence'
    BY <2>5, AsideKeeps DEF AuditAndReturn, Aside
  <2>6. CASE UNCHANGED vars
    BY <2>6, AsideKeeps DEF vars, Aside
  <2>7. QED
    BY <2>1, <2>2, <2>3, <2>4, <2>5, <2>6, MissKeeps, ToolKeeps, SaveKeeps, RestartKeeps
       DEF Next, Serve, AllAnswered
<1>3. QED
  BY <1>1, <1>2, TypeCorrect, ChecksInvariant, PTL DEF Spec

(* A key is executed twice only if two calls held it at once or the        *)
(* process was restarted (DuplicateNeedsRaceOrRestart).                    *)
THEOREM DuplicatesNeedRaceOrRestart == Spec => []DuplicateNeedsRaceOrRestart
<1>1. Checks /\ Idempotence => DuplicateNeedsRaceOrRestart
  <2> SUFFICES ASSUME Checks, Idempotence, NEW e \in executions, NEW f \in executions,
                      HighRisk(e.request), HighRisk(f.request),
                      e.request.key = f.request.key, e # f
      PROVE e.request.key \in contended \union forgotten
    BY DEF DuplicateNeedsRaceOrRestart
  <2>1. e.request.key \in Keys
    BY DEF Checks, ExecutionsChecked, Keyed
  <2>2. e \in ExecutionsOf(e.request.key) /\ f \in ExecutionsOf(e.request.key)
    BY DEF ExecutionsOf
  <2>3. QED
    BY <2>1, <2>2 DEF Idempotence, ExecutedOnce, Clean
<1>2. QED
  BY <1>1, ChecksInvariant, IdempotenceInvariant, PTL

-----------------------------------------------------------------------------
(* Every answer about to be saved or returned, and every answer on record, *)
(* is the answer of an execution.                                          *)
PendingBacked ==
  \A c \in Calls :
    pc[c] \in {"save", "audit"} => Execution(c, result[c]) \in executions

RecordsBacked ==
  \A key \in Keys : records[key] # None =>
    \E e \in HighRiskExecutions :
      /\ e.request.key = key
      /\ e.request.fingerprint = records[key].fingerprint
      /\ e.response = records[key].response

Backed == PendingBacked /\ RecordsBacked

LEMMA ExecutionFields ==
  ASSUME NEW c, NEW response
  PROVE  /\ Execution(c, response).request = request[c]
         /\ Execution(c, response).response = response
BY DEF Execution

LEMMA BackedInvariant == Spec => []Backed
<1>1. Init => Backed
  BY DEF Init, Backed, PendingBacked, RecordsBacked
<1>2. TypeOK /\ Backed /\ [Next]_vars => Backed'
  <2> SUFFICES ASSUME TypeOK, Backed, [Next]_vars PROVE Backed'
    OBVIOUS
  <2> USE DEF TypeOK, locals, history, Goto, Return, Backed, PendingBacked, RecordsBacked,
              HighRiskExecutions, Execution
  <2>1. ASSUME NEW c \in Calls, Reject(c) PROVE Backed'
    BY <2>1 DEF Reject
  <2>2. ASSUME NEW c \in Calls, Admit(c) PROVE Backed'
    BY <2>2 DEF Admit
  <2>3. ASSUME NEW c \in Calls, LookupMiss(c) PROVE Backed'
    BY <2>3 DEF LookupMiss
  <2>4. ASSUME NEW c \in Calls, LookupNoKey(c) PROVE Backed'
    BY <2>4 DEF LookupNoKey
  <2>5. ASSUME NEW c \in Calls, LookupHit(c) PROVE Backed'
    BY <2>5 DEF LookupHit
  <2>6. ASSUME NEW c \in Calls, CallTool(c) PROVE Backed'
    BY <2>6 DEF CallTool
  <2>7. ASSUME NEW c \in Calls, Save(c) PROVE Backed'
    <3>1. /\ UNCHANGED <<request, result, executions>>
          /\ pc[c] = "save" /\ pc'[c] = "audit"
          /\ \A d \in Calls \ {c} : pc'[d] = pc[d]
      BY <2>7 DEF Save
    <3>2. PendingBacked'
      BY <3>1
    <3>3. \A key \in Keys :
            \/ records'[key] = records[key]
            \/ /\ HighRisk(request[c]) /\ request[c].key = key
               /\ records'[key] = [fingerprint |-> request[c].fingerprint,
                                   response |-> result[c]]
      BY <2>7 DEF Save
    <3>4. RecordsBacked'
      <4> SUFFICES ASSUME NEW key \in Keys, records'[key] # None
          PROVE \E e \in HighRiskExecutions :
                  /\ e.request.key = key
                  /\ e.request.fingerprint = records'[key].fingerprint
                  /\ e.response = records'[key].response
        BY <3>1
      <4>1. CASE records'[key] = records[key]
        BY <4>1
      <4>2. CASE /\ HighRisk(request[c]) /\ request[c].key = key
                 /\ records'[key] = [fingerprint |-> request[c].fingerprint,
                                     response |-> result[c]]
        <5>1. Execution(c, result[c]) \in HighRiskExecutions
          BY <3>1, <4>2, ExecutionFields
        <5>2. QED
          BY <4>2, <5>1, ExecutionFields
      <4>3. QED
        BY <3>3, <4>1, <4>2
    <3>5. QED
      BY <3>2, <3>4
  <2>8. ASSUME NEW c \in Calls, AuditAndReturn(c) PROVE Backed'
    BY <2>8 DEF AuditAndReturn
  <2>9. CASE Restart
    BY <2>9 DEF Restart
  <2>10. CASE UNCHANGED vars
    BY <2>10 DEF vars
  <2>11. QED
    BY <2>1, <2>2, <2>3, <2>4, <2>5, <2>6, <2>7, <2>8, <2>9, <2>10
       DEF Next, Serve, AllAnswered
<1>3. QED
  BY <1>1, <1>2, TypeCorrect, PTL DEF Spec

(* Why a call was told what it was told: a tool answered it, its request   *)
(* is one to refuse, or another request was executed under its key.        *)
Explained(c) ==
  \/ /\ reply[c] \in Responses
     /\ \E e \in executions :
          e.request.fingerprint = request[c].fingerprint /\ e.response = reply[c]
  \/ Rejection(request[c]) # "none" /\ reply[c] = Refusal(Rejection(request[c]))
  \/ /\ HighRisk(request[c]) /\ request[c].key = NoKey
     /\ reply[c] = Refusal("invalid_argument")
  \/ /\ HighRisk(request[c]) /\ reply[c] = Conflict
     /\ \E e \in HighRiskExecutions :
          /\ e.request.key = request[c].key
          /\ e.request.fingerprint # request[c].fingerprint

RepliesExplained ==
  \A c \in Calls : IF pc[c] = "done" THEN Explained(c) ELSE reply[c] = None

LEMMA RepliesExplainedInvariant == Spec => []RepliesExplained
<1>1. Init => RepliesExplained
  BY DEF Init, RepliesExplained
<1>2. TypeOK /\ Backed /\ RepliesExplained /\ [Next]_vars => RepliesExplained'
  <2> SUFFICES ASSUME TypeOK, Backed, RepliesExplained, [Next]_vars PROVE RepliesExplained'
    OBVIOUS
  <2>1. executions \subseteq executions'
    BY DEF Next, Serve, AllAnswered, vars, locals, history, Reject, Admit, LookupMiss, LookupNoKey,
           LookupHit, CallTool, Save, AuditAndReturn, Restart
  <2>2. ASSUME NEW d \in Calls, pc[d] = "done", UNCHANGED <<request[d], reply[d]>>
        PROVE  Explained(d)'
    BY <2>1, <2>2 DEF RepliesExplained, Explained, HighRiskExecutions
  <2>3. ASSUME NEW c \in Calls, pc[c] # "done", NEW answer,
               Return(c, answer), \A d \in Calls \ {c} : request'[d] = request[d], Explained(c)'
        PROVE  RepliesExplained'
    BY <2>2, <2>3 DEF TypeOK, Return, Goto, RepliesExplained
  <2>4. ASSUME UNCHANGED reply, \A d \in Calls : pc'[d] = "done" <=> pc[d] = "done",
               \A d \in Calls : pc[d] = "done" => request'[d] = request[d]
        PROVE  RepliesExplained'
    BY <2>2, <2>4 DEF RepliesExplained
  <2>5. ASSUME NEW c \in Calls, Reject(c) PROVE RepliesExplained'
    <3>1. PICK r \in Requests : /\ Rejection(r) # "none"
                                /\ request' = [request EXCEPT ![c] = r]
                                /\ Return(c, Refusal(Rejection(r)))
      BY <2>5 DEF Reject
    <3>2. pc[c] # "done" /\ request'[c] = r /\ reply'[c] = Refusal(Rejection(r))
      BY <2>5, <3>1 DEF TypeOK, Reject, Return
    <3>3. QED
      BY <2>3, <3>1, <3>2 DEF TypeOK, Explained
  <2>6. ASSUME NEW c \in Calls, Admit(c) PROVE RepliesExplained'
    BY <2>4, <2>6 DEF TypeOK, Admit, Goto
  <2>7. ASSUME NEW c \in Calls, LookupMiss(c) \/ CallTool(c) \/ Save(c) PROVE RepliesExplained'
    BY <2>4, <2>7 DEF TypeOK, LookupMiss, CallTool, Save, Goto, locals
  <2>8. ASSUME NEW c \in Calls, LookupNoKey(c) PROVE RepliesExplained'
    <3>1. pc[c] # "done" /\ UNCHANGED request /\ Return(c, Refusal("invalid_argument"))
      BY <2>8 DEF LookupNoKey
    <3>2. Explained(c)'
      BY <2>8, <3>1 DEF TypeOK, LookupNoKey, Return, Explained
    <3>3. QED
      BY <2>3, <3>1, <3>2
  <2>9. ASSUME NEW c \in Calls, LookupHit(c) PROVE RepliesExplained'
    <3> DEFINE record == records[request[c].key]
               answer == IF record.fingerprint = request[c].fingerprint
                         THEN record.response ELSE Conflict
    <3>1. /\ pc[c] # "done" /\ UNCHANGED <<request, executions>> /\ Return(c, answer)
          /\ HighRisk(request[c]) /\ request[c] \in Requests /\ request[c].key # NoKey
          /\ record # None
      BY <2>9 DEF TypeOK, LookupHit, history
    <3>2. request[c].key \in Keys /\ record \in Record
      BY <3>1 DEF TypeOK, RequestType
    <3>3. PICK e \in HighRiskExecutions :
            /\ e.request.key = request[c].key
            /\ e.request.fingerprint = record.fingerprint
            /\ e.response = record.response
      BY <3>1, <3>2 DEF Backed, RecordsBacked
    <3>4. reply'[c] = answer
      BY <3>1 DEF TypeOK, Return
    <3>5. CASE record.fingerprint = request[c].fingerprint
      <4>1. e \in executions' /\ reply'[c] = record.response /\ record.response \in Responses
        BY <3>1, <3>2, <3>3, <3>4, <3>5 DEF HighRiskExecutions, Record
      <4>2. Explained(c)'
        BY <3>1, <3>3, <3>5, <4>1 DEF Explained
      <4>3. QED
        BY <2>3, <3>1, <4>2
    <3>6. CASE record.fingerprint # request[c].fingerprint
      <4>1. Explained(c)'
        BY <3>1, <3>3, <3>4, <3>6 DEF Explained, HighRiskExecutions
      <4>2. QED
        BY <2>3, <3>1, <4>1
    <3>7. QED
      BY <3>5, <3>6
  <2>10. ASSUME NEW c \in Calls, AuditAndReturn(c) PROVE RepliesExplained'
    <3>1. /\ pc[c] = "audit" /\ UNCHANGED <<request, executions>>
          /\ Return(c, result[c]) /\ result[c] \in Responses
      BY <2>10 DEF TypeOK, AuditAndReturn, history
    <3>2. Execution(c, result[c]) \in executions
      BY <3>1 DEF Backed, PendingBacked
    <3>3. Explained(c)'
      BY <3>1, <3>2, ExecutionFields DEF TypeOK, Return, Explained
    <3>4. QED
      BY <2>3, <3>1, <3>3
  <2>11. CASE Restart
    BY <2>4, <2>11 DEF TypeOK, Restart, locals
  <2>12. CASE UNCHANGED vars
    BY <2>4, <2>12 DEF vars, locals
  <2>13. QED
    BY <2>5, <2>6, <2>7, <2>8, <2>9, <2>10, <2>11, <2>12 DEF Next, Serve, AllAnswered
<1>3. QED
  BY <1>1, <1>2, TypeCorrect, BackedInvariant, PTL DEF Spec

(* An answer, or an entry of the ledger, for a request.                    *)
Told(r, response) ==
  [key |-> r.key, fingerprint |-> r.fingerprint, response |-> response]

(* A call that returns adds its reply to the answers, if it counts as one. *)
LEMMA ReturnAnswers ==
  ASSUME TypeOK, NEW c \in Calls, NEW answer, pc[c] # "done", Return(c, answer),
         \A d \in Calls \ {c} : request'[d] = request[d]
  PROVE  \/ /\ HighRisk(request'[c]) /\ answer \in Responses \union {Conflict}
            /\ Answers' = Answers \union {Told(request'[c], answer)}
         \/ /\ ~(HighRisk(request'[c]) /\ answer \in Responses \union {Conflict})
            /\ Answers' = Answers
<1>1. /\ pc'[c] = "done" /\ reply'[c] = answer
      /\ \A d \in Calls \ {c} : pc'[d] = pc[d] /\ reply'[d] = reply[d]
  BY DEF TypeOK, Return, Goto
<1>2. c \notin Answered
  BY DEF Answered
<1>3. \A d \in Calls \ {c} : d \in Answered' <=> d \in Answered
  BY <1>1 DEF Answered
<1>4. CASE HighRisk(request'[c]) /\ answer \in Responses \union {Conflict}
  <2>1. Answered' = Answered \union {c}
    BY <1>1, <1>3, <1>4 DEF Answered
  <2>2. QED
    BY <1>1, <1>2, <1>4, <2>1 DEF Answers, Told, Answered
<1>5. CASE ~(HighRisk(request'[c]) /\ answer \in Responses \union {Conflict})
  <2>1. Answered' = Answered
    BY <1>1, <1>2, <1>3, <1>5 DEF Answered
  <2>2. QED
    BY <1>1, <1>2, <1>5, <2>1 DEF Answers, Answered
<1>6. QED
  BY <1>4, <1>5

(* A call that does not return leaves the answers alone.                   *)
LEMMA NoAnswer ==
  ASSUME \A d \in Calls : /\ pc'[d] = "done" <=> pc[d] = "done"
                          /\ pc[d] = "done" => request'[d] = request[d] /\ reply'[d] = reply[d]
  PROVE  Answers' = Answers
<1>1. Answered' = Answered
  BY DEF Answered
<1>2. \A d \in Answered : request'[d] = request[d] /\ reply'[d] = reply[d]
  BY DEF Answered
<1>3. QED
  BY <1>1, <1>2 DEF Answers

LEMMA LedgerStays ==
  ASSUME UNCHANGED executions PROVE Ledger' = Ledger
BY DEF Ledger, HighRiskExecutions

(* A refusal other than the conflict is not one of the promised answers.   *)
LEMMA OtherRefusals ==
  \A code : code # "idempotency_conflict" => Refusal(code) \notin Responses \union {Conflict}
BY DEF Refusal, Conflict, Responses

LEMMA ToldEntry ==
  \A r \in Requests, response \in Responses :
    r.key \in Keys => Told(r, response) \in Promise!Entry
BY DEF Told, RequestType, Promise!Entry

LEMMA HitKeeps ==
  ASSUME TypeOK, Backed, NEW c \in Calls, LookupHit(c)
  PROVE  [Promise!Next]_(Promise!vars)
<1> DEFINE r == request[c]
           record == records[r.key]
           answer == IF record.fingerprint = r.fingerprint THEN record.response ELSE Conflict
<1>1. /\ r \in Requests /\ HighRisk(r) /\ r.key \in Keys /\ r.fingerprint \in Fingerprints
      /\ record # None /\ record \in Record
  BY DEF TypeOK, LookupHit, RequestType
<1>2. Ledger' = Ledger /\ UNCHANGED <<contended, forgotten, request>>
  BY LedgerStays DEF LookupHit, history
<1>3. PICK e \in HighRiskExecutions :
        /\ e.request.key = r.key
        /\ e.request.fingerprint = record.fingerprint
        /\ e.response = record.response
  BY <1>1 DEF Backed, RecordsBacked
<1>4. Told(e.request, e.response) \in Ledger
  BY DEF Told, Ledger
<1>5. answer \in Responses \union {Conflict}
  BY <1>1 DEF Record
<1>6. Answers' = Answers \union {Told(r, answer)}
  BY <1>1, <1>2, <1>5, ReturnAnswers DEF LookupHit
<1>7. CASE record.fingerprint = r.fingerprint
  <2>1. Told(r, answer) = Told(e.request, e.response)
    BY <1>3, <1>7 DEF Told
  <2>2. Told(r, answer) \in Promise!Entry
    BY <1>1, <1>7, ToldEntry DEF Record
  <2>3. Promise!Answer(Told(r, answer))
    BY <1>2, <1>4, <1>6, <2>1 DEF Promise!Answer
  <2>4. QED
    BY <2>2, <2>3 DEF Promise!Next
<1>8. CASE record.fingerprint # r.fingerprint
  <2>1. Promise!Refuse(r.key, r.fingerprint)
    <3>1. \E entry \in Ledger : entry.key = r.key /\ entry.fingerprint # r.fingerprint
      BY <1>3, <1>4, <1>8 DEF Told
    <3>2. QED
      BY <1>2, <1>6, <1>8, <3>1 DEF Promise!Refuse, Told
  <2>2. QED
    BY <1>1, <2>1 DEF Promise!Next
<1>9. QED
  BY <1>7, <1>8

LEMMA ToolExecutes ==
  ASSUME TypeOK, Checks, Idempotence, NEW c \in Calls, CallTool(c)
  PROVE  [Promise!Next]_(Promise!vars)
<1>1. /\ pc[c] = "call" /\ request[c] \in Requests
      /\ UNCHANGED <<request, reply, contended, forgotten>>
  BY DEF TypeOK, CallTool
<1>2. Answers' = Answers
  BY NoAnswer DEF TypeOK, CallTool, Goto
<1>3. PICK response \in Responses : executions' = executions \union {Execution(c, response)}
  BY ResponseStatusType DEF CallTool, Responses
<1>4. CASE HighRisk(request[c])
  <2>1. Ledger' = Ledger \union {Told(request[c], response)}
    BY <1>3, <1>4, ExecutionFields DEF Ledger, HighRiskExecutions, Told
  <2>2. request[c].key \in Keys
    BY <1>1, <1>4 DEF Checks, ChecksPassed, Keyed
  <2>3. ASSUME request[c].key \notin contended \union forgotten, NEW old \in Ledger
        PROVE old.key # request[c].key
    <3>1. ExecutionsOf(request[c].key) = {}
      BY <1>1, <1>4, <2>2, <2>3
         DEF Idempotence, FirstToExecute, Clean, Executing
    <3>2. PICK e \in HighRiskExecutions : old.key = e.request.key
      BY DEF Ledger
    <3>3. QED
      BY <3>1, <3>2 DEF HighRiskExecutions, ExecutionsOf
  <2>4. Promise!Execute(Told(request[c], response))
    BY <1>1, <1>2, <2>1, <2>3 DEF Promise!Execute, Told
  <2>5. Told(request[c], response) \in Promise!Entry
    BY <1>1, <2>2, ToldEntry
  <2>6. QED
    BY <2>4, <2>5 DEF Promise!Next
<1>5. CASE ~HighRisk(request[c])
  <2>1. Ledger' = Ledger
    BY <1>3, <1>5, ExecutionFields DEF Ledger, HighRiskExecutions
  <2>2. QED
    BY <1>1, <1>2, <2>1 DEF Promise!vars
<1>6. QED
  BY <1>4, <1>5

LEMMA ReturnAnswersExecution ==
  ASSUME TypeOK, Checks, Backed, NEW c \in Calls, AuditAndReturn(c)
  PROVE  [Promise!Next]_(Promise!vars)
<1>1. /\ pc[c] = "audit" /\ request[c] \in Requests /\ result[c] \in Responses
      /\ UNCHANGED <<request, contended, forgotten>> /\ Ledger' = Ledger
  BY LedgerStays DEF TypeOK, AuditAndReturn, history
<1>2. \/ HighRisk(request[c]) /\ Answers' = Answers \union {Told(request[c], result[c])}
      \/ Answers' = Answers
  BY <1>1, ReturnAnswers DEF AuditAndReturn
<1>3. CASE HighRisk(request[c]) /\ Answers' = Answers \union {Told(request[c], result[c])}
  <2>1. PICK e \in HighRiskExecutions : e.request = request[c] /\ e.response = result[c]
    BY <1>1, <1>3, ExecutionFields DEF Backed, PendingBacked, HighRiskExecutions
  <2>2. Told(request[c], result[c]) \in Ledger
    BY <2>1 DEF Ledger, Told
  <2>3. Told(request[c], result[c]) \in Promise!Entry
    BY <1>1, <1>3, ToldEntry DEF Checks, ChecksPassed, Keyed
  <2>4. QED
    BY <1>1, <1>3, <2>2, <2>3 DEF Promise!Next, Promise!Answer
<1>4. CASE Answers' = Answers
  BY <1>1, <1>4 DEF Promise!vars
<1>5. QED
  BY <1>2, <1>3, <1>4

(* A step that only taints keys.                                           *)
LEMMA Taints ==
  ASSUME Ledger' = Ledger, Answers' = Answers, NEW more \in SUBSET Keys,
         (contended \union forgotten)' = (contended \union forgotten) \union more
  PROVE  [Promise!Next]_(Promise!vars)
BY DEF Promise!Next, Promise!Taint

(* The service keeps the promise of IdempotentExecution: every step of it  *)
(* is a step of the promise, or changes nothing it speaks of               *)
(* (KeepsPromise).                                                         *)
THEOREM PromiseIsKept == Spec => KeepsPromise
<1>1. Init => Promise!Init
  BY DEF Init, Promise!Init, Ledger, HighRiskExecutions, Answers, Answered
<1>2. TypeOK /\ Checks /\ Idempotence /\ Backed /\ [Next]_vars => [Promise!Next]_(Promise!vars)
  <2> SUFFICES ASSUME TypeOK, Checks, Idempotence, Backed, [Next]_vars
      PROVE [Promise!Next]_(Promise!vars)
    OBVIOUS
  <2>1. ASSUME NEW c \in Calls, Reject(c) PROVE [Promise!Next]_(Promise!vars)
    <3>1. PICK r \in Requests : Return(c, Refusal(Rejection(r)))
      BY <2>1 DEF Reject
    <3>2. Refusal(Rejection(r)) \notin Responses \union {Conflict}
      BY RejectionType, OtherRefusals
    <3>3. pc[c] # "done" /\ \A d \in Calls \ {c} : request'[d] = request[d]
      BY <2>1 DEF TypeOK, Reject
    <3>4. Answers' = Answers
      BY <3>1, <3>2, <3>3, ReturnAnswers
    <3>5. QED
      BY <2>1, <3>4, LedgerStays DEF Reject, history, Promise!vars
  <2>2. ASSUME NEW c \in Calls, Admit(c) PROVE [Promise!Next]_(Promise!vars)
    <3>1. Answers' = Answers
      BY <2>2, NoAnswer DEF TypeOK, Admit, Goto
    <3>2. QED
      BY <2>2, <3>1, LedgerStays DEF Admit, history, Promise!vars
  <2>3. ASSUME NEW c \in Calls, LookupMiss(c) PROVE [Promise!Next]_(Promise!vars)
    <3>1. Answers' = Answers
      BY <2>3, NoAnswer DEF TypeOK, LookupMiss, Goto, locals
    <3>2. PICK more \in SUBSET Keys : contended' = contended \union more
      BY <2>3 DEF LookupMiss
    <3>3. UNCHANGED <<executions, forgotten>>
      BY <2>3 DEF LookupMiss
    <3>4. QED
      BY <3>1, <3>2, <3>3, LedgerStays, Taints
  <2>4. ASSUME NEW c \in Calls, LookupNoKey(c) PROVE [Promise!Next]_(Promise!vars)
    <3>1. pc[c] # "done" /\ Return(c, Refusal("invalid_argument")) /\ UNCHANGED request
      BY <2>4 DEF LookupNoKey
    <3>2. Answers' = Answers
      BY <3>1, OtherRefusals, ReturnAnswers
    <3>3. QED
      BY <2>4, <3>2, LedgerStays DEF LookupNoKey, history, Promise!vars
  <2>5. ASSUME NEW c \in Calls, Save(c) PROVE [Promise!Next]_(Promise!vars)
    <3>1. Answers' = Answers
      BY <2>5, NoAnswer DEF TypeOK, Save, Goto, locals
    <3>2. QED
      BY <2>5, <3>1, LedgerStays DEF Save, history, Promise!vars
  <2>6. CASE Restart
    <3>1. Answers' = Answers
      BY <2>6, NoAnswer DEF TypeOK, Restart, locals
    <3>2. {e.request.key : e \in {x \in executions : HighRisk(x.request)}} \in SUBSET Keys
      BY DEF Checks, ExecutionsChecked, Keyed
    <3>3. QED
      BY <2>6, <3>1, <3>2, LedgerStays, Taints DEF Restart
  <2>7. CASE UNCHANGED vars
    BY <2>7, NoAnswer, LedgerStays DEF vars, locals, history, Promise!vars
  <2>8. QED
    BY <2>1, <2>2, <2>3, <2>4, <2>5, <2>6, <2>7, HitKeeps, ToolExecutes,
       ReturnAnswersExecution DEF Next, Serve, AllAnswered
<1>3. QED
  BY <1>1, <1>2, TypeCorrect, ChecksInvariant, IdempotenceInvariant, BackedInvariant, PTL
     DEF Spec, KeepsPromise, Promise!Spec

-----------------------------------------------------------------------------
(* The way of an execution after its tool was called: its call holds the   *)
(* response until it has audited and returned it, or is lost in a restart. *)
OnItsWay ==
  \A e \in executions :
    /\ pc[e.call] \in {"save", "audit", "done", "lost"}
    /\ pc[e.call] \in {"save", "audit"} => result[e.call] = e.response
    /\ pc[e.call] = "done" =>
         /\ reply[e.call] = e.response
         /\ [call |-> e.call, status |-> e.response.status] \in audits

LEMMA OnItsWayInvariant == Spec => []OnItsWay
<1>1. Init => OnItsWay
  BY DEF Init, OnItsWay
<1>2. TypeOK /\ OnItsWay /\ [Next]_vars => OnItsWay'
  <2> SUFFICES ASSUME TypeOK, OnItsWay, [Next]_vars PROVE OnItsWay'
    OBVIOUS
  <2>0. \A e \in executions : e.call \in Calls
    BY DEF TypeOK, Executions
  <2> USE DEF TypeOK, locals, history, Goto, Return, OnItsWay
  <2>1. ASSUME NEW c \in Calls, Reject(c) PROVE OnItsWay'
    BY <2>0, <2>1 DEF Reject
  <2>2. ASSUME NEW c \in Calls, Admit(c) PROVE OnItsWay'
    BY <2>0, <2>2 DEF Admit
  <2>3. ASSUME NEW c \in Calls, LookupMiss(c) PROVE OnItsWay'
    BY <2>0, <2>3 DEF LookupMiss
  <2>4. ASSUME NEW c \in Calls, LookupNoKey(c) PROVE OnItsWay'
    BY <2>0, <2>4 DEF LookupNoKey
  <2>5. ASSUME NEW c \in Calls, LookupHit(c) PROVE OnItsWay'
    BY <2>0, <2>5 DEF LookupHit
  <2>6. ASSUME NEW c \in Calls, CallTool(c) PROVE OnItsWay'
    <3>1. PICK response : /\ result' = [result EXCEPT ![c] = response]
                          /\ executions' = executions \union {Execution(c, response)}
      BY <2>6 DEF CallTool
    <3>2. /\ pc[c] = "call" /\ pc' = [pc EXCEPT ![c] = "save"]
          /\ UNCHANGED <<audits, reply>>
      BY <2>6 DEF CallTool
    <3>3. Execution(c, response).call = c /\ Execution(c, response).response = response
      BY DEF Execution
    <3>4. \A e \in executions : e.call # c
      BY <3>2
    <3>5. QED
      BY <2>0, <3>1, <3>2, <3>3, <3>4
  <2>7. ASSUME NEW c \in Calls, Save(c) PROVE OnItsWay'
    BY <2>0, <2>7 DEF Save
  <2>8. ASSUME NEW c \in Calls, AuditAndReturn(c) PROVE OnItsWay'
    BY <2>0, <2>8 DEF AuditAndReturn
  <2>9. CASE Restart
    BY <2>0, <2>9 DEF Restart
  <2>10. CASE UNCHANGED vars
    BY <2>10 DEF vars
  <2>11. QED
    BY <2>1, <2>2, <2>3, <2>4, <2>5, <2>6, <2>7, <2>8, <2>9, <2>10
       DEF Next, Serve, AllAnswered
<1>3. QED
  BY <1>1, <1>2, TypeCorrect, PTL DEF Spec

(* An execution whose caller has its answer was audited with the status    *)
(* the caller saw (AnsweredExecutionAudited).                              *)
THEOREM AnsweredExecutionsAreAudited == Spec => []AnsweredExecutionAudited
<1>1. OnItsWay => AnsweredExecutionAudited
  BY DEF OnItsWay, AnsweredExecutionAudited
<1>2. QED
  BY <1>1, OnItsWayInvariant, PTL

-----------------------------------------------------------------------------
(* A key that two calls never held at the same time has no record yet      *)
(* while a call executes under it, whether or not a restart made the       *)
(* service forget earlier ones.                                            *)
HeldAlone ==
  \A key \in Keys \ contended :
    /\ \A c, d \in Calls : Executing(c, key) /\ Executing(d, key) => c = d
    /\ \A c \in Calls : Executing(c, key) => records[key] = None

LEMMA HeldAloneInvariant == Spec => []HeldAlone
<1>1. Init => HeldAlone
  BY DEF Init, HeldAlone, Executing
<1>2. TypeOK /\ HeldAlone /\ [Next]_vars => HeldAlone'
  <2> SUFFICES ASSUME TypeOK, HeldAlone, [Next]_vars PROVE HeldAlone'
    OBVIOUS
  <2>1. ASSUME Aside PROVE HeldAlone'
    BY <2>1 DEF Aside, HeldAlone, Executing
  <2>2. ASSUME NEW c \in Calls, Reject(c) PROVE Aside
    BY <2>2 DEF TypeOK, Reject, Return, Goto, history, Aside
  <2>3. ASSUME NEW c \in Calls, Admit(c) PROVE Aside
    BY <2>3 DEF TypeOK, Admit, Goto, history, Aside
  <2>4. ASSUME NEW c \in Calls, LookupMiss(c) PROVE HeldAlone'
    <3>1. /\ pc[c] = "lookup" /\ pc'[c] = "call"
          /\ \A d \in Calls \ {c} : pc'[d] = pc[d]
          /\ UNCHANGED <<records, request>> /\ contended \subseteq contended'
      BY <2>4 DEF TypeOK, LookupMiss, Goto, locals
    <3>2. \A key \in Keys, d \in Calls \ {c} : Executing(d, key)' <=> Executing(d, key)
      BY <3>1 DEF Executing
    <3>3. ASSUME NEW key \in Keys \ contended', Executing(c, key)'
          PROVE  records[key] = None /\ \A d \in Calls \ {c} : ~Executing(d, key)
      BY <2>4, <3>1, <3>3 DEF LookupMiss, Executing
    <3>4. QED
      BY <3>1, <3>2, <3>3 DEF HeldAlone
  <2>5. ASSUME NEW c \in Calls, LookupNoKey(c) PROVE Aside
    BY <2>5 DEF TypeOK, LookupNoKey, Return, Goto, history, Aside
  <2>6. ASSUME NEW c \in Calls, LookupHit(c) PROVE Aside
    BY <2>6 DEF TypeOK, LookupHit, Return, Goto, history, Aside
  <2>7. ASSUME NEW c \in Calls, CallTool(c) PROVE HeldAlone'
    <3>1. /\ \A d \in Calls, key \in Keys : Executing(d, key)' <=> Executing(d, key)
          /\ UNCHANGED <<records, contended>>
      BY <2>7 DEF TypeOK, CallTool, Goto, Executing
    <3>2. QED
      BY <3>1 DEF HeldAlone
  <2>8. ASSUME NEW c \in Calls, Save(c) PROVE HeldAlone'
    <3>1. /\ \A key \in Keys : records'[key] # records[key] => Executing(c, key)
          /\ \A key \in Keys : ~Executing(c, key)'
          /\ \A d \in Calls \ {c}, key \in Keys : Executing(d, key)' <=> Executing(d, key)
          /\ UNCHANGED contended
      BY <2>8 DEF TypeOK, Save, Goto, Executing, locals, history
    <3>2. QED
      BY <3>1 DEF HeldAlone
  <2>9. ASSUME NEW c \in Calls, AuditAndReturn(c) PROVE Aside
    BY <2>9 DEF TypeOK, AuditAndReturn, Return, Goto, history, Aside
  <2>10. ASSUME Restart PROVE HeldAlone'
    BY <2>10 DEF TypeOK, Restart, HeldAlone, Executing
  <2>11. ASSUME UNCHANGED vars PROVE Aside
    BY <2>11 DEF vars, locals, history, Aside
  <2>12. QED
    BY <2>1, <2>2, <2>3, <2>4, <2>5, <2>6, <2>7, <2>8, <2>9, <2>10, <2>11
       DEF Next, Serve, AllAnswered
<1>3. QED
  BY <1>1, <1>2, TypeCorrect, PTL DEF Spec

(* Only a save replaces the record of a key while the process runs.        *)
LEMMA OnlySavesReplace ==
  ASSUME TypeOK, [Next]_vars, NEW key \in Keys,
         restarts' = restarts, records'[key] # records[key]
  PROVE  \E c \in Calls : Executing(c, key)
<1>1. \/ \E c \in Calls : Save(c)
      \/ Restart
      \/ UNCHANGED records
  BY DEF Next, Serve, AllAnswered, vars, Reject, Admit, LookupMiss, LookupNoKey, LookupHit,
         CallTool, AuditAndReturn
<1>2. ~Restart
  BY DEF TypeOK, Restart
<1>3. PICK c \in Calls : Save(c)
  BY <1>1, <1>2
<1>4. Executing(c, key)
  BY <1>3 DEF TypeOK, Save, Executing
<1>5. QED
  BY <1>4

(* While the process runs, the record of a key that was never held by two  *)
(* calls at once is written once and never replaced (RecordStable).        *)
THEOREM RecordsAreStable == Spec => RecordStable
<1> DEFINE Stable == \A k \in Keys \ contended :
             records[k] # None /\ restarts' = restarts => records'[k] = records[k]
<1>1. TypeOK /\ HeldAlone /\ [Next]_vars => Stable
  BY OnlySavesReplace DEF HeldAlone
<1>2. QED
  BY <1>1, TypeCorrect, HeldAloneInvariant, PTL DEF Spec, RecordStable

=============================================================================
