----------------------------- MODULE A2AService -----------------------------
(***************************************************************************)
(* The receiving side of agent-to-agent execution:                         *)
(* A2ACollaborationService.execute, reached by POST /a2a/execute, a        *)
(* synchronous FastAPI handler.  Every call runs in a thread of its own;   *)
(* all threads share the dictionary of idempotency records, which is plain *)
(* process memory.  An action is the code between two accesses to that     *)
(* dictionary or two calls that leave the service.                         *)
(***************************************************************************)
EXTENDS Naturals

CONSTANTS
  Calls,          \* the calls peers make, retries included, a thread each
  Requests,       \* the payloads they carry
  Keys,           \* idempotency keys
  NoKey,          \* the empty key
  Fingerprints,   \* what _build_request_fingerprint tells apart
  HighRiskTools,  \* high_risk_guard.HIGH_RISK_TOOLS
  Operations,     \* _supported_operations
  MaxHops,        \* settings.a2a_max_hops
  A2AEnabled,     \* settings.a2a_enabled
  MaxRestarts,    \* bound: how often the process is restarted
  None            \* no record, no answer yet

(* Whom a request is addressed to.  A target_agent_id that is no text and  *)
(* false (0, false, []) is present to the input guard, and A2AExecution-   *)
(* Request reads it as the empty text: it names nobody.                    *)
Targets == {"self", "other", "blank"}

(* A payload, as far as the service looks at it.                           *)
RequestType ==
  [complete    : BOOLEAN,        \* find_missing_a2a_request_fields is empty
   wellFormed  : BOOLEAN,        \* int(hop_count) does not raise
   hopCount    : Nat,
   visitsSelf  : BOOLEAN,        \* this agent is in visited_agents
   target      : Targets,        \* whom target_agent_id names
   trusted     : BOOLEAN,        \* verify_incoming_peer accepts the source
   operation   : STRING,         \* the name without surrounding blanks
   padded      : BOOLEAN,        \* whether blanks surround it in the payload
   key         : Keys \union {NoKey},
   fingerprint : Fingerprints]

Statuses  == {"success", "partial_success", "error"}
Responses == [by : Calls, status : Statuses]    \* by: the call that executed
Record    == [fingerprint : Fingerprints, response : Responses]
Codes     == {"a2a_disabled", "missing_input", "internal_error", "invalid_argument",
              "loop_detected", "peer_untrusted", "unsupported_operation",
              "idempotency_conflict"}
Refusals  == [refused : Codes]

Refusal(code) == [refused |-> code]
Conflict      == Refusal("idempotency_conflict")

ASSUME A2AAssumption ==
  /\ Requests \subseteq RequestType
  /\ NoKey \notin Keys
  /\ MaxHops \in Nat
  /\ A2AEnabled \in BOOLEAN
  /\ MaxRestarts \in Nat
  /\ None \notin Record \union Responses \union Refusals \union Requests

VARIABLES
  records,    \* _idempotency_records
  audits,     \* what the audit logger wrote; it outlives the process
  pc,         \* where in execute() each call is
  request,    \* its payload
  result,     \* what the tool answered, as the response made of it
  reply,      \* what the caller was told
  restarts,   \* how often the process was restarted
  (************************ history, read by no guard **********************)
  executions, \* the tool calls so far
  contended,  \* keys two calls were executing at the same time
  forgotten   \* keys executed before a restart

locals  == <<request, result, reply>>
history == <<executions, contended, forgotten>>
vars    == <<records, audits, pc, locals, restarts, history>>

Locations == {"sent", "lookup", "call", "save", "audit", "done", "lost"}

HighRisk(r) == r.operation \in HighRiskTools

(* The input guard compares the operation as it was sent, so blanks around *)
(* a high-risk operation hide it from the guard's key check; ...           *)
KeyMissed(r) == HighRisk(r) /\ ~r.padded /\ r.key = NoKey

(* What validate_a2a_request finds and _build_validation_error makes of it. *)
Violation(r) ==
  IF ~r.complete               THEN "missing_input"
  ELSE IF ~r.wellFormed        THEN "internal_error"
  ELSE IF r.hopCount > MaxHops THEN "invalid_argument"
  ELSE IF r.visitsSelf         THEN "loop_detected"
  ELSE IF KeyMissed(r)         THEN "missing_input"
  ELSE "none"

(* The order in which execute() refuses a payload; "none" admits it.  Its  *)
(* own look at hops and visited agents finds nothing the guard left.       *)
RejectionUnverified(r) ==
  IF ~A2AEnabled                        THEN "a2a_disabled"
  ELSE IF Violation(r) # "none"         THEN Violation(r)
  ELSE IF r.target = "other"            THEN "invalid_argument"
  ELSE IF r.operation \notin Operations THEN "unsupported_operation"
  ELSE "none"

Rejection(r) ==
  IF ~A2AEnabled                        THEN "a2a_disabled"
  ELSE IF Violation(r) # "none"         THEN Violation(r)
  ELSE IF r.target = "other"            THEN "invalid_argument"
  ELSE IF ~r.trusted                    THEN "peer_untrusted"
  ELSE IF r.operation \notin Operations THEN "unsupported_operation"
  ELSE IF r.hopCount > MaxHops          THEN "invalid_argument"
  ELSE IF r.visitsSelf                  THEN "loop_detected"
  ELSE "none"

(* _response_from_skill_result: the status of a tool's answer as the       *)
(* status of a response; a peer's partial success becomes an error.        *)
ToolStatuses == {"success", "partial_success", "needs_confirmation", "error"}

ResponseStatusVerbatim(status) == status

ResponseStatus(status) ==
  CASE status = "success"            -> "success"
    [] status = "needs_confirmation" -> "partial_success"
    [] OTHER                         -> "error"

(* A call that found no record for its key and has not saved one yet.      *)
Executing(c, key) ==
  pc[c] \in {"call", "save"} /\ HighRisk(request[c]) /\ request[c].key = key

Execution(c, response) ==
  [call |-> c, request |-> request[c], response |-> response]

Executions == [call : Calls, request : Requests, response : Responses]

-----------------------------------------------------------------------------
Init ==
  /\ records = [k \in Keys |-> None]
  /\ audits = {}
  /\ pc = [c \in Calls |-> "sent"]
  /\ request = [c \in Calls |-> None]
  /\ result = [c \in Calls |-> None]
  /\ reply = [c \in Calls |-> None]
  /\ restarts = 0
  /\ executions = {}
  /\ contended = {}
  /\ forgotten = {}

Goto(c, place) == pc' = [pc EXCEPT ![c] = place]

Return(c, answer) ==
  /\ reply' = [reply EXCEPT ![c] = answer]
  /\ Goto(c, "done")

-----------------------------------------------------------------------------
Reject(c) ==
  /\ pc[c] = "sent"
  /\ \E r \in Requests :
       /\ Rejection(r) # "none"
       /\ request' = [request EXCEPT ![c] = r]
       /\ Return(c, Refusal(Rejection(r)))
  /\ UNCHANGED <<records, audits, result, restarts, history>>

Admit(c) ==
  /\ pc[c] = "sent"
  /\ \E r \in Requests :
       /\ Rejection(r) = "none"
       /\ request' = [request EXCEPT ![c] = r]
  /\ Goto(c, "lookup")
  /\ UNCHANGED <<records, audits, result, reply, restarts, history>>

(* _handle_idempotency_replay_if_needed: nothing is known under the key    *)
(* (or the operation needs none), so the tool will be called.              *)
Replayable == [fingerprint : Fingerprints, response : {r \in Responses : r.status # "error"}]

LookupMissAfterError(c) ==
  /\ pc[c] = "lookup"
  /\ HighRisk(request[c]) =>
       request[c].key # NoKey /\ records[request[c].key] \notin Replayable
  /\ Goto(c, "call")
  /\ contended' = contended \union
       {k \in Keys : /\ HighRisk(request[c]) /\ request[c].key = k
                     /\ \E d \in Calls \ {c} : Executing(d, k)}
  /\ UNCHANGED <<records, audits, locals, restarts, executions, forgotten>>

LookupMiss(c) ==
  /\ pc[c] = "lookup"
  /\ HighRisk(request[c]) =>
       request[c].key # NoKey /\ records[request[c].key] = None
  /\ Goto(c, "call")
  /\ contended' = contended \union
       {k \in Keys : /\ HighRisk(request[c]) /\ request[c].key = k
                     /\ \E d \in Calls \ {c} : Executing(d, k)}
  /\ UNCHANGED <<records, audits, locals, restarts, executions, forgotten>>

(* ... the service compares it without the blanks and checks again.        *)
LookupNoKey(c) ==
  /\ pc[c] = "lookup"
  /\ HighRisk(request[c])
  /\ request[c].key = NoKey
  /\ Return(c, Refusal("invalid_argument"))
  /\ UNCHANGED <<records, audits, request, result, restarts, history>>

LookupHitAnyRequest(c) ==
  /\ pc[c] = "lookup"
  /\ HighRisk(request[c])
  /\ request[c].key # NoKey
  /\ records[request[c].key] # None
  /\ Return(c, records[request[c].key].response)
  /\ UNCHANGED <<records, audits, request, result, restarts, history>>

LookupHitConflicts(c) ==
  /\ pc[c] = "lookup"
  /\ HighRisk(request[c])
  /\ request[c].key # NoKey
  /\ records[request[c].key] # None
  /\ Return(c, Conflict)
  /\ UNCHANGED <<records, audits, request, result, restarts, history>>

LookupHit(c) ==
  /\ pc[c] = "lookup"
  /\ HighRisk(request[c])
  /\ request[c].key # NoKey
  /\ records[request[c].key] # None
  /\ LET record == records[request[c].key]
     IN  Return(c, IF record.fingerprint = request[c].fingerprint
                     THEN record.response ELSE Conflict)
  /\ UNCHANGED <<records, audits, request, result, restarts, history>>

(* skill_executor.execute never raises: the tool's failure is its answer.  *)
CallTool(c) ==
  /\ pc[c] = "call"
  /\ \E status \in ToolStatuses :
       LET response == [by |-> c, status |-> ResponseStatus(status)]
       IN  /\ result' = [result EXCEPT ![c] = response]
           /\ executions' = executions \union {Execution(c, response)}
  /\ Goto(c, "save")
  /\ UNCHANGED <<records, audits, request, reply, restarts, contended, forgotten>>

(* _save_idempotency_record_if_needed: every answer is saved, errors too,  *)
(* over whatever is there.                                                 *)
SaveSkipped(c) ==
  /\ pc[c] = "save"
  /\ Goto(c, "audit")
  /\ UNCHANGED <<records, audits, locals, restarts, history>>

Save(c) ==
  /\ pc[c] = "save"
  /\ records' = IF HighRisk(request[c])
                  THEN [records EXCEPT ![request[c].key] =
                          [fingerprint |-> request[c].fingerprint,
                           response    |-> result[c]]]
                  ELSE records
  /\ Goto(c, "audit")
  /\ UNCHANGED <<audits, locals, restarts, history>>

AuditSuccessAndReturn(c) ==
  /\ pc[c] = "audit"
  /\ audits' = audits \union {[call |-> c, status |-> "success"]}
  /\ Return(c, result[c])
  /\ UNCHANGED <<records, request, result, restarts, history>>

AuditAndReturn(c) ==
  /\ pc[c] = "audit"
  /\ audits' = audits \union {[call |-> c, status |-> result[c].status]}
  /\ Return(c, result[c])
  /\ UNCHANGED <<records, request, result, restarts, history>>

(* The process stops and starts again: its memory is gone, calls under way *)
(* are never answered.                                                     *)
Restart ==
  /\ restarts < MaxRestarts
  /\ restarts' = restarts + 1
  /\ records' = [k \in Keys |-> None]
  /\ pc' = [c \in Calls |-> IF pc[c] \in {"sent", "done"} THEN pc[c] ELSE "lost"]
  /\ forgotten' = forgotten \union {e.request.key : e \in {x \in executions : HighRisk(x.request)}}
  /\ UNCHANGED <<audits, locals, executions, contended>>

AllAnswered ==
  /\ \A c \in Calls : pc[c] \in {"done", "lost"}
  /\ UNCHANGED vars

Serve(c) ==
  \/ LookupMiss(c)
  \/ LookupNoKey(c)
  \/ LookupHit(c)
  \/ CallTool(c)
  \/ Save(c)
  \/ AuditAndReturn(c)

Next ==
  \/ \E c \in Calls : Reject(c) \/ Admit(c) \/ Serve(c)
  \/ Restart
  \/ AllAnswered

Spec == Init /\ [][Next]_vars

-----------------------------------------------------------------------------
(* The values the variables range over; an admitted call has a request,    *)
(* and one that has called its tool an answer to save and to audit.        *)
TypeOK ==
  /\ records \in [Keys -> Record \union {None}]
  /\ audits \subseteq [call : Calls, status : Statuses]
  /\ pc \in [Calls -> Locations]
  /\ request \in [Calls -> Requests \union {None}]
  /\ result \in [Calls -> Responses \union {None}]
  /\ \A c \in Calls :
       /\ pc[c] \in {"lookup", "call", "save", "audit"} => request[c] \in Requests
       /\ pc[c] \in {"save", "audit"} => result[c] \in Responses
  /\ reply \in [Calls -> Responses \union Refusals \union {None}]
  /\ restarts \in 0..MaxRestarts
  /\ executions \subseteq Executions
  /\ contended \subseteq Keys
  /\ forgotten \subseteq Keys \union {NoKey}

(* A key is executed twice only if two calls held it at the same time, or  *)
(* the process was restarted after the first: retries and duplicates that  *)
(* come one after the other never execute again, whatever the first one    *)
(* answered (a2a_collaboration_service.py:182-202, 474-526).               *)
DuplicateNeedsRaceOrRestart ==
  \A e, f \in executions :
    /\ HighRisk(e.request) /\ HighRisk(f.request)
    /\ e.request.key = f.request.key
    /\ e # f
    => e.request.key \in contended \union forgotten

(* Nothing runs a tool but a complete request of a trusted peer, addressed *)
(* to no other agent (a blank target is addressed to none), within the hop *)
(* limit, that has not been here before; and a high-risk tool runs only    *)
(* under a key, however the operation was spelled                          *)
(* (a2a_collaboration_service.py:131-183, input_guard.py:184-211).         *)
GuardedExecution ==
  \A e \in executions :
    /\ A2AEnabled /\ e.request.complete /\ e.request.wellFormed
    /\ e.request.trusted /\ e.request.target # "other"
    /\ e.request.hopCount <= MaxHops /\ ~e.request.visitsSelf
    /\ e.request.operation \in Operations
    /\ HighRisk(e.request) => e.request.key \in Keys

(* An execution whose caller has its answer was audited with the status    *)
(* the caller saw; only a restart between the two loses an audit record    *)
(* (a2a_collaboration_service.py:199-203).                                 *)
AnsweredExecutionAudited ==
  \A e \in executions :
    pc[e.call] = "done" =>
      /\ reply[e.call] = e.response
      /\ [call |-> e.call, status |-> e.response.status] \in audits

(* While the process runs, the record of a key that was never executed by  *)
(* two calls at once is written once and never replaced.                   *)
RecordStable ==
  [][\A k \in Keys \ contended :
       records[k] # None /\ restarts' = restarts => records'[k] = records[k]]_vars

(* What callers may rely on, as IdempotentExecution states it: the calls   *)
(* of high-risk tools are its executions, the replies under a key its      *)
(* answers.                                                                *)
HighRiskExecutions == {e \in executions : HighRisk(e.request)}

Ledger ==
  {[key |-> e.request.key, fingerprint |-> e.request.fingerprint,
    response |-> e.response] : e \in HighRiskExecutions}

Answered ==
  {c \in Calls : /\ pc[c] = "done" /\ HighRisk(request[c])
                 /\ reply[c] \in Responses \union {Conflict}}

Answers ==
  {[key |-> request[c].key, fingerprint |-> request[c].fingerprint,
    response |-> reply[c]] : c \in Answered}

Promise == INSTANCE IdempotentExecution WITH
  ledger <- Ledger, answers <- Answers, tainted <- contended \union forgotten

(* Every answer under a key is the answer of an execution of that very     *)
(* request, or the refusal of a request that differs from the one executed *)
(* under the key; an untainted key has one execution                       *)
(* (a2a_collaboration_service.py:474-526).                                 *)
KeepsPromise == Promise!Spec

=============================================================================
