---------------------------- MODULE Orchestrator ----------------------------
(***************************************************************************)
(* Conversation turns of application/orchestrator.py.                      *)
(*                                                                         *)
(* POST /chat is a synchronous FastAPI handler, so each turn runs          *)
(* Orchestrator.handle_user_input in a thread of the server's pool, and    *)
(* all threads share one Orchestrator: one RetryController (attemptCount), *)
(* one SnapshotStore (metrics), one AuditLogger (audits).  Everything else *)
(* is local to the turn.  An action is the code between two accesses to    *)
(* shared state or two calls that leave the process (planner, tool,        *)
(* validator, telemetry).                                                  *)
(***************************************************************************)
EXTENDS RetryController, Sequences, FiniteSets

CONSTANTS
  Turns,              \* the turns the server is asked to answer, a thread each
  Tools,              \* names in skill_executor.handlers
  HighRiskTools,      \* high_risk_guard.HIGH_RISK_TOOLS
  DeferMissingCheck,  \* input_guard.DEFER_MISSING_CHECK_TO_TOOL
  DelegatingTools,    \* the tools whose answer can be a partial success
  StepPlans           \* the sequences of steps the planner can produce

Steps == [tool : Tools, complete : BOOLEAN]

ASSUME ToolsAssumption ==
  /\ HighRiskTools \subseteq Tools
  /\ DeferMissingCheck \subseteq Tools
  /\ DelegatingTools \subseteq Tools
  /\ StepPlans \subseteq Seq(Steps) \ {<<>>}

VARIABLES
  (*************************** shared objects ******************************)
  attemptCount,   \* retry_controller.attempt_count
  metrics,        \* snapshot_store._metrics, one record per delivered turn
  audits,         \* what the audit logger wrote
  (************************ locals of each turn ****************************)
  pc,             \* where in handle_user_input the turn is
  request,        \* plan.request_type
  steps,          \* plan.ordered_steps()
  results,        \* statuses of the results of the current attempt
  verdict,        \* validation.status
  reply,          \* response.status and the branch that built it
  score,          \* score.retry_count
  (************************ history, read by no guard **********************)
  plans,          \* how often the running turn called create_plan()
  registered,     \* how often it called register()
  resets,         \* resets by other turns while this one was active
  others,         \* register() calls of other turns while this one was active
  writers         \* the turns that changed the directory with a high-risk operation

shared  == <<attemptCount, metrics, audits>>
locals  == <<pc, request, steps, results, verdict, reply, score>>
history == <<plans, registered, resets, others, writers>>
vars    == <<shared, locals, history>>

RequestTypes == {"single_tool_passthrough", "permission_investigation",
                 "access_denial_troubleshooting"}
Statuses     == {"success", "partial_success", "needs_confirmation", "error"}
Branches     == {"preflight", "workflow", "missing_input", "confirmation",
                 "respond", "abort", "fallback"}
Locations    == {"idle", "preflight", "planning", "workflow", "loop", "replanning",
                 "step", "validate", "register", "finalize", "deliver", "done"}

Reply   == [status : Statuses, branch : Branches]
NoReply == [status |-> "none", branch |-> "none"]

Active(t) == pc[t] \notin {"idle", "done"}

(* What a handler may answer: only a delegation passes on a peer's partial *)
(* success.                                                                *)
ToolOutcomes(tool) ==
  IF tool \in DelegatingTools THEN Statuses ELSE Statuses \ {"partial_success"}

(* Whether a call changed the directory: a success did, a request for      *)
(* confirmation did not, and an error may be the failure of a call that    *)
(* the identity domain had already applied.                                *)
MayApply(tool, status)  == tool \in HighRiskTools /\ status \in {"success", "error"}
MustApply(tool, status) == tool \in HighRiskTools /\ status = "success"

MissingInputs(step) == step.tool \notin DeferMissingCheck /\ ~step.complete

(* to_normalized_response: one error makes the answer an error.            *)
SummaryStatusOfLast(res) == IF res[Len(res)] = "error" THEN "error" ELSE "success"

SummaryStatus(res) ==
  IF \E i \in DOMAIN res : res[i] = "error" THEN "error" ELSE "success"

-----------------------------------------------------------------------------
Init ==
  /\ attemptCount = 0
  /\ metrics = {}
  /\ audits = {}
  /\ pc = [t \in Turns |-> "idle"]
  /\ request = [t \in Turns |-> "single_tool_passthrough"]
  /\ steps = [t \in Turns |-> <<>>]
  /\ results = [t \in Turns |-> <<>>]
  /\ verdict = [t \in Turns |-> "not_aligned"]
  /\ reply = [t \in Turns |-> NoReply]
  /\ score = [t \in Turns |-> 0]
  /\ plans = [t \in Turns |-> 0]
  /\ registered = [t \in Turns |-> 0]
  /\ resets = [t \in Turns |-> 0]
  /\ others = [t \in Turns |-> 0]
  /\ writers = {}

Goto(t, place) == pc' = [pc EXCEPT ![t] = place]

(* Every branch that ends the turn builds a response and finalizes it.     *)
ConcludeWithoutReply(t, status, branch) ==
  /\ Goto(t, "finalize")
  /\ UNCHANGED reply

Conclude(t, status, branch) ==
  /\ reply' = [reply EXCEPT ![t] = [status |-> status, branch |-> branch]]
  /\ Goto(t, "finalize")

(* Other active turns see a reset or a registration they did not make.     *)
Disturb(t, count) ==
  [u \in Turns |-> IF u # t /\ Active(u) THEN count[u] + 1 ELSE count[u]]

-----------------------------------------------------------------------------
(* The turn's thread enters handle_user_input and resets the controller    *)
(* all turns share.                                                        *)
StartNoReset(t) ==
  /\ pc[t] = "idle"
  /\ resets' = Disturb(t, resets)
  /\ Goto(t, "preflight")
  /\ UNCHANGED <<attemptCount, metrics, audits, request, steps, results, verdict, reply,
                 score, plans, registered, others, writers>>

Start(t) ==
  /\ pc[t] = "idle"
  /\ attemptCount' = ResetCount
  /\ resets' = Disturb(t, resets)
  /\ Goto(t, "preflight")
  /\ UNCHANGED <<metrics, audits, request, steps, results, verdict, reply, score,
                 plans, registered, others, writers>>

PreflightBlocks(t) ==
  /\ pc[t] = "preflight"
  /\ Conclude(t, "error", "preflight")
  /\ UNCHANGED <<shared, request, steps, results, verdict, score, history>>

PreflightPasses(t) ==
  /\ pc[t] = "preflight"
  /\ Goto(t, "planning")
  /\ UNCHANGED <<shared, request, steps, results, verdict, reply, score, history>>

MakePlan(t) ==
  /\ pc[t] = "planning"
  /\ \E type \in RequestTypes, plan \in StepPlans :
       /\ request' = [request EXCEPT ![t] = type]
       /\ steps' = [steps EXCEPT ![t] = plan]
       /\ Goto(t, IF type = "single_tool_passthrough" THEN "loop" ELSE "workflow")
  /\ plans' = [plans EXCEPT ![t] = @ + 1]
  /\ UNCHANGED <<shared, results, verdict, reply, score,
                 registered, resets, others, writers>>

(* The permission investigation runs as a skill; the built-in investigator *)
(* answers when the skill failed.                                          *)
Investigate(t) ==
  /\ pc[t] = "workflow"
  /\ request[t] = "permission_investigation"
  /\ \E skill, builtIn \in Statuses \ {"partial_success"} :
       Conclude(t, IF skill = "error" THEN builtIn ELSE skill, "workflow")
  /\ UNCHANGED <<shared, request, steps, results, verdict, score, history>>

Diagnose(t) ==
  /\ pc[t] = "workflow"
  /\ request[t] = "access_denial_troubleshooting"
  /\ \E status \in Statuses \ {"partial_success"} : Conclude(t, status, "workflow")
  /\ UNCHANGED <<shared, request, steps, results, verdict, score, history>>

(* The head of the loop reads the shared count: only a count above zero    *)
(* asks the planner for another plan.                                      *)
BeginAttemptLateReplan(t) ==
  /\ pc[t] = "loop"
  /\ results' = [results EXCEPT ![t] = <<>>]
  /\ Goto(t, IF attemptCount > 1 THEN "replanning" ELSE "step")
  /\ UNCHANGED <<shared, request, steps, verdict, reply, score, history>>

BeginAttempt(t) ==
  /\ pc[t] = "loop"
  /\ results' = [results EXCEPT ![t] = <<>>]
  /\ Goto(t, IF attemptCount + 1 > 1 THEN "replanning" ELSE "step")
  /\ UNCHANGED <<shared, request, steps, verdict, reply, score, history>>

Replan(t) ==
  /\ pc[t] = "replanning"
  /\ \E plan \in StepPlans : steps' = [steps EXCEPT ![t] = plan]
  /\ plans' = [plans EXCEPT ![t] = @ + 1]
  /\ Goto(t, "step")
  /\ UNCHANGED <<shared, request, results, verdict, reply, score,
                 registered, resets, others, writers>>

CurrentStep(t) == steps[t][Len(results[t]) + 1]

StopForMissingInputSkipped(t) ==
  /\ pc[t] = "step"
  /\ MissingInputs(CurrentStep(t))
  /\ UNCHANGED vars

StopForMissingInput(t) ==
  /\ pc[t] = "step"
  /\ MissingInputs(CurrentStep(t))
  /\ Conclude(t, "needs_confirmation", "missing_input")
  /\ UNCHANGED <<shared, request, steps, results, verdict, score, history>>

(* One tool call.  A request for confirmation ends the turn; an error does *)
(* not stop the steps that follow it.                                      *)
RunStep(t) ==
  /\ pc[t] = "step"
  /\ ~MissingInputs(CurrentStep(t))
  /\ \E status \in ToolOutcomes(CurrentStep(t).tool) :
       /\ \/ MayApply(CurrentStep(t).tool, status) /\ writers' = writers \union {t}
          \/ ~MustApply(CurrentStep(t).tool, status) /\ UNCHANGED writers
       /\ results' = [results EXCEPT ![t] = Append(@, status)]
       /\ IF status = "needs_confirmation"
            THEN Conclude(t, "needs_confirmation", "confirmation")
            ELSE /\ Goto(t, IF Len(results[t]) + 1 = Len(steps[t])
                              THEN "validate" ELSE "step")
                 /\ UNCHANGED reply
  /\ UNCHANGED <<shared, request, steps, verdict, score,
                 plans, registered, resets, others>>

(* Summarize the results and ask whether the draft answers the input; both *)
(* fall back to a default when the model fails.                            *)
Validate(t) ==
  /\ pc[t] = "validate"
  /\ \E v \in Verdicts : verdict' = [verdict EXCEPT ![t] = v]
  /\ Goto(t, "register")
  /\ UNCHANGED <<shared, request, steps, results, reply, score, history>>

(* retry_controller.register() and the branch on its answer.               *)
Register(t) ==
  LET count  == CountAfterRegister(attemptCount)
      action == NextAction(verdict[t], count)
  IN
  /\ pc[t] = "register"
  /\ attemptCount' = count
  /\ registered' = [registered EXCEPT ![t] = @ + 1]
  /\ others' = Disturb(t, others)
  /\ \/ /\ action = "respond"
        /\ Conclude(t, SummaryStatus(results[t]), "respond")
     \/ /\ action = "abort"
        /\ Conclude(t, "error", "abort")
     \/ /\ action = "replan"
        /\ Goto(t, "loop")
        /\ UNCHANGED reply
  /\ UNCHANGED <<metrics, audits, request, steps, results, verdict, score,
                 plans, resets, writers>>

(* The call returns: its locals are gone, its reply is out.                *)
Return(t) ==
  /\ Goto(t, "done")
  /\ request' = [request EXCEPT ![t] = "single_tool_passthrough"]
  /\ plans' = [plans EXCEPT ![t] = 0]
  /\ steps' = [steps EXCEPT ![t] = <<>>]
  /\ results' = [results EXCEPT ![t] = <<>>]
  /\ verdict' = [verdict EXCEPT ![t] = "not_aligned"]
  /\ score' = [score EXCEPT ![t] = 0]

(* A malformed plan or verdict of the language model raises;               *)
(* process_message turns the exception into an error reply, past the       *)
(* finalization.                                                           *)
Fail(t) ==
  /\ pc[t] \in {"planning", "replanning", "validate"}
  /\ reply' = [reply EXCEPT ![t] = [status |-> "error", branch |-> "fallback"]]
  /\ Return(t)
  /\ UNCHANGED <<shared, registered, resets, others, writers>>

(* _finalize_trace reads the shared count for the quality score, sends the *)
(* trace, ...                                                              *)
Finalize(t) ==
  /\ pc[t] = "finalize"
  /\ score' = [score EXCEPT ![t] = attemptCount]
  /\ Goto(t, "deliver")
  /\ UNCHANGED <<shared, request, steps, results, verdict, reply, history>>

(* ... and reads it again for the metric.  Workflows and answered turns    *)
(* are audited before the reply is returned; the other branches are not.   *)
AuditedBranchesWorkflow == {"workflow"}

AuditedBranches == {"workflow", "respond"}

Metric(t) ==
  [turn |-> t, status |-> reply[t].status,
   retryCount |-> attemptCount, scoredRetryCount |-> score[t]]

Deliver(t) ==
  /\ pc[t] = "deliver"
  /\ metrics' = metrics \union {Metric(t)}
  /\ audits' = IF reply[t].branch \in AuditedBranches
                 THEN audits \union {[turn |-> t, status |-> reply[t].status]}
                 ELSE audits
  /\ Return(t)
  /\ UNCHANGED <<attemptCount, reply, registered, resets, others, writers>>

(* The server has answered every turn.                                     *)
AllAnswered ==
  /\ \A t \in Turns : pc[t] = "done"
  /\ UNCHANGED vars

Proceed(t) ==
  \/ PreflightBlocks(t)
  \/ PreflightPasses(t)
  \/ MakePlan(t)
  \/ Investigate(t)
  \/ Diagnose(t)
  \/ BeginAttempt(t)
  \/ Replan(t)
  \/ StopForMissingInput(t)
  \/ RunStep(t)
  \/ Validate(t)
  \/ Register(t)
  \/ Fail(t)
  \/ Finalize(t)
  \/ Deliver(t)

Next == (\E t \in Turns : Start(t) \/ Proceed(t)) \/ AllAnswered

Spec == Init /\ [][Next]_vars

(* A turn's thread keeps running once it was started; nobody has to start  *)
(* a turn.                                                                 *)
FairSpec == Spec /\ \A t \in Turns : WF_vars(Proceed(t))

-----------------------------------------------------------------------------
(* The values the variables range over; a turn that is being finalized has *)
(* a response to finalize.                                                 *)
TypeOK ==
  /\ attemptCount \in Nat
  /\ metrics \subseteq [turn : Turns, status : Statuses,
                       retryCount : Nat, scoredRetryCount : Nat]
  /\ audits \subseteq [turn : Turns, status : Statuses]
  /\ pc \in [Turns -> Locations]
  /\ request \in [Turns -> RequestTypes]
  /\ steps \in [Turns -> StepPlans \union {<<>>}]
  /\ results \in [Turns -> Seq(Statuses)]
  /\ verdict \in [Turns -> Verdicts]
  /\ reply \in [Turns -> Reply \union {NoReply}]
  /\ \A t \in Turns : pc[t] \in {"finalize", "deliver"} => reply[t] \in Reply
  /\ score \in [Turns -> Nat]
  /\ plans \in [Turns -> Nat]
  /\ registered \in [Turns -> Nat]
  /\ resets \in [Turns -> Nat]
  /\ others \in [Turns -> Nat]
  /\ writers \subseteq Turns

(* A turn makes at most MaxAttempts attempts, and MaxAttempts more for     *)
(* each turn another user started meanwhile: register() aborts by the      *)
(* shared count, and every new turn sets that count back to zero           *)
(* (retry_controller.py:13-31, orchestrator.py:278).                       *)
AttemptsBounded ==
  \A t \in Turns : registered[t] <= MaxAttempts * (1 + resets[t])

(* MAX_RETRY_EXCEEDED is never answered early: unless a new turn reset the *)
(* count, MaxAttempts attempts were registered since this turn began, by   *)
(* it or by the turns it ran beside (orchestrator.py:525-546).             *)
AbortJustified ==
  \A t \in Turns :
    reply[t].branch = "abort" /\ resets[t] = 0
      => registered[t] + others[t] >= MaxAttempts

(* Every attempt after a rejected answer runs a plan made after that       *)
(* rejection, unless a new turn reset the count the loop head looks at     *)
(* (orchestrator.py:369-373).                                              *)
FreshPlanPerAttempt ==
  \A t \in Turns :
    pc[t] \in {"step", "validate", "register"} /\ resets[t] = 0
      => plans[t] > registered[t]

(* What the user is told is what the last attempt did: an answer was       *)
(* judged aligned, every step of its plan was run, and it is a success     *)
(* exactly when no step failed or stopped for confirmation, whatever the   *)
(* order of the steps (orchestrator.py:391-503, response_summarizer.py:263). *)
AnswerReflectsAttempt ==
  \A t \in Turns :
    pc[t] \in {"finalize", "deliver"} /\ reply[t].branch = "respond" =>
      /\ verdict[t] = "aligned"
      /\ Len(results[t]) = Len(steps[t])
      /\ (reply[t].status = "success") <=>
           \A i \in DOMAIN results[t] : results[t][i] \in {"success", "partial_success"}

(* The retry count of a metric and of a quality score is the number of     *)
(* attempts of its own turn when that turn ran alone: nothing of earlier   *)
(* turns is left in the shared count (orchestrator.py:160-186).            *)
MetricsTruthful ==
  \A m \in metrics :
    resets[m.turn] = 0 /\ others[m.turn] = 0 =>
      /\ m.retryCount = registered[m.turn]
      /\ m.scoredRetryCount = registered[m.turn]

(* An answered turn that applied a high-risk operation has an audit record *)
(* with the status the user saw (orchestrator.py:514-523).                 *)
AnsweredWritesAudited ==
  \A t \in Turns :
    pc[t] = "done" /\ reply[t].branch = "respond" /\ t \in writers
      => [turn |-> t, status |-> reply[t].status] \in audits

(* Every turn that was started is answered, however the model judges it,   *)
(* when the server's threads keep running.                                 *)
Answered == \A t \in Turns : pc[t] # "idle" ~> pc[t] = "done"

(* README.md:29: high-risk operations are subject to audit: a turn that    *)
(* applied one leaves an audit record, however it ended.                   *)
HighRiskAudited ==
  \A t \in Turns :
    pc[t] = "done" /\ t \in writers => \E a \in audits : a.turn = t

=============================================================================
