------------------------- MODULE Orchestrator_proofs -------------------------
(***************************************************************************)
(* Theorems about the conversation turns of Orchestrator, for every number *)
(* of turns, every limit of attempts and every set of plans.  Each is      *)
(* proved with one step per action of Next.                                *)
(***************************************************************************)
EXTENDS Orchestrator, TLAPS

USE MaxAttemptsAssumption, ToolsAssumption

-----------------------------------------------------------------------------
(* The summary of any sequence of results is a status a reply may have.    *)
LEMMA SummaryStatusType == \A res : SummaryStatus(res) \in {"success", "error"}
BY DEF SummaryStatus

LEMMA EmptyResults == <<>> \in Seq(Statuses)
OBVIOUS

(* Counting a disturbance keeps a counter's type and never lowers it.      *)
LEMMA DisturbType ==
  ASSUME NEW count \in [Turns -> Nat], NEW t
  PROVE  /\ Disturb(t, count) \in [Turns -> Nat]
         /\ \A u \in Turns : Disturb(t, count)[u] \in {count[u], count[u] + 1}
BY DEF Disturb

LEMMA IncrementType ==
  ASSUME NEW count \in [Turns -> Nat], NEW t \in Turns
  PROVE  [count EXCEPT ![t] = @ + 1] \in [Turns -> Nat]
OBVIOUS

LEMMA ReplyType ==
  ASSUME NEW status \in Statuses, NEW branch \in Branches
  PROVE  [status |-> status, branch |-> branch] \in Reply
BY DEF Reply

(* A turn that has built a response keeps the types of pc and reply.       *)
LEMMA ConcludeType ==
  ASSUME TypeOK, NEW t \in Turns, NEW status \in Statuses, NEW branch \in Branches,
         Conclude(t, status, branch)
  PROVE  /\ pc' \in [Turns -> Locations]
         /\ reply' \in [Turns -> Reply \union {NoReply}]
         /\ \A u \in Turns : pc'[u] \in {"finalize", "deliver"} => reply'[u] \in Reply
<1>1. [status |-> status, branch |-> branch] \in Reply
  BY ReplyType
<1>2. QED
  BY <1>1 DEF TypeOK, Conclude, Goto, Locations

(* So does one that moves on without one.                                  *)
LEMMA MoveType ==
  ASSUME TypeOK, NEW t \in Turns, UNCHANGED reply,
         NEW place \in Locations \ {"finalize", "deliver"}, Goto(t, place)
  PROVE  /\ pc' \in [Turns -> Locations]
         /\ reply' \in [Turns -> Reply \union {NoReply}]
         /\ \A u \in Turns : pc'[u] \in {"finalize", "deliver"} => reply'[u] \in Reply
BY DEF TypeOK, Goto

LEMMA ReturnType ==
  ASSUME TypeOK, NEW t \in Turns, Return(t)
  PROVE  /\ pc' \in [Turns -> Locations]
         /\ request' \in [Turns -> RequestTypes]
         /\ steps' \in [Turns -> StepPlans \union {<<>>}]
         /\ results' \in [Turns -> Seq(Statuses)]
         /\ verdict' \in [Turns -> Verdicts]
         /\ score' \in [Turns -> Nat]
         /\ plans' \in [Turns -> Nat]
<1> USE DEF TypeOK, Return
<1>1. pc' \in [Turns -> Locations]
  BY DEF Goto, Locations
<1>2. request' \in [Turns -> RequestTypes] /\ verdict' \in [Turns -> Verdicts]
  BY DEF RequestTypes, Verdicts
<1>3. steps' \in [Turns -> StepPlans \union {<<>>}]
  OBVIOUS
<1>4. results' \in [Turns -> Seq(Statuses)]
  BY EmptyResults
<1>5. score' \in [Turns -> Nat] /\ plans' \in [Turns -> Nat]
  OBVIOUS
<1>6. QED
  BY <1>1, <1>2, <1>3, <1>4, <1>5

(* Every variable keeps to its type (Orchestrator!TypeOK).                 *)
THEOREM TypeCorrect == Spec => []TypeOK
<1>1. Init => TypeOK
  BY EmptyResults DEF Init, TypeOK, Locations, RequestTypes, Verdicts, Reply, NoReply
<1>2. TypeOK /\ [Next]_vars => TypeOK'
  <2> SUFFICES ASSUME TypeOK, [Next]_vars PROVE TypeOK'
    OBVIOUS
  <2> USE DEF TypeOK, shared, locals, history
  <2>1. ASSUME NEW t \in Turns, Start(t) PROVE TypeOK'
    <3>1. resets' \in [Turns -> Nat]
      BY <2>1, DisturbType DEF Start
    <3>2. "preflight" \in Locations \ {"finalize", "deliver"}
      BY DEF Locations
    <3>3. QED
      BY <2>1, <3>1, <3>2, MoveType DEF Start, ResetCount
  <2>2. ASSUME NEW t \in Turns, PreflightBlocks(t) PROVE TypeOK'
    BY <2>2, ConcludeType DEF PreflightBlocks, Statuses, Branches
  <2>3. ASSUME NEW t \in Turns, PreflightPasses(t) PROVE TypeOK'
    BY <2>3, MoveType DEF PreflightPasses, Locations
  <2>4. ASSUME NEW t \in Turns, MakePlan(t) PROVE TypeOK'
    <3>1. PICK type \in RequestTypes, plan \in StepPlans :
            /\ request' = [request EXCEPT ![t] = type]
            /\ steps' = [steps EXCEPT ![t] = plan]
            /\ Goto(t, IF type = "single_tool_passthrough" THEN "loop" ELSE "workflow")
      BY <2>4 DEF MakePlan
    <3>2. request' \in [Turns -> RequestTypes] /\ steps' \in [Turns -> StepPlans \union {<<>>}]
      BY <3>1
    <3>3. plans' \in [Turns -> Nat]
      BY <2>4, IncrementType DEF MakePlan
    <3>4. {"loop", "workflow"} \subseteq Locations \ {"finalize", "deliver"}
      BY DEF Locations
    <3>5. QED
      BY <2>4, <3>1, <3>2, <3>3, <3>4, MoveType DEF MakePlan
  <2>5. ASSUME NEW t \in Turns, Investigate(t) PROVE TypeOK'
    BY <2>5, ConcludeType DEF Investigate, Branches
  <2>6. ASSUME NEW t \in Turns, Diagnose(t) PROVE TypeOK'
    BY <2>6, ConcludeType DEF Diagnose, Branches
  <2>7. ASSUME NEW t \in Turns, BeginAttempt(t) PROVE TypeOK'
    <3>1. results' \in [Turns -> Seq(Statuses)]
      BY <2>7, EmptyResults DEF BeginAttempt
    <3>2. {"replanning", "step"} \subseteq Locations \ {"finalize", "deliver"}
      BY DEF Locations
    <3>3. QED
      BY <2>7, <3>1, <3>2, MoveType DEF BeginAttempt
  <2>8. ASSUME NEW t \in Turns, Replan(t) PROVE TypeOK'
    <3>1. steps' \in [Turns -> StepPlans \union {<<>>}]
      BY <2>8 DEF Replan
    <3>2. plans' \in [Turns -> Nat]
      BY <2>8, IncrementType DEF Replan
    <3>3. "step" \in Locations \ {"finalize", "deliver"}
      BY DEF Locations
    <3>4. QED
      BY <2>8, <3>1, <3>2, <3>3, MoveType DEF Replan
  <2>9. ASSUME NEW t \in Turns, StopForMissingInput(t) PROVE TypeOK'
    BY <2>9, ConcludeType DEF StopForMissingInput, Statuses, Branches
  <2>10. ASSUME NEW t \in Turns, RunStep(t) PROVE TypeOK'
    <3>1. PICK status \in Statuses :
            /\ writers' \in {writers, writers \union {t}}
            /\ results' = [results EXCEPT ![t] = Append(@, status)]
            /\ \/ Goto(t, "validate") /\ UNCHANGED reply
               \/ Goto(t, "step") /\ UNCHANGED reply
               \/ Conclude(t, "needs_confirmation", "confirmation")
      BY <2>10 DEF RunStep, ToolOutcomes
    <3>2. results' \in [Turns -> Seq(Statuses)]
      BY <3>1
    <3>3. /\ pc' \in [Turns -> Locations]
          /\ reply' \in [Turns -> Reply \union {NoReply}]
          /\ \A u \in Turns : pc'[u] \in {"finalize", "deliver"} => reply'[u] \in Reply
      <4>1. /\ {"validate", "step"} \subseteq Locations \ {"finalize", "deliver"}
            /\ "needs_confirmation" \in Statuses /\ "confirmation" \in Branches
        BY DEF Locations, Statuses, Branches
      <4>2. QED
        BY <3>1, <4>1, MoveType, ConcludeType
    <3>4. writers' \subseteq Turns
      BY <3>1
    <3>5. QED
      BY <2>10, <3>2, <3>3, <3>4 DEF RunStep
  <2>11. ASSUME NEW t \in Turns, Validate(t) PROVE TypeOK'
    <3>1. verdict' \in [Turns -> Verdicts]
      BY <2>11 DEF Validate
    <3>2. "register" \in Locations \ {"finalize", "deliver"}
      BY DEF Locations
    <3>3. QED
      BY <2>11, <3>1, <3>2, MoveType DEF Validate
  <2>12. ASSUME NEW t \in Turns, Register(t) PROVE TypeOK'
    <3>1. attemptCount' \in Nat /\ registered' \in [Turns -> Nat] /\ others' \in [Turns -> Nat]
      <4>1. /\ attemptCount' = attemptCount + 1
            /\ registered' = [registered EXCEPT ![t] = @ + 1]
            /\ others' = Disturb(t, others)
        BY <2>12 DEF Register, CountAfterRegister
      <4>2. attemptCount' \in Nat
        BY <4>1
      <4>3. registered' \in [Turns -> Nat]
        BY <4>1, IncrementType
      <4>4. others' \in [Turns -> Nat]
        BY <4>1, DisturbType
      <4>5. QED
        BY <4>2, <4>3, <4>4
    <3>2. /\ pc' \in [Turns -> Locations]
          /\ reply' \in [Turns -> Reply \union {NoReply}]
          /\ \A u \in Turns : pc'[u] \in {"finalize", "deliver"} => reply'[u] \in Reply
      <4>1. /\ "loop" \in Locations \ {"finalize", "deliver"}
            /\ {"success", "error"} \subseteq Statuses /\ {"respond", "abort"} \subseteq Branches
            /\ SummaryStatus(results[t]) \in Statuses
        BY SummaryStatusType DEF Locations, Statuses, Branches
      <4>2. \/ \E status \in Statuses, branch \in Branches : Conclude(t, status, branch)
            \/ Goto(t, "loop") /\ UNCHANGED reply
        BY <2>12, <4>1 DEF Register
      <4>3. QED
        BY <4>1, <4>2, MoveType, ConcludeType
    <3>3. QED
      BY <2>12, <3>1, <3>2 DEF Register
  <2>13. ASSUME NEW t \in Turns, Fail(t) PROVE TypeOK'
    <3>1. [status |-> "error", branch |-> "fallback"] \in Reply
      BY ReplyType DEF Statuses, Branches
    <3>2. /\ reply' \in [Turns -> Reply \union {NoReply}]
          /\ \A u \in Turns : pc'[u] \in {"finalize", "deliver"} => reply'[u] \in Reply
      BY <2>13, <3>1 DEF Fail, Return, Goto
    <3>3. QED
      BY <2>13, <3>2, ReturnType DEF Fail
  <2>14. ASSUME NEW t \in Turns, Finalize(t) PROVE TypeOK'
    BY <2>14 DEF Finalize, Goto, Locations
  <2>15. ASSUME NEW t \in Turns, Deliver(t) PROVE TypeOK'
    <3>1. reply[t] \in Reply
      BY <2>15 DEF Deliver
    <3>2. /\ metrics' \subseteq [turn : Turns, status : Statuses,
                                retryCount : Nat, scoredRetryCount : Nat]
          /\ audits' \subseteq [turn : Turns, status : Statuses]
      BY <2>15, <3>1 DEF Deliver, Metric, Reply
    <3>3. \A u \in Turns : pc'[u] \in {"finalize", "deliver"} => reply'[u] \in Reply
      BY <2>15 DEF Deliver, Return, Goto
    <3>4. QED
      BY <2>15, <3>2, <3>3, ReturnType DEF Deliver
  <2>16. CASE UNCHANGED vars
    BY <2>16 DEF vars
  <2>17. QED
    BY <2>1, <2>2, <2>3, <2>4, <2>5, <2>6, <2>7, <2>8, <2>9, <2>10, <2>11,
       <2>12, <2>13, <2>14, <2>15, <2>16 DEF Next, Proceed, AllAnswered
<1>3. QED
  BY <1>1, <1>2, PTL DEF Spec

-----------------------------------------------------------------------------
(* From the moment a turn has started until it has built its response.     *)
Attempting == {"preflight", "planning", "workflow", "loop", "replanning",
               "step", "validate", "register"}

(* What a step of turn t does when it is not Register: the counters stay,  *)
(* nobody else moves, and a turn that has built its response never goes    *)
(* back to attempting.                                                     *)
QuietStep(t) ==
  /\ UNCHANGED <<attemptCount, registered, resets, others>>
  /\ Active(t) /\ pc'[t] # "idle"
  /\ \A u \in Turns \ {t} : pc'[u] = pc[u] /\ reply'[u] = reply[u] /\ score'[u] = score[u]
  /\ pc'[t] \in Attempting => pc[t] \in Attempting
  /\ pc'[t] = "deliver" => score'[t] = attemptCount
  /\ reply'[t].branch = "abort" => reply[t].branch = "abort"
  /\ \/ UNCHANGED metrics
     \/ pc[t] = "deliver" /\ pc'[t] = "done" /\ metrics' = metrics \union {Metric(t)}

LEMMA QuietConclude ==
  ASSUME TypeOK, NEW t \in Turns, pc[t] \in Attempting,
         NEW status, NEW branch, branch # "abort", Conclude(t, status, branch),
         UNCHANGED <<attemptCount, registered, resets, others, score, metrics>>
  PROVE  QuietStep(t)
BY DEF TypeOK, QuietStep, Conclude, Goto, Active, Attempting

LEMMA QuietMove ==
  ASSUME TypeOK, NEW t \in Turns, pc[t] \in Attempting,
         NEW place, place \notin {"idle", "deliver"}, Goto(t, place),
         UNCHANGED <<attemptCount, registered, resets, others, reply, score, metrics>>
  PROVE  QuietStep(t)
BY DEF TypeOK, QuietStep, Goto, Active, Attempting

LEMMA QuietSteps ==
  ASSUME TypeOK, NEW t \in Turns, Proceed(t)
  PROVE  QuietStep(t) \/ Register(t)
<1> USE DEF shared, locals, history
<1>1. ASSUME PreflightBlocks(t) PROVE QuietStep(t)
  BY <1>1, QuietConclude DEF PreflightBlocks, Attempting
<1>2. ASSUME PreflightPasses(t) PROVE QuietStep(t)
  BY <1>2, QuietMove DEF PreflightPasses, Attempting
<1>3. ASSUME MakePlan(t) PROVE QuietStep(t)
  BY <1>3, QuietMove DEF MakePlan, Attempting
<1>4. ASSUME Investigate(t) PROVE QuietStep(t)
  BY <1>4, QuietConclude DEF Investigate, Attempting
<1>5. ASSUME Diagnose(t) PROVE QuietStep(t)
  BY <1>5, QuietConclude DEF Diagnose, Attempting
<1>6. ASSUME BeginAttempt(t) PROVE QuietStep(t)
  BY <1>6, QuietMove DEF BeginAttempt, Attempting
<1>7. ASSUME Replan(t) PROVE QuietStep(t)
  BY <1>7, QuietMove DEF Replan, Attempting
<1>8. ASSUME StopForMissingInput(t) PROVE QuietStep(t)
  BY <1>8, QuietConclude DEF StopForMissingInput, Attempting
<1>9. ASSUME RunStep(t) PROVE QuietStep(t)
  <2>1. \/ Goto(t, "validate") /\ UNCHANGED reply
        \/ Goto(t, "step") /\ UNCHANGED reply
        \/ Conclude(t, "needs_confirmation", "confirmation")
    BY <1>9 DEF RunStep
  <2>2. pc[t] \in Attempting
    BY <1>9 DEF RunStep, Attempting
  <2>3. UNCHANGED <<attemptCount, registered, resets, others, score, metrics>>
    BY <1>9 DEF RunStep
  <2>4. QED
    BY <2>1, <2>2, <2>3, QuietMove, QuietConclude
<1>10. ASSUME Validate(t) PROVE QuietStep(t)
  BY <1>10, QuietMove DEF Validate, Attempting
<1>11. ASSUME Fail(t) PROVE QuietStep(t)
  BY <1>11 DEF TypeOK, Fail, Return, QuietStep, Goto, Active, Attempting
<1>12. ASSUME Finalize(t) PROVE QuietStep(t)
  BY <1>12 DEF TypeOK, Finalize, QuietStep, Goto, Active, Attempting
<1>13. ASSUME Deliver(t) PROVE QuietStep(t)
  BY <1>13 DEF TypeOK, Deliver, Return, QuietStep, Goto, Active, Attempting
<1>14. QED
  BY <1>1, <1>2, <1>3, <1>4, <1>5, <1>6, <1>7, <1>8, <1>9, <1>10, <1>11, <1>12, <1>13
     DEF Proceed

(* Every step is the start of a turn, a registration, a quiet step or a    *)
(* stutter.                                                                *)
LEMMA StepCases ==
  ASSUME TypeOK, [Next]_vars
  PROVE  \/ \E t \in Turns : Start(t) \/ Register(t) \/ QuietStep(t)
         \/ UNCHANGED vars
BY QuietSteps DEF Next, AllAnswered

-----------------------------------------------------------------------------
(* How the shared count relates to the attempts of a turn.  A turn nobody  *)
(* reset has all its own registrations and all it saw of other turns in    *)
(* the count; a turn that was reset is behind by at most MaxAttempts for   *)
(* each reset, because register() stops it when the count gets there.      *)
IdleTurnsCountNothing ==
  \A t \in Turns : pc[t] = "idle" => registered[t] = 0 /\ resets[t] = 0 /\ others[t] = 0

CountExplained ==
  \A t \in Turns : Active(t) /\ resets[t] = 0 => attemptCount = registered[t] + others[t]

AttemptsWithinBudget ==
  \A t \in Turns :
    /\ registered[t] <= MaxAttempts * resets[t] + MaxAttempts
    /\ pc[t] \in Attempting =>
         /\ registered[t] <= MaxAttempts * resets[t] + attemptCount
         /\ registered[t] < MaxAttempts * resets[t] + MaxAttempts

Counting ==
  /\ IdleTurnsCountNothing
  /\ CountExplained
  /\ AttemptsWithinBudget
  /\ AbortJustified

LEMMA BudgetStep ==
  \A r \in Nat : /\ MaxAttempts * r \in Nat
                 /\ MaxAttempts * (r + 1) = MaxAttempts * r + MaxAttempts
                 /\ MaxAttempts * (1 + r) = MaxAttempts * r + MaxAttempts
OBVIOUS

LEMMA CountingStarts ==
  ASSUME TypeOK, Counting, NEW t \in Turns, Start(t) PROVE Counting'
<1>0. /\ attemptCount \in Nat /\ registered \in [Turns -> Nat]
      /\ resets \in [Turns -> Nat] /\ others \in [Turns -> Nat]
  BY DEF TypeOK
<1>1. /\ attemptCount' = 0 /\ UNCHANGED <<registered, others, reply>>
      /\ registered[t] = 0 /\ resets[t] = 0 /\ others[t] = 0
      /\ resets'[t] = 0 /\ pc[t] = "idle" /\ pc'[t] = "preflight"
  BY DEF Counting, IdleTurnsCountNothing, Goto, TypeOK, Start, ResetCount, Disturb
<1>2. \A u \in Turns \ {t} :
        /\ pc'[u] = pc[u]
        /\ resets'[u] = IF Active(u) THEN resets[u] + 1 ELSE resets[u]
  BY DEF Goto, TypeOK, Start, Disturb
<1>3. IdleTurnsCountNothing'
  BY <1>1, <1>2 DEF Counting, IdleTurnsCountNothing, Active
<1>4. CountExplained'
  <2> SUFFICES ASSUME NEW u \in Turns, pc'[u] \notin {"idle", "done"}, resets'[u] = 0
      PROVE 0 = registered[u] + others[u]
    BY <1>1 DEF CountExplained, Active
  <2>1. u = t
    BY <1>0, <1>2 DEF Active
  <2>2. QED
    BY <1>1, <2>1
<1>5. AttemptsWithinBudget'
  <2> SUFFICES ASSUME NEW u \in Turns
      PROVE /\ registered[u] <= MaxAttempts * resets'[u] + MaxAttempts
            /\ pc'[u] \in Attempting =>
                 /\ registered[u] <= MaxAttempts * resets'[u] + 0
                 /\ registered[u] < MaxAttempts * resets'[u] + MaxAttempts
    BY <1>1 DEF AttemptsWithinBudget
  <2>1. CASE u = t
    BY <1>0, <1>1, <2>1, BudgetStep
  <2>2. CASE u # t /\ Active(u)
    <3>1. MaxAttempts * resets'[u] = MaxAttempts * resets[u] + MaxAttempts
      BY <1>0, <1>2, <2>2, BudgetStep
    <3>2. registered[u] <= MaxAttempts * resets[u] + MaxAttempts
      BY DEF Counting, AttemptsWithinBudget
    <3>3. registered[u] \in Nat /\ MaxAttempts * resets[u] \in Nat
      BY <1>0, BudgetStep
    <3>4. QED
      BY <3>1, <3>2, <3>3
  <2>3. CASE u # t /\ ~Active(u)
    BY <1>2, <2>3, BudgetStep DEF Counting, AttemptsWithinBudget, Attempting, Active
  <2>4. QED
    BY <2>1, <2>2, <2>3
<1>6. AbortJustified'
  <2> SUFFICES ASSUME NEW u \in Turns, reply[u].branch = "abort", resets'[u] = 0
      PROVE registered[u] + others[u] >= MaxAttempts
    BY <1>1 DEF AbortJustified
  <2>1. resets[u] = 0
    BY <1>0, <1>1, <1>2
  <2>2. QED
    BY <2>1 DEF Counting, AbortJustified
<1>7. QED
  BY <1>3, <1>4, <1>5, <1>6 DEF Counting

LEMMA CountingRegisters ==
  ASSUME TypeOK, Counting, NEW t \in Turns, Register(t) PROVE Counting'
<1>0. /\ attemptCount \in Nat /\ registered \in [Turns -> Nat]
      /\ resets \in [Turns -> Nat] /\ others \in [Turns -> Nat]
  BY DEF TypeOK
<1>1. /\ attemptCount' = attemptCount + 1 /\ UNCHANGED resets
      /\ registered' = [registered EXCEPT ![t] = @ + 1]
      /\ others' = Disturb(t, others)
      /\ pc[t] = "register"
  BY DEF Register, CountAfterRegister, history
<1>2. /\ \A u \in Turns \ {t} : pc'[u] = pc[u] /\ reply'[u] = reply[u]
      /\ \/ pc'[t] = "finalize" /\ reply'[t].branch = "respond"
         \/ /\ pc'[t] = "finalize" /\ reply'[t].branch = "abort"
            /\ attemptCount' >= MaxAttempts
         \/ /\ pc'[t] = "loop" /\ reply'[t] = reply[t]
            /\ attemptCount' < MaxAttempts
  BY <1>1 DEF TypeOK, Register, CountAfterRegister, NextAction, Conclude, Goto
<1>3. /\ registered'[t] = registered[t] + 1 /\ others'[t] = others[t]
      /\ \A u \in Turns \ {t} :
           /\ registered'[u] = registered[u]
           /\ others'[u] = IF Active(u) THEN others[u] + 1 ELSE others[u]
  BY <1>0, <1>1 DEF Disturb
<1>4. IdleTurnsCountNothing'
  BY <1>1, <1>2, <1>3 DEF Counting, IdleTurnsCountNothing, Active
<1>5. CountExplained'
  <2> SUFFICES ASSUME NEW u \in Turns, pc'[u] \notin {"idle", "done"}, resets[u] = 0
      PROVE attemptCount' = registered'[u] + others'[u]
    BY <1>1 DEF CountExplained, Active
  <2>1. Active(u) /\ attemptCount = registered[u] + others[u]
    BY <1>1, <1>2 DEF Counting, CountExplained, Active
  <2>2. QED
    BY <1>0, <1>1, <1>3, <2>1
<1>6. AttemptsWithinBudget'
  <2> SUFFICES ASSUME NEW u \in Turns
      PROVE /\ registered'[u] <= MaxAttempts * resets[u] + MaxAttempts
            /\ pc'[u] \in Attempting =>
                 /\ registered'[u] <= MaxAttempts * resets[u] + (attemptCount + 1)
                 /\ registered'[u] < MaxAttempts * resets[u] + MaxAttempts
    BY <1>1 DEF AttemptsWithinBudget
  <2>1. /\ registered[u] <= MaxAttempts * resets[u] + MaxAttempts
        /\ pc[u] \in Attempting =>
             /\ registered[u] <= MaxAttempts * resets[u] + attemptCount
             /\ registered[u] < MaxAttempts * resets[u] + MaxAttempts
    BY DEF Counting, AttemptsWithinBudget
  <2>2. registered[u] \in Nat /\ MaxAttempts * resets[u] \in Nat /\ attemptCount \in Nat
    BY <1>0, BudgetStep
  <2>3. CASE u = t
    <3>1. pc[t] \in Attempting /\ "finalize" \notin Attempting
      BY <1>1 DEF Attempting
    <3>2. pc'[t] \in Attempting => attemptCount + 1 < MaxAttempts
      BY <1>1, <1>2, <3>1
    <3>3. QED
      BY <1>3, <2>1, <2>2, <2>3, <3>1, <3>2
  <2>4. CASE u # t
    BY <1>2, <1>3, <2>1, <2>2, <2>4
  <2>5. QED
    BY <2>3, <2>4
<1>7. AbortJustified'
  <2> SUFFICES ASSUME NEW u \in Turns, reply'[u].branch = "abort", resets[u] = 0
      PROVE registered'[u] + others'[u] >= MaxAttempts
    BY <1>1 DEF AbortJustified
  <2>0. registered[u] \in Nat /\ others[u] \in Nat /\ attemptCount \in Nat
    BY <1>0
  <2>1. CASE u = t
    <3>1. attemptCount = registered[t] + others[t]
      BY <1>1, <2>1 DEF Counting, CountExplained, Active
    <3>2. reply'[t] = reply[t] \/ attemptCount + 1 >= MaxAttempts
      BY <1>1, <1>2, <2>1
    <3>3. reply'[t] = reply[t] => registered[t] + others[t] >= MaxAttempts
      BY <2>1 DEF Counting, AbortJustified
    <3>4. QED
      BY <1>3, <2>0, <2>1, <3>1, <3>2, <3>3
  <2>2. CASE u # t
    <3>1. registered[u] + others[u] >= MaxAttempts
      BY <1>2, <2>2 DEF Counting, AbortJustified
    <3>2. QED
      BY <1>3, <2>0, <2>2, <3>1
  <2>3. QED
    BY <2>1, <2>2
<1>8. QED
  BY <1>4, <1>5, <1>6, <1>7 DEF Counting

LEMMA CountingInvariant == Spec => []Counting
<1>1. Init => Counting
  BY DEF Init, Counting, IdleTurnsCountNothing, CountExplained, AttemptsWithinBudget,
         AbortJustified, Active, Attempting, NoReply
<1>2. TypeOK /\ Counting /\ [Next]_vars => Counting'
  <2> SUFFICES ASSUME TypeOK, Counting, [Next]_vars PROVE Counting'
    OBVIOUS
  <2>1. ASSUME NEW t \in Turns, QuietStep(t) PROVE Counting'
    BY <2>1 DEF QuietStep, TypeOK, Counting, IdleTurnsCountNothing, CountExplained,
                AttemptsWithinBudget, AbortJustified, Active
  <2>2. CASE UNCHANGED vars
    BY <2>2 DEF vars, shared, locals, history, Counting, IdleTurnsCountNothing,
                CountExplained, AttemptsWithinBudget, AbortJustified, Active
  <2>3. QED
    BY <2>1, <2>2, StepCases, CountingStarts, CountingRegisters
<1>3. QED
  BY <1>1, <1>2, TypeCorrect, PTL DEF Spec

(* No turn registers more than MaxAttempts attempts, and MaxAttempts more  *)
(* for each turn another user started meanwhile (AttemptsBounded).         *)
THEOREM AttemptsAreBounded == Spec => []AttemptsBounded
<1>1. TypeOK /\ Counting => AttemptsBounded
  BY BudgetStep DEF TypeOK, Counting, AttemptsWithinBudget, AttemptsBounded
<1>2. QED
  BY <1>1, TypeCorrect, CountingInvariant, PTL

(* MAX_RETRY_EXCEEDED is never answered before MaxAttempts attempts were   *)
(* registered since the turn began, unless it was reset (AbortJustified).  *)
THEOREM AbortsAreJustified == Spec => []AbortJustified
<1>1. Counting => AbortJustified
  BY DEF Counting
<1>2. QED
  BY <1>1, CountingInvariant, PTL

-----------------------------------------------------------------------------
(* A metric belongs to a turn that is over, whose counters no longer move; *)
(* a turn about to be delivered was scored with the count as it is now,    *)
(* if it ran alone.                                                        *)
MetricsOfDoneTurns == \A m \in metrics : pc[m.turn] = "done"

ScoredAlone ==
  \A t \in Turns :
    pc[t] = "deliver" /\ resets[t] = 0 /\ others[t] = 0 => score[t] = registered[t]

Measuring ==
  /\ MetricsOfDoneTurns
  /\ ScoredAlone
  /\ MetricsTruthful

LEMMA MeasuringStarts ==
  ASSUME TypeOK, Counting, Measuring, NEW t \in Turns, Start(t) PROVE Measuring'
<1>1. /\ UNCHANGED <<metrics, score, registered, others>>
      /\ pc[t] = "idle" /\ pc'[t] = "preflight"
  BY DEF TypeOK, Start, Goto
<1>2. \A u \in Turns \ {t} :
        /\ pc'[u] = pc[u]
        /\ resets'[u] \in {resets[u], resets[u] + 1}
        /\ pc[u] = "done" => resets'[u] = resets[u]
  BY DEF TypeOK, Start, Goto, Disturb, Active
<1>3. MetricsOfDoneTurns'
  BY <1>1, <1>2 DEF TypeOK, Measuring, MetricsOfDoneTurns
<1>4. ScoredAlone'
  <2> SUFFICES ASSUME NEW u \in Turns, pc'[u] = "deliver", resets'[u] = 0, others[u] = 0
      PROVE score[u] = registered[u]
    BY <1>1 DEF ScoredAlone
  <2>1. u # t /\ pc[u] = "deliver" /\ resets[u] = 0
    BY <1>1, <1>2 DEF TypeOK
  <2>2. QED
    BY <2>1 DEF Measuring, ScoredAlone
<1>5. MetricsTruthful'
  <2> SUFFICES ASSUME NEW m \in metrics, resets'[m.turn] = 0, others[m.turn] = 0
      PROVE m.retryCount = registered[m.turn] /\ m.scoredRetryCount = registered[m.turn]
    BY <1>1 DEF MetricsTruthful
  <2>1. m.turn \in Turns /\ pc[m.turn] = "done"
    BY DEF TypeOK, Measuring, MetricsOfDoneTurns
  <2>2. resets[m.turn] = 0
    BY <1>1, <1>2, <2>1
  <2>3. QED
    BY <2>2 DEF Measuring, MetricsTruthful
<1>6. QED
  BY <1>3, <1>4, <1>5 DEF Measuring

LEMMA MeasuringRegisters ==
  ASSUME TypeOK, Counting, Measuring, NEW t \in Turns, Register(t) PROVE Measuring'
<1>1. /\ UNCHANGED <<metrics, score, resets>>
      /\ pc[t] = "register" /\ pc'[t] \in {"finalize", "loop"}
  BY DEF TypeOK, Register, Conclude, Goto
<1>2. \A u \in Turns \ {t} :
        /\ pc'[u] = pc[u] /\ registered'[u] = registered[u]
        /\ others'[u] \in {others[u], others[u] + 1}
        /\ pc[u] = "done" => others'[u] = others[u]
  BY DEF TypeOK, Register, Conclude, Goto, Disturb, Active
<1>3. MetricsOfDoneTurns'
  BY <1>1, <1>2 DEF TypeOK, Measuring, MetricsOfDoneTurns
<1>4. ScoredAlone'
  <2> SUFFICES ASSUME NEW u \in Turns, pc'[u] = "deliver", resets[u] = 0, others'[u] = 0
      PROVE score[u] = registered'[u]
    BY <1>1 DEF ScoredAlone
  <2>1. u # t /\ pc[u] = "deliver" /\ others[u] = 0 /\ registered'[u] = registered[u]
    BY <1>1, <1>2 DEF TypeOK
  <2>2. QED
    BY <2>1 DEF Measuring, ScoredAlone
<1>5. MetricsTruthful'
  <2> SUFFICES ASSUME NEW m \in metrics, resets[m.turn] = 0, others'[m.turn] = 0
      PROVE m.retryCount = registered'[m.turn] /\ m.scoredRetryCount = registered'[m.turn]
    BY <1>1 DEF MetricsTruthful
  <2>1. m.turn \in Turns /\ pc[m.turn] = "done"
    BY DEF TypeOK, Measuring, MetricsOfDoneTurns
  <2>2. others[m.turn] = 0 /\ registered'[m.turn] = registered[m.turn]
    BY <1>1, <1>2, <2>1
  <2>3. QED
    BY <2>2 DEF Measuring, MetricsTruthful
<1>6. QED
  BY <1>3, <1>4, <1>5 DEF Measuring

LEMMA MeasuringQuietly ==
  ASSUME TypeOK, Counting, Measuring, NEW t \in Turns, QuietStep(t) PROVE Measuring'
<1>1. /\ UNCHANGED <<attemptCount, registered, resets, others>>
      /\ Active(t) /\ (pc'[t] = "deliver" => score'[t] = attemptCount)
      /\ \A u \in Turns \ {t} : pc'[u] = pc[u] /\ score'[u] = score[u]
  BY DEF QuietStep
<1>2. resets[t] = 0 /\ others[t] = 0 => attemptCount = registered[t]
  <2>1. registered[t] \in Nat
    BY DEF TypeOK
  <2>2. resets[t] = 0 => attemptCount = registered[t] + others[t]
    BY <1>1 DEF Counting, CountExplained
  <2>3. QED
    BY <2>1, <2>2
<1>3. ScoredAlone'
  BY <1>1, <1>2 DEF Measuring, ScoredAlone
<1>4. \A m \in metrics : m.turn \in Turns \ {t}
  BY <1>1 DEF TypeOK, Measuring, MetricsOfDoneTurns, Active
<1>5. CASE UNCHANGED metrics
  BY <1>1, <1>3, <1>4, <1>5 DEF Measuring, MetricsOfDoneTurns, MetricsTruthful
<1>6. CASE pc[t] = "deliver" /\ pc'[t] = "done" /\ metrics' = metrics \union {Metric(t)}
  <2>1. /\ Metric(t).turn = t
        /\ Metric(t).retryCount = attemptCount /\ Metric(t).scoredRetryCount = score[t]
    BY DEF Metric
  <2>2. resets[t] = 0 /\ others[t] = 0 => score[t] = registered[t]
    BY <1>6 DEF Measuring, ScoredAlone
  <2>3. QED
    BY <1>1, <1>2, <1>3, <1>4, <1>6, <2>1, <2>2
       DEF Measuring, MetricsOfDoneTurns, MetricsTruthful
<1>7. QED
  BY <1>5, <1>6 DEF QuietStep

(* The retry counts in the metric of a turn that ran alone are the number  *)
(* of its own attempts (MetricsTruthful).                                  *)
THEOREM MetricsAreTruthful == Spec => []MetricsTruthful
<1>1. Init => Measuring
  BY DEF Init, Measuring, MetricsOfDoneTurns, ScoredAlone, MetricsTruthful
<1>2. TypeOK /\ Counting /\ Measuring /\ [Next]_vars => Measuring'
  <2> SUFFICES ASSUME TypeOK, Counting, Measuring, [Next]_vars PROVE Measuring'
    OBVIOUS
  <2>1. CASE UNCHANGED vars
    BY <2>1 DEF vars, shared, locals, history, Measuring, MetricsOfDoneTurns,
                ScoredAlone, MetricsTruthful
  <2>2. QED
    BY <2>1, StepCases, MeasuringStarts, MeasuringRegisters, MeasuringQuietly
<1>3. Measuring => MetricsTruthful
  BY DEF Measuring
<1>4. QED
  BY <1>1, <1>2, <1>3, TypeCorrect, CountingInvariant, PTL DEF Spec

-----------------------------------------------------------------------------
(* A turn that proceeds leaves the locals and the history of the others    *)
(* alone, resets nobody, and never lowers the shared count.                *)
LEMMA OthersStay ==
  ASSUME TypeOK, NEW t \in Turns, Proceed(t)
  PROVE  /\ UNCHANGED resets
         /\ attemptCount' \in Nat /\ attemptCount' >= attemptCount
         /\ \A u \in Turns \ {t} :
              /\ pc'[u] = pc[u] /\ reply'[u] = reply[u]
              /\ steps'[u] = steps[u] /\ results'[u] = results[u] /\ verdict'[u] = verdict[u]
              /\ plans'[u] = plans[u] /\ registered'[u] = registered[u]
<1> USE DEF TypeOK, shared, locals, history, Goto, Conclude
<1>1. CASE PreflightBlocks(t)
  BY <1>1 DEF PreflightBlocks
<1>2. CASE PreflightPasses(t)
  BY <1>2 DEF PreflightPasses
<1>3. CASE MakePlan(t)
  BY <1>3 DEF MakePlan
<1>4. CASE Investigate(t)
  BY <1>4 DEF Investigate
<1>5. CASE Diagnose(t)
  BY <1>5 DEF Diagnose
<1>6. CASE BeginAttempt(t)
  BY <1>6 DEF BeginAttempt
<1>7. CASE Replan(t)
  BY <1>7 DEF Replan
<1>8. CASE StopForMissingInput(t)
  BY <1>8 DEF StopForMissingInput
<1>9. CASE RunStep(t)
  BY <1>9 DEF RunStep
<1>10. CASE Validate(t)
  BY <1>10 DEF Validate
<1>11. CASE Register(t)
  BY <1>11 DEF Register, CountAfterRegister
<1>12. CASE Fail(t)
  BY <1>12 DEF Fail, Return
<1>13. CASE Finalize(t)
  BY <1>13 DEF Finalize
<1>14. CASE Deliver(t)
  BY <1>14 DEF Deliver, Return
<1>15. QED
  BY <1>1, <1>2, <1>3, <1>4, <1>5, <1>6, <1>7, <1>8, <1>9, <1>10, <1>11, <1>12, <1>13, <1>14
     DEF Proceed

LEMMA StartMoves ==
  ASSUME TypeOK, NEW t \in Turns, Start(t)
  PROVE  /\ attemptCount' = 0 /\ pc[t] = "idle" /\ pc'[t] = "preflight"
         /\ UNCHANGED <<reply, steps, results, verdict, plans, registered, audits, writers>>
         /\ \A u \in Turns \ {t} :
              pc'[u] = pc[u] /\ resets'[u] = IF Active(u) THEN resets[u] + 1 ELSE resets[u]
BY DEF TypeOK, Start, Goto, Disturb, ResetCount

-----------------------------------------------------------------------------
(* How many plans a turn nobody reset has made: one more than it has       *)
(* registered attempts while an attempt runs; as many when it is about to  *)
(* ask for the next, and then the count it looks at is not zero.           *)
PlansKept(t) ==
  /\ pc[t] \in {"preflight", "planning"} => registered[t] = 0
  /\ resets[t] = 0 =>
       /\ pc[t] \in {"step", "validate", "register"} => plans[t] > registered[t]
       /\ pc[t] \in {"loop", "replanning"} => plans[t] >= registered[t]
       /\ pc[t] = "loop" => plans[t] > registered[t] \/ attemptCount > 0

Planning == \A t \in Turns : PlansKept(t)

LEMMA PlanningProceeds ==
  ASSUME TypeOK, NEW t \in Turns, PlansKept(t), Proceed(t) PROVE PlansKept(t)'
<1>0. attemptCount \in Nat /\ plans[t] \in Nat /\ registered[t] \in Nat
  BY DEF TypeOK
<1> USE DEF TypeOK, shared, locals, history, Goto, Conclude, PlansKept
<1>1. CASE PreflightBlocks(t)
  BY <1>1 DEF PreflightBlocks
<1>2. CASE PreflightPasses(t)
  BY <1>2 DEF PreflightPasses
<1>3. CASE MakePlan(t)
  BY <1>0, <1>3 DEF MakePlan
<1>4. CASE Investigate(t)
  BY <1>4 DEF Investigate
<1>5. CASE Diagnose(t)
  BY <1>5 DEF Diagnose
<1>6. CASE BeginAttempt(t)
  BY <1>0, <1>6 DEF BeginAttempt
<1>7. CASE Replan(t)
  BY <1>0, <1>7 DEF Replan
<1>8. CASE StopForMissingInput(t)
  BY <1>8 DEF StopForMissingInput
<1>9. CASE RunStep(t)
  BY <1>9 DEF RunStep
<1>10. CASE Validate(t)
  BY <1>10 DEF Validate
<1>11. CASE Register(t)
  BY <1>0, <1>11 DEF Register, CountAfterRegister
<1>12. CASE Fail(t)
  BY <1>12 DEF Fail, Return
<1>13. CASE Finalize(t)
  BY <1>13 DEF Finalize
<1>14. CASE Deliver(t)
  BY <1>14 DEF Deliver, Return
<1>15. QED
  BY <1>1, <1>2, <1>3, <1>4, <1>5, <1>6, <1>7, <1>8, <1>9, <1>10, <1>11, <1>12, <1>13, <1>14
     DEF Proceed

LEMMA PlanningStarts ==
  ASSUME TypeOK, Counting, Planning, NEW t \in Turns, Start(t) PROVE Planning'
<1> SUFFICES ASSUME NEW u \in Turns PROVE PlansKept(u)'
  BY DEF Planning
<1>1. PlansKept(u) /\ resets[u] \in Nat
  BY DEF Planning, TypeOK
<1>2. CASE u = t
  BY <1>2, StartMoves DEF PlansKept, Counting, IdleTurnsCountNothing
<1>3. CASE u # t /\ Active(u)
  BY <1>1, <1>3, StartMoves DEF PlansKept
<1>4. CASE u # t /\ ~Active(u)
  BY <1>1, <1>4, StartMoves DEF PlansKept, Active
<1>5. QED
  BY <1>2, <1>3, <1>4

(* Every attempt after a rejected answer runs a plan made after that       *)
(* rejection, unless a new turn reset the count (FreshPlanPerAttempt).     *)
THEOREM PlansAreFresh == Spec => []FreshPlanPerAttempt
<1>1. Init => Planning
  BY DEF Init, Planning, PlansKept
<1>2. TypeOK /\ Counting /\ Planning /\ [Next]_vars => Planning'
  <2> SUFFICES ASSUME TypeOK, Counting, Planning, [Next]_vars PROVE Planning'
    OBVIOUS
  <2>1. ASSUME NEW t \in Turns, Proceed(t) PROVE Planning'
    <3> SUFFICES ASSUME NEW u \in Turns PROVE PlansKept(u)'
      BY DEF Planning
    <3>1. PlansKept(u) /\ attemptCount \in Nat
      BY DEF Planning, TypeOK
    <3>2. QED
      BY <2>1, <3>1, OthersStay, PlanningProceeds DEF PlansKept
  <2>2. CASE UNCHANGED vars
    BY <2>2 DEF vars, shared, locals, history, Planning, PlansKept
  <2>3. QED
    BY <2>1, <2>2, PlanningStarts DEF Next, AllAnswered
<1>3. Planning => FreshPlanPerAttempt
  BY DEF Planning, PlansKept, FreshPlanPerAttempt
<1>4. QED
  BY <1>1, <1>2, <1>3, TypeCorrect, CountingInvariant, PTL DEF Spec

-----------------------------------------------------------------------------
(* No step of the attempt asked for confirmation, which would have ended   *)
(* the turn.                                                               *)
NoneAsked(res) == \A i \in DOMAIN res : res[i] # "needs_confirmation"

Faithful(t) ==
  /\ verdict[t] = "aligned"
  /\ Len(results[t]) = Len(steps[t])
  /\ (reply[t].status = "success") <=>
       \A i \in DOMAIN results[t] : results[t][i] \in {"success", "partial_success"}

(* An attempt has a plan and a result for each step that has run; when it  *)
(* is judged, every step has run; and an answer tells what they did.       *)
AttemptKept(t) ==
  /\ pc[t] \in {"loop", "replanning"} => steps[t] \in StepPlans
  /\ pc[t] = "replanning" => results[t] = <<>>
  /\ pc[t] = "step" =>
       steps[t] \in StepPlans /\ Len(results[t]) < Len(steps[t]) /\ NoneAsked(results[t])
  /\ pc[t] \in {"validate", "register"} =>
       steps[t] \in StepPlans /\ Len(results[t]) = Len(steps[t]) /\ NoneAsked(results[t])
  /\ pc[t] \in {"finalize", "deliver"} /\ reply[t].branch = "respond" => Faithful(t)

Answering == \A t \in Turns : AttemptKept(t)

LEMMA PlanHasSteps ==
  \A plan \in StepPlans : Len(plan) \in Nat /\ Len(plan) > 0 /\ Len(<<>>) = 0
BY DEF Steps

LEMMA SummaryTells ==
  ASSUME NEW res \in Seq(Statuses), NoneAsked(res)
  PROVE  (SummaryStatus(res) = "success") <=>
           \A i \in DOMAIN res : res[i] \in {"success", "partial_success"}
<1>1. \A i \in DOMAIN res : res[i] \in Statuses
  OBVIOUS
<1>2. \A i \in DOMAIN res : res[i] # "error" <=> res[i] \in {"success", "partial_success"}
  BY <1>1 DEF NoneAsked, Statuses
<1>3. QED
  BY <1>2 DEF SummaryStatus

LEMMA ResultAppended ==
  ASSUME NEW res \in Seq(Statuses), NEW status \in Statuses, NoneAsked(res),
         status # "needs_confirmation"
  PROVE  NoneAsked(Append(res, status)) /\ Len(Append(res, status)) = Len(res) + 1
BY DEF NoneAsked

LEMMA AttemptRunsStep ==
  ASSUME TypeOK, NEW t \in Turns, AttemptKept(t), RunStep(t) PROVE AttemptKept(t)'
<1>1. PICK status \in Statuses :
        /\ results' = [results EXCEPT ![t] = Append(@, status)]
        /\ IF status = "needs_confirmation"
             THEN Conclude(t, "needs_confirmation", "confirmation")
             ELSE /\ Goto(t, IF Len(results[t]) + 1 = Len(steps[t]) THEN "validate" ELSE "step")
                  /\ UNCHANGED reply
  BY DEF RunStep, ToolOutcomes
<1>2. /\ pc[t] = "step" /\ UNCHANGED steps /\ results[t] \in Seq(Statuses)
      /\ steps[t] \in StepPlans /\ Len(results[t]) < Len(steps[t]) /\ NoneAsked(results[t])
  BY DEF TypeOK, RunStep, AttemptKept
<1>3. CASE status = "needs_confirmation"
  BY <1>1, <1>3 DEF TypeOK, Conclude, Goto, AttemptKept
<1>4. CASE status # "needs_confirmation"
  <2>1. /\ pc'[t] = IF Len(results[t]) + 1 = Len(steps[t]) THEN "validate" ELSE "step"
        /\ results'[t] = Append(results[t], status)
    BY <1>1, <1>4 DEF TypeOK, Goto
  <2>2. /\ NoneAsked(results'[t]) /\ Len(results'[t]) = Len(results[t]) + 1
        /\ Len(results[t]) \in Nat /\ Len(steps[t]) \in Nat
    BY <1>2, <1>4, <2>1, ResultAppended, PlanHasSteps
  <2>3. QED
    BY <1>2, <2>1, <2>2 DEF AttemptKept
<1>5. QED
  BY <1>3, <1>4

LEMMA AttemptRegisters ==
  ASSUME TypeOK, NEW t \in Turns, AttemptKept(t), Register(t) PROVE AttemptKept(t)'
<1>1. /\ pc[t] = "register" /\ UNCHANGED <<steps, results, verdict>>
      /\ steps[t] \in StepPlans /\ results[t] \in Seq(Statuses)
      /\ Len(results[t]) = Len(steps[t]) /\ NoneAsked(results[t])
  BY DEF TypeOK, Register, AttemptKept
<1>2. \/ /\ pc'[t] = "finalize" /\ verdict[t] = "aligned"
         /\ reply'[t] = [status |-> SummaryStatus(results[t]), branch |-> "respond"]
      \/ pc'[t] = "finalize" /\ reply'[t].branch = "abort"
      \/ pc'[t] = "loop"
  BY DEF TypeOK, Register, NextAction, Conclude, Goto, Verdicts
<1>3. QED
  BY <1>1, <1>2, SummaryTells DEF AttemptKept, Faithful

LEMMA AttemptProceeds ==
  ASSUME TypeOK, NEW t \in Turns, AttemptKept(t), Proceed(t) PROVE AttemptKept(t)'
<1> USE DEF TypeOK, shared, locals, history, Goto, Conclude, AttemptKept
<1>1. CASE PreflightBlocks(t)
  BY <1>1 DEF PreflightBlocks
<1>2. CASE PreflightPasses(t)
  BY <1>2 DEF PreflightPasses
<1>3. CASE MakePlan(t)
  BY <1>3 DEF MakePlan
<1>4. CASE Investigate(t)
  BY <1>4 DEF Investigate
<1>5. CASE Diagnose(t)
  BY <1>5 DEF Diagnose
<1>6. CASE BeginAttempt(t)
  BY <1>6, PlanHasSteps DEF BeginAttempt, NoneAsked
<1>7. CASE Replan(t)
  <2>1. pc[t] = "replanning" /\ results[t] = <<>>
    BY <1>7 DEF Replan
  <2>2. QED
    BY <1>7, <2>1, PlanHasSteps DEF Replan, NoneAsked
<1>8. CASE StopForMissingInput(t)
  BY <1>8 DEF StopForMissingInput
<1>9. CASE Validate(t)
  BY <1>9 DEF Validate
<1>10. CASE Fail(t)
  BY <1>10 DEF Fail, Return
<1>11. CASE Finalize(t)
  BY <1>11 DEF Finalize, Faithful
<1>12. CASE Deliver(t)
  BY <1>12 DEF Deliver, Return
<1>13. QED
  BY <1>1, <1>2, <1>3, <1>4, <1>5, <1>6, <1>7, <1>8, <1>9, <1>10, <1>11, <1>12,
     AttemptRunsStep, AttemptRegisters DEF Proceed

(* What the user is told is what the last attempt did                      *)
(* (AnswerReflectsAttempt).                                                *)
THEOREM AnswersReflectAttempts == Spec => []AnswerReflectsAttempt
<1>1. Init => Answering
  BY DEF Init, Answering, AttemptKept
<1>2. TypeOK /\ Answering /\ [Next]_vars => Answering'
  <2> SUFFICES ASSUME TypeOK, Answering, [Next]_vars, NEW u \in Turns PROVE AttemptKept(u)'
    BY DEF Answering
  <2>1. AttemptKept(u)
    BY DEF Answering
  <2>2. ASSUME NEW t \in Turns, Proceed(t) PROVE AttemptKept(u)'
    BY <2>1, <2>2, OthersStay, AttemptProceeds DEF AttemptKept, Faithful
  <2>3. ASSUME NEW t \in Turns, Start(t) PROVE AttemptKept(u)'
    BY <2>1, <2>3, StartMoves DEF AttemptKept, Faithful
  <2>4. CASE UNCHANGED vars
    BY <2>1, <2>4 DEF vars, shared, locals, history, AttemptKept, Faithful
  <2>5. QED
    BY <2>2, <2>3, <2>4 DEF Next, AllAnswered
<1>3. Answering => AnswerReflectsAttempt
  BY DEF Answering, AttemptKept, Faithful, AnswerReflectsAttempt
<1>4. QED
  BY <1>1, <1>2, <1>3, TypeCorrect, PTL DEF Spec

-----------------------------------------------------------------------------
(* A turn that answered, whatever it wrote, has its audit record.          *)
AnswersAudited ==
  \A t \in Turns :
    pc[t] = "done" /\ reply[t].branch = "respond"
      => [turn |-> t, status |-> reply[t].status] \in audits

(* A turn is over once it was delivered, with an audit record if it had    *)
(* answered, or once it failed.                                            *)
LEMMA TurnsEnd ==
  ASSUME TypeOK, NEW t \in Turns, Proceed(t), pc'[t] = "done", reply'[t].branch = "respond"
  PROVE  [turn |-> t, status |-> reply'[t].status] \in audits'
<1>1. Fail(t) \/ Deliver(t)
  BY DEF TypeOK, Proceed, PreflightBlocks, PreflightPasses, MakePlan, Investigate, Diagnose,
         BeginAttempt, Replan, StopForMissingInput, RunStep, Validate, Register, Finalize,
         Goto, Conclude
<1>2. ~Fail(t)
  BY DEF TypeOK, Fail
<1>3. Deliver(t)
  BY <1>1, <1>2
<1>4. QED
  BY <1>3 DEF TypeOK, Deliver, AuditedBranches

LEMMA AuditsGrow ==
  ASSUME NEW t \in Turns, Proceed(t) PROVE audits \subseteq audits'
BY DEF Proceed, PreflightBlocks, PreflightPasses, MakePlan, Investigate, Diagnose,
       BeginAttempt, Replan, StopForMissingInput, RunStep, Validate, Register, Fail, Finalize,
       Deliver, shared

(* An answered turn that applied a high-risk operation has an audit record *)
(* with the status the user saw (AnsweredWritesAudited).                   *)
THEOREM AnsweredWritesAreAudited == Spec => []AnsweredWritesAudited
<1>1. Init => AnswersAudited
  BY DEF Init, AnswersAudited
<1>2. TypeOK /\ AnswersAudited /\ [Next]_vars => AnswersAudited'
  <2> SUFFICES ASSUME TypeOK, AnswersAudited, [Next]_vars, NEW u \in Turns,
                      pc'[u] = "done", reply'[u].branch = "respond"
      PROVE [turn |-> u, status |-> reply'[u].status] \in audits'
    BY DEF AnswersAudited
  <2>1. ASSUME NEW t \in Turns, Proceed(t), u # t
        PROVE [turn |-> u, status |-> reply'[u].status] \in audits'
    BY <2>1, OthersStay, AuditsGrow DEF AnswersAudited
  <2>2. ASSUME Proceed(u) PROVE [turn |-> u, status |-> reply'[u].status] \in audits'
    BY <2>2, TurnsEnd
  <2>3. ASSUME NEW t \in Turns, Start(t)
        PROVE [turn |-> u, status |-> reply'[u].status] \in audits'
    BY <2>3, StartMoves DEF AnswersAudited
  <2>4. CASE UNCHANGED vars
    BY <2>4 DEF vars, shared, locals, AnswersAudited
  <2>5. QED
    BY <2>1, <2>2, <2>3, <2>4 DEF Next, AllAnswered
<1>3. AnswersAudited => AnsweredWritesAudited
  BY DEF AnswersAudited, AnsweredWritesAudited
<1>4. QED
  BY <1>1, <1>2, <1>3, TypeCorrect, PTL DEF Spec

=============================================================================
