--------------------------- MODULE RetryController ---------------------------
(***************************************************************************)
(* The arithmetic of application/retry_controller.py: how the number of    *)
(* registered attempts and the verdict of the semantic validator decide    *)
(* what the orchestrator does next.  The controller's two linked_* fields  *)
(* are written by the code and read by none of it; they are not modelled.  *)
(***************************************************************************)
EXTENDS Naturals

CONSTANT MaxAttempts    \* RetryController.max_attempts

ASSUME MaxAttemptsAssumption == MaxAttempts \in Nat \ {0}

Verdicts == {"aligned", "not_aligned"}
NextActions == {"respond", "abort", "replan"}

ResetCount == 0

CountAfterRegister(count) == count + 1

(* What register() returns once it has incremented the count.              *)
NextActionEarlyAbort(verdict, count) ==
  IF verdict = "aligned" THEN "respond"
  ELSE IF count + 1 >= MaxAttempts THEN "abort" ELSE "replan"

NextActionLateAbort(verdict, count) ==
  IF verdict = "aligned" THEN "respond"
  ELSE IF count > MaxAttempts THEN "abort" ELSE "replan"

NextAction(verdict, count) ==
  IF verdict = "aligned" THEN "respond"
  ELSE IF count >= MaxAttempts THEN "abort" ELSE "replan"

=============================================================================
