------------------------- MODULE OrchestratorTraffic -------------------------
(***************************************************************************)
(* The same turns under traffic that never ends: a thread that has         *)
(* answered goes back to the pool and takes the next request.              *)
(***************************************************************************)
EXTENDS Orchestrator

(* chat_api returned; the thread serves another message.                   *)
TakeNextRequest(t) ==
  /\ pc[t] = "done"
  /\ Goto(t, "idle")
  /\ reply' = [reply EXCEPT ![t] = NoReply]
  /\ UNCHANGED <<shared, request, steps, results, verdict, score, history>>

TrafficNext == \E t \in Turns : Start(t) \/ Proceed(t) \/ TakeNextRequest(t)

(* No history variable, metric or audit record is read by an action: two   *)
(* states that agree on the rest have the same future.                     *)
Future == <<attemptCount, pc, request, steps, results, verdict, reply>>

TrafficSpec ==
  /\ Init
  /\ [][TrafficNext]_vars
  /\ \A t \in Turns : WF_vars(Proceed(t))

(* test_orchestration_stops_after_max_retry: a turn whose answers are all  *)
(* rejected stops after the maximum number of attempts.                    *)
StopsAfterMaxRetry == \A t \in Turns : pc[t] # "idle" ~> pc[t] = "done"

=============================================================================
