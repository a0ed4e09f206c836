---------------------------- MODULE MCA2AService ----------------------------
(***************************************************************************)
(* Instances of A2AService for TLC.  Two requests differ under one key, so *)
(* that three calls include a retry and a conflict at once; one reads      *)
(* without a key and names no agent; each of the others has one thing      *)
(* wrong.                                                                  *)
(***************************************************************************)
EXTENDS A2AService

Good ==
  [complete |-> TRUE, wellFormed |-> TRUE, hopCount |-> MaxHops, visitsSelf |-> FALSE,
   target |-> "self", trusted |-> TRUE, operation |-> "create_user", padded |-> FALSE,
   key |-> "k1", fingerprint |-> "f1"]

Admissible ==
  { Good,
    [Good EXCEPT !.fingerprint = "f2", !.hopCount = 0],
    [Good EXCEPT !.operation = "get_user", !.key = NoKey, !.target = "blank"] }

Faulty ==
  { [Good EXCEPT !.complete = FALSE],
    [Good EXCEPT !.wellFormed = FALSE],
    [Good EXCEPT !.hopCount = MaxHops + 1],
    [Good EXCEPT !.visitsSelf = TRUE],
    [Good EXCEPT !.target = "other"],
    [Good EXCEPT !.trusted = FALSE],
    [Good EXCEPT !.operation = "unknown_tool"],
    [Good EXCEPT !.key = NoKey],
    [Good EXCEPT !.key = NoKey, !.padded = TRUE] }

MCRequests == Admissible \union Faulty

=============================================================================
