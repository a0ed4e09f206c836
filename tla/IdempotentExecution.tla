------------------------- MODULE IdempotentExecution -------------------------
(***************************************************************************)
(* What an agent promises to the peers that send it high-risk operations   *)
(* under an idempotency key: a key is executed once, and every answer      *)
(* under the key is that execution's answer, or the refusal of a request   *)
(* that differs from the one executed.  The promise is void for a tainted  *)
(* key, one that was used twice at the same time or before a restart:      *)
(* such a key may be executed again.                                       *)
(***************************************************************************)
CONSTANTS
  Keys,           \* idempotency keys
  Fingerprints,   \* what a request asks for
  Responses,      \* what an execution can answer
  Conflict        \* the refusal

VARIABLES
  ledger,         \* the executions so far
  answers,        \* what callers were told
  tainted         \* the keys the promise no longer covers

vars == <<ledger, answers, tainted>>

Entry == [key : Keys, fingerprint : Fingerprints, response : Responses]

Init == ledger = {} /\ answers = {} /\ tainted = {}

Execute(e) ==
  /\ e.key \notin tainted => \A old \in ledger : old.key # e.key
  /\ ledger' = ledger \union {e}
  /\ UNCHANGED <<answers, tainted>>

Answer(e) ==
  /\ e \in ledger
  /\ answers' = answers \union {e}
  /\ UNCHANGED <<ledger, tainted>>

Refuse(key, fingerprint) ==
  /\ \E e \in ledger : e.key = key /\ e.fingerprint # fingerprint
  /\ answers' = answers \union {[key |-> key, fingerprint |-> fingerprint,
                                 response |-> Conflict]}
  /\ UNCHANGED <<ledger, tainted>>

Taint ==
  /\ \E more \in SUBSET Keys : tainted' = tainted \union more
  /\ UNCHANGED <<ledger, answers>>

Next ==
  \/ \E e \in Entry : Execute(e) \/ Answer(e)
  \/ \E key \in Keys, fingerprint \in Fingerprints : Refuse(key, fingerprint)
  \/ Taint

Spec == Init /\ [][Next]_vars

=============================================================================
