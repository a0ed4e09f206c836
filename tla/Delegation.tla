----------------------------- MODULE Delegation -----------------------------
(***************************************************************************)
(* The sending side of agent-to-agent execution composed with the          *)
(* receiving one: A2ACollaborationService.delegate_to_peer and             *)
(* A2APeerClient.execute_delegation of one agent, in a thread per          *)
(* delegation, and the A2AService of the peer it selects.  Between them is *)
(* HTTP: a post may reach the peer late or never, and its answer may be    *)
(* lost; the client then posts the same payload again.                     *)
(***************************************************************************)
EXTENDS Naturals, FiniteSets

CONSTANTS
  Delegations,    \* calls of delegate_to_peer, a thread each
  Inputs,         \* what they are called with
  Agents,         \* agent ids
  Self,           \* settings.a2a_agent_id of the delegating agent
  Target,         \* the peer that is modelled
  Registry,       \* peer_client.list_peers()
  SelfTrusted,    \* whether the peer trusts Self and its token
  MaxRetries,     \* max_retries of execute_delegation
  (*************************** the peer's own ******************************)
  Keys, NoKey, Fingerprints, HighRiskTools, Operations,
  MaxHops, A2AEnabled, MaxRestarts, None

Posts == Delegations \X (1..MaxRetries + 1)

InputType ==
  [objective   : BOOLEAN,          \* there is one
   operation   : STRING,           \* requested_operation, empty when missing
   wellFormed  : BOOLEAN,          \* int(hop_count) does not raise
   hopCount    : Nat,
   visited     : SUBSET Agents,
   key         : Keys \union {NoKey},
   fingerprint : Fingerprints]

PeerType ==
  [id : Agents, trusted : BOOLEAN, operations : SUBSET STRING, priority : Nat,
   hasUrl : BOOLEAN]

VARIABLES
  (***************************** the sender ********************************)
  place,      \* where in delegate_to_peer each delegation is
  input,      \* its arguments
  posts,      \* how often it has posted its payload
  told,       \* what its caller was told
  (************************** the peer's service ***************************)
  records, audits, pc, request, result, reply, restarts,
  executions, contended, forgotten

senderVars == <<place, input, posts, told>>
peerVars   == <<records, audits, pc, request, result, reply, restarts,
                executions, contended, forgotten>>
vars       == <<senderVars, peerVars>>

-----------------------------------------------------------------------------
(* select_peer_for_operation: of the trusted peers that have not been      *)
(* visited and support the operation, those of the first priority; one     *)
(* such peer is selected, several are ambiguous.                           *)
CandidatesVisitedToo(i) ==
  {p \in Registry : p.trusted /\ p.id # Self /\ i.operation \in p.operations}

Candidates(i) ==
  {p \in Registry : /\ p.trusted
                    /\ p.id \notin i.visited \union {Self}
                    /\ i.operation \in p.operations}

FirstChoice(i) == {p \in Candidates(i) : \A q \in Candidates(i) : p.priority <= q.priority}

Complete(i)  == i.objective /\ i.operation # ""
Ambiguous(i) == Complete(i) /\ Cardinality(FirstChoice(i)) > 1
Sendable(i)  == /\ Complete(i) /\ i.wellFormed
                /\ \E p \in Registry : FirstChoice(i) = {p} /\ p.hasUrl

(* The request_payload; the hop is counted, the operation is stripped.     *)
Payload(i) ==
  [complete |-> TRUE, wellFormed |-> TRUE, hopCount |-> i.hopCount + 1,
   visitsSelf |-> Target \in i.visited \union {Self}, target |-> "self",
   trusted |-> SelfTrusted, operation |-> i.operation, padded |-> FALSE,
   key |-> i.key, fingerprint |-> i.fingerprint]

Payloads == {Payload(i) : i \in {j \in Inputs : Sendable(j)}}

Peer == INSTANCE A2AService WITH Calls <- Posts, Requests <- Payloads

ASSUME DelegationAssumption ==
  /\ Inputs \subseteq InputType
  /\ Self \in Agents /\ Target \in Agents \ {Self}
  /\ SelfTrusted \in BOOLEAN
  /\ MaxRetries \in Nat
  /\ None \notin Inputs
  /\ \A p, q \in Registry : p.id = q.id => p = q
  /\ \A i \in Inputs : Sendable(i) => \A p \in FirstChoice(i) : p.id = Target

(* What A2AAssumption asks of the peer; and the fingerprint of a payload   *)
(* is taken over the operation, among other things.                        *)
ASSUME PeerAssumption ==
  /\ NoKey \notin Keys
  /\ MaxHops \in Nat
  /\ A2AEnabled \in BOOLEAN
  /\ MaxRestarts \in Nat
  /\ None \notin Peer!Record \union Peer!Responses \union Peer!Refusals \union Payloads
  /\ \A r, s \in Payloads : r.fingerprint = s.fingerprint => r.operation = s.operation

Outcome == [status : Peer!ToolStatuses,
            cause  : {"not sent", "peer", "tool", "unreachable"} \union Peer!Codes]

CurrentPost(d) == <<d, posts[d]>>
Sent(post)     == post[2] <= posts[post[1]]

-----------------------------------------------------------------------------
Init ==
  /\ place = [d \in Delegations |-> "idle"]
  /\ input = [d \in Delegations |-> None]
  /\ posts = [d \in Delegations |-> 0]
  /\ told = [d \in Delegations |-> None]
  /\ Peer!Init

Tell(d, status, cause) ==
  /\ told' = [told EXCEPT ![d] = [status |-> status, cause |-> cause]]
  /\ place' = [place EXCEPT ![d] = "told"]

(* Missing inputs, no or too many candidates, a hop count that is no       *)
(* number, a peer without an address.                                      *)
Decline(d) ==
  /\ place[d] = "idle"
  /\ \E i \in Inputs :
       /\ ~Sendable(i)
       /\ input' = [input EXCEPT ![d] = i]
       /\ Tell(d, IF Ambiguous(i) THEN "needs_confirmation" ELSE "error", "not sent")
  /\ UNCHANGED <<posts, peerVars>>

Begin(d) ==
  /\ place[d] = "idle"
  /\ \E i \in Inputs :
       /\ Sendable(i)
       /\ input' = [input EXCEPT ![d] = i]
  /\ place' = [place EXCEPT ![d] = "post"]
  /\ UNCHANGED <<posts, told, peerVars>>

Post(d) ==
  /\ place[d] = "post"
  /\ posts' = [posts EXCEPT ![d] = @ + 1]
  /\ place' = [place EXCEPT ![d] = "wait"]
  /\ UNCHANGED <<input, told, peerVars>>

(* The answer to the current post arrives.  Every error has a status of    *)
(* 400 or more, which the client raises and does not retry.                *)
ReceiveAsSuccess(d) ==
  LET post == CurrentPost(d) IN
  /\ place[d] = "wait"
  /\ pc[post] = "done"
  /\ \/ /\ reply[post] \in Peer!Responses
        /\ Tell(d, IF reply[post].status = "error" THEN "error" ELSE "success",
                IF reply[post].status = "error" THEN "tool" ELSE "peer")
     \/ /\ reply[post] \in Peer!Refusals
        /\ Tell(d, "error", reply[post].refused)
  /\ UNCHANGED <<input, posts, peerVars>>

Receive(d) ==
  LET post == CurrentPost(d) IN
  /\ place[d] = "wait"
  /\ pc[post] = "done"
  /\ \/ /\ reply[post] \in Peer!Responses
        /\ Tell(d, reply[post].status, IF reply[post].status = "error" THEN "tool" ELSE "peer")
     \/ /\ reply[post] \in Peer!Refusals
        /\ Tell(d, "error", reply[post].refused)
  /\ UNCHANGED <<input, posts, peerVars>>

(* The client gives up on the current post: its timeout passed, the        *)
(* connection failed, or the answer was 504.                               *)
LoseOneMore(d) ==
  /\ place[d] = "wait"
  /\ IF posts[d] > MaxRetries + 1
       THEN Tell(d, "error", "unreachable")
       ELSE place' = [place EXCEPT ![d] = "post"] /\ UNCHANGED told
  /\ UNCHANGED <<input, posts, peerVars>>

LoseAndWait(d) ==
  /\ place[d] = "wait"
  /\ IF posts[d] > MaxRetries
       THEN Tell(d, "error", "unreachable")
       ELSE UNCHANGED <<place, told>>
  /\ UNCHANGED <<input, posts, peerVars>>

Lose(d) ==
  /\ place[d] = "wait"
  /\ IF posts[d] > MaxRetries
       THEN Tell(d, "error", "unreachable")
       ELSE place' = [place EXCEPT ![d] = "post"] /\ UNCHANGED told
  /\ UNCHANGED <<input, posts, peerVars>>

(* The peer takes a post that was sent, now or after the client gave up on *)
(* it, and serves it.                                                      *)
Arrive(post) ==
  /\ Sent(post)
  /\ Peer!Admit(post) \/ Peer!Reject(post)
  /\ request'[post] = Payload(input[post[1]])
  /\ UNCHANGED senderVars

PeerServes(post) == Peer!Serve(post) /\ UNCHANGED senderVars

PeerRestarts == Peer!Restart /\ UNCHANGED senderVars

AllTold ==
  /\ \A d \in Delegations : place[d] = "told"
  /\ UNCHANGED vars

Proceed(d) == Post(d) \/ Receive(d) \/ Lose(d)

Next ==
  \/ \E d \in Delegations : Decline(d) \/ Begin(d) \/ Proceed(d)
  \/ \E post \in Posts : Arrive(post) \/ PeerServes(post)
  \/ PeerRestarts
  \/ AllTold

Spec == Init /\ [][Next]_vars

(* The threads of the delegating agent keep running; nothing is assumed of *)
(* the network or the peer.                                                *)
FairSpec == Spec /\ \A d \in Delegations : WF_vars(Proceed(d))

-----------------------------------------------------------------------------
(* The values of the sender's variables; the peer's are well typed too.    *)
TypeOK ==
  /\ place \in [Delegations -> {"idle", "post", "wait", "told"}]
  /\ input \in [Delegations -> Inputs \union {None}]
  /\ posts \in [Delegations -> 0..MaxRetries + 1]
  /\ told \in [Delegations -> Outcome \union {None}]
  /\ Peer!TypeOK

(* A delegation reported as done, wholly or in part, was executed by the   *)
(* peer with that outcome and for the very inputs of this delegation, also *)
(* when the answer is the replay of another call's                         *)
(* (a2a_peer_client.py:137-159, a2a_collaboration_service.py:356-362,      *)
(* 474-505).                                                               *)
SuccessWasExecuted ==
  \A d \in Delegations :
    told[d] # None /\ told[d].cause = "peer" =>
      \E e \in executions :
        /\ e.request.operation = input[d].operation
        /\ e.request.fingerprint = input[d].fingerprint
        /\ e.response.status = told[d].status

(* A delegation the peer refused was not executed by any of its posts, not *)
(* even by one that arrives later, unless its key was used by two calls at *)
(* once or before a restart: a refusal may be corrected and tried again    *)
(* (a2a_collaboration_service.py:131-189, a2a_peer_client.py:151-158).     *)
RefusedNotExecuted ==
  \A d \in Delegations :
    told[d] # None /\ told[d].cause \in Peer!Codes =>
      \/ \A e \in executions : e.call[1] # d
      \/ input[d].key \in contended \union forgotten

(* The agents a delegation has passed are not asked again, so the peer     *)
(* never finds itself among them                                           *)
(* (a2a_collaboration_service.py:256-263, a2a_peer_client.py:45-52).       *)
NoLoopReachesPeer ==
  \A post \in Posts : reply[post] # Peer!Refusal("loop_detected")

(* A delegation that was begun is answered, whatever becomes of its posts  *)
(* and of the peer (a2a_peer_client.py:139-179).                           *)
Reported == \A d \in Delegations : place[d] # "idle" ~> place[d] = "told"

(* test_a2a_idempotency_prevents_duplicate_high_risk_execution: a second   *)
(* request under a key gets the answer of the first and executes nothing,  *)
(* so a delegation that is posted again is executed once                   *)
(* (a2a_collaboration_service.py:474-526, a2a_peer_client.py:139-179).     *)
RetryExecutesOnce ==
  \A e, f \in executions :
    /\ Peer!HighRisk(e.request) /\ Peer!HighRisk(f.request)
    /\ e.request.key = f.request.key
    => e = f

=============================================================================
