-------------------------- MODULE Delegation_proofs --------------------------
(***************************************************************************)
(* What a delegating agent is told, for any delegations, registry of       *)
(* peers, number of retries and restarts of the peer.  The peer is the     *)
(* service A2AService_proofs is about, so what is proved there holds of    *)
(* it; that its calls are the posts of the delegations is shown here.      *)
(***************************************************************************)
EXTENDS Delegation, TLAPS

Service == INSTANCE A2AService_proofs WITH Calls <- Posts, Requests <- Payloads

-----------------------------------------------------------------------------
(**************************** one and the same peer ************************)
LEMMA SameSets ==
  /\ Peer!RequestType = Service!RequestType
  /\ Peer!Statuses = Service!Statuses /\ Peer!ToolStatuses = Service!ToolStatuses
  /\ Peer!Responses = Service!Responses /\ Peer!Codes = Service!Codes
  /\ Peer!Refusals = Service!Refusals /\ Peer!Record = Service!Record
  /\ \A code : Peer!Refusal(code) = Service!Refusal(code)
BY DEF Peer!RequestType, Service!RequestType, Peer!Targets, Service!Targets, Peer!Statuses,
       Service!Statuses, Peer!ToolStatuses, Service!ToolStatuses, Peer!Responses,
       Service!Responses, Peer!Codes, Service!Codes, Peer!Refusals, Service!Refusals,
       Peer!Record, Service!Record, Peer!Refusal, Service!Refusal

LEMMA SameTypes == Peer!TypeOK <=> Service!TypeOK
BY SameSets DEF Peer!TypeOK, Service!TypeOK, Peer!Locations, Service!Locations,
   Peer!Executions, Service!Executions

LEMMA SameInit == Peer!Init <=> Service!Init
BY DEF Peer!Init, Service!Init

LEMMA SameRejection == \A r : Peer!Rejection(r) = Service!Rejection(r)
BY DEF Peer!Rejection, Service!Rejection, Peer!Violation, Service!Violation, Peer!KeyMissed,
       Service!KeyMissed, Peer!HighRisk, Service!HighRisk

LEMMA SameArrival ==
  ASSUME NEW post
  PROVE  /\ Peer!Admit(post) <=> Service!Admit(post)
         /\ Peer!Reject(post) <=> Service!Reject(post)
BY SameRejection, SameSets DEF Peer!Admit, Service!Admit, Peer!Reject, Service!Reject,
   Peer!Return, Service!Return, Peer!Goto, Service!Goto, Peer!history, Service!history

LEMMA SameService ==
  ASSUME NEW post
  PROVE  Peer!Serve(post) <=> Service!Serve(post)
<1> USE DEF Peer!Return, Service!Return, Peer!Goto, Service!Goto, Peer!history, Service!history,
            Peer!locals, Service!locals, Peer!HighRisk, Service!HighRisk
<1>1. Peer!LookupMiss(post) <=> Service!LookupMiss(post)
  BY DEF Peer!LookupMiss, Service!LookupMiss, Peer!Executing, Service!Executing
<1>2. Peer!LookupNoKey(post) <=> Service!LookupNoKey(post)
  BY SameSets DEF Peer!LookupNoKey, Service!LookupNoKey
<1>3. Peer!LookupHit(post) <=> Service!LookupHit(post)
  BY SameSets DEF Peer!LookupHit, Service!LookupHit, Peer!Conflict, Service!Conflict
<1>4. Peer!CallTool(post) <=> Service!CallTool(post)
  BY SameSets DEF Peer!CallTool, Service!CallTool, Peer!ResponseStatus, Service!ResponseStatus,
     Peer!Execution, Service!Execution
<1>5. Peer!Save(post) <=> Service!Save(post)
  BY DEF Peer!Save, Service!Save
<1>6. Peer!AuditAndReturn(post) <=> Service!AuditAndReturn(post)
  BY DEF Peer!AuditAndReturn, Service!AuditAndReturn
<1> QED
  BY <1>1, <1>2, <1>3, <1>4, <1>5, <1>6 DEF Peer!Serve, Service!Serve

LEMMA SameRestart == Peer!Restart <=> Service!Restart
BY DEF Peer!Restart, Service!Restart, Peer!locals, Service!locals, Peer!HighRisk, Service!HighRisk

-----------------------------------------------------------------------------
(* The constants of the peer are as A2AService wants them.                 *)
LEMMA PayloadFields ==
  ASSUME NEW i \in Inputs
  PROVE  /\ Payload(i) \in Service!RequestType
         /\ Payload(i).operation = i.operation /\ Payload(i).key = i.key
         /\ Payload(i).fingerprint = i.fingerprint
         /\ Payload(i).visitsSelf = (Target \in i.visited \union {Self})
BY DelegationAssumption DEF Payload, InputType, Service!RequestType, Service!Targets

LEMMA ServiceAssumption == Service!A2AAssumption
<1>1. Payloads \subseteq Service!RequestType
  BY PayloadFields DEF Payloads
<1> QED
  BY <1>1, PeerAssumption, SameSets DEF Service!A2AAssumption

(* Each step of a delegation is a step of the peer or none.                *)
LEMMA PeerSteps == Spec => Service!Spec
<1>1. Init => Service!Init
  BY SameInit DEF Init
<1>2. [Next]_vars => [Service!Next]_(Service!vars)
  <2> SUFFICES ASSUME [Next]_vars PROVE [Service!Next]_(Service!vars)
    OBVIOUS
  <2>1. CASE UNCHANGED peerVars
    BY <2>1 DEF peerVars, Service!vars, Service!locals, Service!history
  <2>2. ASSUME NEW post \in Posts, Arrive(post) PROVE Service!Next
    BY <2>2, SameArrival DEF Arrive, Service!Next
  <2>3. ASSUME NEW post \in Posts, PeerServes(post) PROVE Service!Next
    BY <2>3, SameService DEF PeerServes, Service!Next
  <2>4. CASE PeerRestarts
    BY <2>4, SameRestart DEF PeerRestarts, Service!Next
  <2> QED
    BY <2>1, <2>2, <2>3, <2>4 DEF Next, Decline, Begin, Proceed, Post, Receive, Lose, AllTold, vars
<1> QED
  BY <1>1, <1>2, PTL DEF Spec, Service!Spec

PeerInv ==
  /\ Service!TypeOK /\ Service!Checks /\ Service!RepliesExplained
  /\ Service!DuplicateNeedsRaceOrRestart

LEMMA PeerInvariance == Spec => []PeerInv
<1>1. Service!Spec => []Service!TypeOK
  BY ServiceAssumption, Service!TypeCorrect
<1>2. Service!Spec => []Service!Checks
  BY ServiceAssumption, Service!ChecksInvariant
<1>3. Service!Spec => []Service!RepliesExplained
  BY ServiceAssumption, Service!RepliesExplainedInvariant
<1>4. Service!Spec => []Service!DuplicateNeedsRaceOrRestart
  BY ServiceAssumption, Service!DuplicatesNeedRaceOrRestart
<1>5. PeerInv <=> /\ Service!TypeOK /\ Service!Checks /\ Service!RepliesExplained
                  /\ Service!DuplicateNeedsRaceOrRestart
  BY DEF PeerInv
<1> QED
  BY PeerSteps, <1>1, <1>2, <1>3, <1>4, <1>5, PTL

-----------------------------------------------------------------------------
(* The sender: a delegation posts what it was begun with, which is fit to  *)
(* be sent, once more at most than it may retry.                           *)
SenderTyped ==
  /\ place \in [Delegations -> {"idle", "post", "wait", "told"}]
  /\ input \in [Delegations -> Inputs \union {None}]
  /\ posts \in [Delegations -> 0..MaxRetries + 1]
  /\ told \in [Delegations -> Outcome \union {None}]

Sending ==
  \A d \in Delegations :
    /\ place[d] = "idle" => posts[d] = 0
    /\ place[d] = "post" => posts[d] <= MaxRetries
    /\ place[d] # "told" => told[d] = None
    /\ place[d] \in {"post", "wait"} \/ posts[d] > 0 => input[d] \in Inputs /\ Sendable(input[d])
    /\ place[d] = "wait" => posts[d] > 0

(* A post carries the payload of its delegation, whenever it arrives, and  *)
(* what is executed is what was posted.                                    *)
Carries(post, r) ==
  /\ post \in Posts /\ Sent(post)
  /\ r = Payload(input[post[1]])

Carried ==
  /\ \A post \in Posts : pc[post] # "sent" => Carries(post, request[post])
  /\ \A e \in executions : Carries(e.call, e.request)

SenderInv == SenderTyped /\ Sending /\ Carried

LEMMA PostsType ==
  ASSUME NEW post \in Posts
  PROVE  post[1] \in Delegations /\ post[2] \in Nat /\ post[2] > 0
BY DelegationAssumption DEF Posts

LEMMA CurrentPostType ==
  ASSUME SenderTyped, NEW d \in Delegations, posts[d] > 0
  PROVE  CurrentPost(d) \in Posts /\ CurrentPost(d)[1] = d /\ CurrentPost(d)[2] = posts[d]
<1>1. posts[d] \in 1..MaxRetries + 1
  BY DelegationAssumption DEF SenderTyped
<1> QED
  BY <1>1 DEF CurrentPost, Posts

LEMMA OutcomeType ==
  /\ \A status \in Service!ToolStatuses, cause \in {"not sent", "peer", "tool", "unreachable"} :
       [status |-> status, cause |-> cause] \in Outcome
  /\ \A code \in Service!Codes : [status |-> "error", cause |-> code] \in Outcome
  /\ Service!Statuses \subseteq Service!ToolStatuses
BY SameSets DEF Outcome, Service!ToolStatuses, Service!Statuses

LEMMA SenderInit == Init => SenderInv
BY DelegationAssumption
   DEF Init, SenderInv, SenderTyped, Sending, Carried, Peer!Init

(* What is told is told of a delegation that is under way, with an input.  *)
LEMMA TellKeeps ==
  ASSUME SenderInv, NEW d \in Delegations, NEW status, NEW cause, Tell(d, status, cause),
         [status |-> status, cause |-> cause] \in Outcome,
         UNCHANGED <<input, posts, peerVars>>
  PROVE  SenderInv'
<1>1. SenderTyped'
  BY DEF SenderInv, SenderTyped, Tell
<1>2. Sending'
  BY DEF SenderInv, SenderTyped, Sending, Tell
<1>3. Carried'
  BY DEF SenderInv, Carried, Carries, Sent, peerVars
<1> QED
  BY <1>1, <1>2, <1>3 DEF SenderInv

LEMMA ReceiveTells ==
  ASSUME SenderInv, NEW d \in Delegations, Receive(d)
  PROVE  \E status, cause :
           /\ Tell(d, status, cause) /\ [status |-> status, cause |-> cause] \in Outcome
           /\ pc[CurrentPost(d)] = "done" /\ CurrentPost(d) \in Posts
           /\ \/ /\ reply[CurrentPost(d)] \in Service!Responses
                 /\ status = reply[CurrentPost(d)].status
                 /\ cause = IF status = "error" THEN "tool" ELSE "peer"
              \/ \E code \in Service!Codes :
                   /\ reply[CurrentPost(d)] = Service!Refusal(code)
                   /\ status = "error" /\ cause = code
<1> DEFINE post == CurrentPost(d)
<1>1. post \in Posts
  BY CurrentPostType DEF SenderInv, Sending, Receive
<1>2. CASE /\ reply[post] \in Peer!Responses
           /\ Tell(d, reply[post].status, IF reply[post].status = "error" THEN "tool" ELSE "peer")
  <2>1. reply[post].status \in Service!ToolStatuses /\ reply[post] \in Service!Responses
    BY <1>2, SameSets, OutcomeType DEF Service!Responses
  <2> QED
    BY <1>1, <1>2, <2>1, OutcomeType DEF Receive
<1>3. CASE reply[post] \in Peer!Refusals /\ Tell(d, "error", reply[post].refused)
  <2>1. PICK code \in Service!Codes : reply[post] = Service!Refusal(code) /\ reply[post].refused = code
    BY <1>3, SameSets DEF Service!Refusals, Service!Refusal
  <2> QED
    BY <1>1, <1>3, <2>1, OutcomeType DEF Receive
<1> QED
  BY <1>2, <1>3 DEF Receive

(* Nothing of the sender changes while the peer serves.                    *)
LEMMA PeerKeepsSender ==
  ASSUME SenderInv, UNCHANGED senderVars, Carried'
  PROVE  SenderInv'
BY DEF SenderInv, SenderTyped, Sending, senderVars

LEMMA SenderStep == PeerInv /\ SenderInv /\ [Next]_vars => SenderInv'
<1> SUFFICES ASSUME PeerInv, SenderInv, [Next]_vars PROVE SenderInv'
  OBVIOUS
<1>1. ASSUME NEW d \in Delegations, Decline(d) PROVE SenderInv'
  <2>1. PICK i \in Inputs :
          /\ ~Sendable(i) /\ input' = [input EXCEPT ![d] = i]
          /\ Tell(d, IF Ambiguous(i) THEN "needs_confirmation" ELSE "error", "not sent")
    BY <1>1 DEF Decline
  <2>2. place[d] = "idle" /\ posts[d] = 0 /\ UNCHANGED <<posts, peerVars>>
    BY <1>1 DEF Decline, SenderInv, Sending
  <2>3. [status |-> IF Ambiguous(i) THEN "needs_confirmation" ELSE "error", cause |-> "not sent"]
          \in Outcome
    BY OutcomeType DEF Service!ToolStatuses
  <2>4. SenderTyped'
    BY <2>1, <2>2, <2>3 DEF SenderInv, SenderTyped, Tell
  <2>5. Sending'
    <3>1. /\ place' = [place EXCEPT ![d] = "told"]
          /\ \A c \in Delegations \ {d} : told'[c] = told[c] /\ input'[c] = input[c]
      BY <2>1 DEF SenderInv, SenderTyped, Tell
    <3>2. ~(posts'[d] > 0)
      BY <2>2
    <3> QED
      BY <2>2, <3>1, <3>2 DEF SenderInv, SenderTyped, Sending
  <2>6. \A post, r : Carries(post, r) => post[1] # d
    BY <2>2, PostsType DEF Carries, Sent
  <2>7. Carried'
    BY <2>1, <2>2, <2>6, PostsType DEF SenderInv, SenderTyped, Carried, Carries, Sent, peerVars
  <2> QED
    BY <2>4, <2>5, <2>7 DEF SenderInv
<1>2. ASSUME NEW d \in Delegations, Begin(d) PROVE SenderInv'
  <2>1. PICK i \in Inputs : Sendable(i) /\ input' = [input EXCEPT ![d] = i]
    BY <1>2 DEF Begin
  <2>2. /\ place[d] = "idle" /\ posts[d] = 0 /\ UNCHANGED <<posts, told, peerVars>>
        /\ place' = [place EXCEPT ![d] = "post"]
    BY <1>2 DEF Begin, SenderInv, Sending
  <2>3. SenderTyped'
    BY <2>1, <2>2 DEF SenderInv, SenderTyped
  <2>4. Sending'
    BY <2>1, <2>2, DelegationAssumption DEF SenderInv, SenderTyped, Sending
  <2>5. \A post, r : Carries(post, r) => post[1] # d
    BY <2>2, PostsType DEF Carries, Sent
  <2>6. Carried'
    BY <2>1, <2>2, <2>5, PostsType DEF SenderInv, SenderTyped, Carried, Carries, Sent, peerVars
  <2> QED
    BY <2>3, <2>4, <2>6 DEF SenderInv
<1>3. ASSUME NEW d \in Delegations, Post(d) PROVE SenderInv'
  <2>1. /\ place[d] = "post" /\ posts' = [posts EXCEPT ![d] = @ + 1]
        /\ place' = [place EXCEPT ![d] = "wait"] /\ UNCHANGED <<input, told, peerVars>>
    BY <1>3 DEF Post
  <2>2. posts[d] \in 0..MaxRetries
    BY <2>1, DelegationAssumption DEF SenderInv, SenderTyped, Sending
  <2>3. SenderTyped'
    BY <2>1, <2>2, DelegationAssumption DEF SenderInv, SenderTyped
  <2>4. Sending'
    BY <2>1, <2>2, DelegationAssumption DEF SenderInv, SenderTyped, Sending
  <2>5. \A post \in Posts : Sent(post) => Sent(post)'
    BY <2>1, <2>2, PostsType DEF SenderInv, SenderTyped, Sent
  <2>6. Carried'
    BY <2>1, <2>5 DEF SenderInv, Carried, Carries, peerVars
  <2> QED
    BY <2>3, <2>4, <2>6 DEF SenderInv
<1>4. ASSUME NEW d \in Delegations, Receive(d) PROVE SenderInv'
  <2>1. PICK status, cause :
          Tell(d, status, cause) /\ [status |-> status, cause |-> cause] \in Outcome
    BY <1>4, ReceiveTells
  <2> QED
    BY <1>4, <2>1, TellKeeps DEF Receive
<1>5. ASSUME NEW d \in Delegations, Lose(d) PROVE SenderInv'
  <2>1. CASE posts[d] > MaxRetries
    <3>1. [status |-> "error", cause |-> "unreachable"] \in Outcome
      BY OutcomeType DEF Service!ToolStatuses
    <3> QED
      BY <1>5, <2>1, <3>1, TellKeeps DEF Lose
  <2>2. CASE ~(posts[d] > MaxRetries)
    <3>1. /\ place[d] = "wait" /\ place' = [place EXCEPT ![d] = "post"]
          /\ UNCHANGED <<told, input, posts, peerVars>>
      BY <1>5, <2>2 DEF Lose
    <3>2. SenderTyped'
      BY <3>1 DEF SenderInv, SenderTyped
    <3>3. Sending'
      BY <2>2, <3>1, DelegationAssumption DEF SenderInv, SenderTyped, Sending
    <3>4. Carried'
      BY <3>1 DEF SenderInv, Carried, Carries, Sent, peerVars
    <3> QED
      BY <3>2, <3>3, <3>4 DEF SenderInv
  <2> QED
    BY <2>1, <2>2
<1>6. ASSUME NEW post \in Posts, Arrive(post) PROVE SenderInv'
  <2>1. /\ Sent(post) /\ request'[post] = Payload(input[post[1]])
        /\ UNCHANGED <<senderVars, executions>>
        /\ \A other \in Posts \ {post} : pc'[other] = pc[other] /\ request'[other] = request[other]
    BY <1>6 DEF Arrive, Peer!Admit, Peer!Reject, Peer!Goto, Peer!Return, Peer!history,
       PeerInv, Service!TypeOK
  <2>2. Carried'
    BY <2>1 DEF SenderInv, Carried, Carries, Sent, senderVars
  <2> QED
    BY <2>1, <2>2, PeerKeepsSender
<1>7. ASSUME NEW post \in Posts, PeerServes(post) PROVE SenderInv'
  <2>1. /\ UNCHANGED <<senderVars, request>> /\ pc[post] # "sent"
        /\ \A other \in Posts \ {post} : pc'[other] = pc[other]
        /\ \A e \in executions' : e \in executions \/ (e.call = post /\ e.request = request[post])
    BY <1>7 DEF PeerServes, Peer!Serve, Peer!LookupMiss, Peer!LookupNoKey, Peer!LookupHit,
       Peer!CallTool, Peer!Save, Peer!AuditAndReturn, Peer!Goto, Peer!Return, Peer!locals,
       Peer!history, Peer!Execution, PeerInv, Service!TypeOK
  <2>2. Carries(post, request[post])
    BY <2>1 DEF SenderInv, Carried
  <2>3. Carried'
    BY <2>1, <2>2 DEF SenderInv, Carried, Carries, Sent, senderVars
  <2> QED
    BY <2>1, <2>3, PeerKeepsSender
<1>8. CASE PeerRestarts
  <2>1. /\ UNCHANGED <<senderVars, request, executions>>
        /\ \A post \in Posts : pc[post] = "sent" => pc'[post] = "sent"
    BY <1>8 DEF PeerRestarts, Peer!Restart, Peer!locals
  <2>2. Carried'
    BY <2>1 DEF SenderInv, Carried, Carries, Sent, senderVars
  <2> QED
    BY <2>1, <2>2, PeerKeepsSender
<1>9. CASE UNCHANGED vars
  <2>1. Carried'
    BY <1>9 DEF vars, senderVars, peerVars, SenderInv, Carried, Carries, Sent
  <2> QED
    BY <1>9, <2>1, PeerKeepsSender DEF vars
<1> QED
  BY <1>1, <1>2, <1>3, <1>4, <1>5, <1>6, <1>7, <1>8, <1>9 DEF Next, Proceed, AllTold

LEMMA SenderInvariance == Spec => []SenderInv
BY SenderInit, SenderStep, PeerInvariance, PTL DEF Spec

(* Sender and peer keep to their types, whatever the network does.         *)
THEOREM TypeCorrect == Spec => []TypeOK
<1>1. PeerInv /\ SenderInv => TypeOK
  BY SameTypes DEF PeerInv, SenderInv, SenderTyped, TypeOK
<1> QED
  BY <1>1, PeerInvariance, SenderInvariance, PTL

-----------------------------------------------------------------------------
(* What the peer's answers, and so those of a delegation, rest on.         *)
Done(d, status) ==
  \E e \in executions :
    /\ e.request.operation = input[d].operation
    /\ e.request.fingerprint = input[d].fingerprint
    /\ e.response.status = status

(* The payload is one to refuse, or another was executed under its key.    *)
Refusable(d) ==
  LET r == Payload(input[d]) IN
  \/ ~Service!Passed(r)
  \/ ~Service!Keyed(r)
  \/ /\ Service!HighRisk(r)
     /\ \E e \in executions :
          /\ Service!HighRisk(e.request) /\ e.request.key = r.key
          /\ e.request.fingerprint # r.fingerprint

Truth(d) ==
  told[d] # None =>
    /\ place[d] = "told"
    /\ told[d].cause = "peer" => Done(d, told[d].status)
    /\ told[d].cause \in Service!Codes => Refusable(d)

ToldTruth == \A d \in Delegations : Truth(d)

LEMMA ExecutionsGrow == [Next]_vars => executions \subseteq executions'
BY DEF Next, Decline, Begin, Proceed, Post, Receive, Lose, AllTold, Arrive, PeerServes, PeerRestarts,
   Tell, vars, peerVars, Peer!Admit, Peer!Reject, Peer!Serve, Peer!LookupMiss, Peer!LookupNoKey,
   Peer!LookupHit, Peer!CallTool, Peer!Save, Peer!AuditAndReturn, Peer!Restart, Peer!locals, Peer!history

LEMMA AnswerIsExplained ==
  ASSUME PeerInv, SenderInv, NEW post \in Posts, pc[post] = "done"
  PROVE  /\ request[post] = Payload(input[post[1]]) /\ input[post[1]] \in Inputs
         /\ request[post] \in Payloads
         /\ Service!Explained(post)
<1>1. Carries(post, request[post]) /\ Service!Explained(post)
  BY DEF PeerInv, SenderInv, Carried, Service!RepliesExplained
<1>2. posts[post[1]] > 0
  BY <1>1, PostsType, DelegationAssumption DEF Carries, Sent, SenderInv, SenderTyped
<1>3. input[post[1]] \in Inputs /\ Sendable(input[post[1]])
  BY <1>2, PostsType DEF SenderInv, Sending
<1> QED
  BY <1>1, <1>3 DEF Carries, Payloads

LEMMA RepliesDiffer ==
  /\ \A code : Service!Refusal(code) \notin Service!Responses
  /\ \A a, b : Service!Refusal(a) = Service!Refusal(b) => a = b
  /\ "peer" \notin Service!Codes /\ "tool" \notin Service!Codes
BY DEF Service!Refusal, Service!Responses, Service!Codes

(* The peer's answer is a response: a tool gave it for these inputs.       *)
LEMMA ResponseWasExecuted ==
  ASSUME PeerInv, SenderInv, NEW d \in Delegations, CurrentPost(d) \in Posts,
         pc[CurrentPost(d)] = "done", reply[CurrentPost(d)] \in Service!Responses
  PROVE  Done(d, reply[CurrentPost(d)].status)
<1> DEFINE post == CurrentPost(d)
<1>1. /\ request[post] = Payload(input[d]) /\ input[d] \in Inputs /\ request[post] \in Payloads
      /\ Service!Explained(post)
  BY AnswerIsExplained DEF CurrentPost
<1>2. PICK e \in executions :
        e.request.fingerprint = request[post].fingerprint /\ e.response = reply[post]
  BY <1>1, RepliesDiffer DEF Service!Explained, Service!Conflict
<1>3. e.request \in Payloads
  BY DEF PeerInv, Service!TypeOK, Service!Executions
<1>4. e.request.operation = request[post].operation
  BY <1>1, <1>2, <1>3, PeerAssumption
<1>5. /\ request[post].operation = input[d].operation
      /\ request[post].fingerprint = input[d].fingerprint
  BY <1>1, PayloadFields
<1> QED
  BY <1>2, <1>4, <1>5 DEF Done

(* The peer's answer is a refusal: it is right to give it.                 *)
LEMMA RefusalIsDue ==
  ASSUME PeerInv, SenderInv, NEW d \in Delegations, CurrentPost(d) \in Posts,
         pc[CurrentPost(d)] = "done", NEW code, reply[CurrentPost(d)] = Service!Refusal(code)
  PROVE  Refusable(d)
<1> DEFINE post == CurrentPost(d)
<1>1. request[post] = Payload(input[d]) /\ Service!Explained(post)
  BY AnswerIsExplained DEF CurrentPost
<1>2. reply[post] \notin Service!Responses
  BY RepliesDiffer
<1>3. CASE Service!Rejection(request[post]) # "none"
  BY <1>1, <1>3 DEF Refusable, Service!Passed
<1>4. CASE Service!HighRisk(request[post]) /\ request[post].key = NoKey
  BY <1>1, <1>4, PeerAssumption DEF Refusable, Service!Keyed
<1>5. CASE /\ Service!HighRisk(request[post])
           /\ \E e \in Service!HighRiskExecutions :
                /\ e.request.key = request[post].key
                /\ e.request.fingerprint # request[post].fingerprint
  BY <1>1, <1>5 DEF Refusable, Service!HighRiskExecutions
<1> QED
  BY <1>1, <1>2, <1>3, <1>4, <1>5 DEF Service!Explained

LEMMA TruthStays ==
  ASSUME SenderInv, [Next]_vars, NEW d \in Delegations, Truth(d),
         told'[d] = told[d], place'[d] = place[d], input'[d] = input[d]
  PROVE  Truth(d)'
<1>1. executions \subseteq executions'
  BY ExecutionsGrow
<1>2. Done(d, told[d].status) => Done(d, told[d].status)'
  BY <1>1 DEF Done
<1>3. Refusable(d) => Refusable(d)'
  BY <1>1 DEF Refusable
<1> QED
  BY <1>2, <1>3 DEF Truth

LEMMA ToldTruthInvariance == Spec => []ToldTruth
<1>1. Init => ToldTruth
  BY DEF Init, ToldTruth, Truth
<1>2. PeerInv /\ SenderInv /\ ToldTruth /\ [Next]_vars => ToldTruth'
  <2> SUFFICES ASSUME PeerInv, SenderInv, ToldTruth, [Next]_vars PROVE ToldTruth'
    OBVIOUS
  <2>1. ASSUME UNCHANGED <<told>>,
               \A d \in Delegations :
                 place[d] = "told" => place'[d] = place[d] /\ input'[d] = input[d]
        PROVE  ToldTruth'
    <3>1. ASSUME NEW d \in Delegations, place[d] = "told" PROVE Truth(d)'
      BY <2>1, <3>1, TruthStays DEF ToldTruth
    <3>2. ASSUME NEW d \in Delegations, place[d] # "told" PROVE Truth(d)'
      BY <2>1, <3>2 DEF SenderInv, Sending, Truth
    <3> QED
      BY <3>1, <3>2 DEF ToldTruth
  <2>2. ASSUME NEW d \in Delegations, NEW status, NEW cause, Tell(d, status, cause),
               \A c \in Delegations \ {d} : input'[c] = input[c],
               cause = "peer" => Done(d, status)', cause \in Service!Codes => Refusable(d)'
        PROVE  ToldTruth'
    <3>1. /\ told'[d] = [status |-> status, cause |-> cause] /\ place'[d] = "told"
          /\ \A c \in Delegations \ {d} : told'[c] = told[c] /\ place'[c] = place[c]
      BY <2>2 DEF Tell, SenderInv, SenderTyped
    <3>2. Truth(d)'
      BY <2>2, <3>1 DEF Truth, Done
    <3>3. ASSUME NEW c \in Delegations \ {d} PROVE Truth(c)'
      BY <2>2, <3>1, TruthStays DEF ToldTruth
    <3> QED
      BY <3>2, <3>3 DEF ToldTruth
  <2>3. ASSUME NEW d \in Delegations, Decline(d) PROVE ToldTruth'
    <3>1. PICK i, status : Tell(d, status, "not sent") /\ input' = [input EXCEPT ![d] = i]
      BY <2>3 DEF Decline
    <3>2. "not sent" \notin Service!Codes \union {"peer"}
      BY DEF Service!Codes
    <3> QED
      BY <2>2, <3>1, <3>2 DEF SenderInv, SenderTyped
  <2>4. ASSUME NEW d \in Delegations, Begin(d) PROVE ToldTruth'
    BY <2>1, <2>4 DEF Begin, SenderInv, SenderTyped
  <2>5. ASSUME NEW d \in Delegations, Post(d) PROVE ToldTruth'
    BY <2>1, <2>5 DEF Post, SenderInv, SenderTyped
  <2>6. ASSUME NEW d \in Delegations, Receive(d) PROVE ToldTruth'
    <3> DEFINE post == CurrentPost(d)
    <3>1. PICK status, cause :
            /\ Tell(d, status, cause)
            /\ pc[post] = "done" /\ post \in Posts
            /\ \/ /\ reply[post] \in Service!Responses
                  /\ status = reply[post].status
                  /\ cause = IF status = "error" THEN "tool" ELSE "peer"
               \/ \E code \in Service!Codes :
                    /\ reply[post] = Service!Refusal(code)
                    /\ status = "error" /\ cause = code
      BY <2>6, ReceiveTells
    <3>2. UNCHANGED <<input, executions>>
      BY <2>6 DEF Receive, peerVars
    <3>3. cause = "peer" => Done(d, status)'
      <4>1. cause = "peer" => reply[post] \in Service!Responses /\ status = reply[post].status
        BY <3>1, RepliesDiffer
      <4>2. cause = "peer" => Done(d, status)
        BY <3>1, <4>1, ResponseWasExecuted
      <4> QED
        BY <3>2, <4>2 DEF Done
    <3>4. cause \in Service!Codes => Refusable(d)'
      <4>1. cause \in Service!Codes => \E code : reply[post] = Service!Refusal(code)
        BY <3>1, RepliesDiffer
      <4>2. cause \in Service!Codes => Refusable(d)
        BY <3>1, <4>1, RefusalIsDue
      <4> QED
        BY <3>2, <4>2 DEF Refusable
    <3> QED
      BY <2>2, <3>1, <3>2, <3>3, <3>4
  <2>7. ASSUME NEW d \in Delegations, Lose(d) PROVE ToldTruth'
    <3>1. CASE Tell(d, "error", "unreachable")
      <4>1. "unreachable" \notin Service!Codes \union {"peer"}
        BY DEF Service!Codes
      <4> QED
        BY <2>2, <2>7, <3>1, <4>1 DEF Lose
    <3>2. CASE place' = [place EXCEPT ![d] = "post"] /\ UNCHANGED told
      BY <2>1, <2>7, <3>2 DEF Lose, SenderInv, SenderTyped
    <3> QED
      BY <2>7, <3>1, <3>2 DEF Lose
  <2>8. ASSUME UNCHANGED senderVars PROVE ToldTruth'
    BY <2>1, <2>8 DEF senderVars
  <2> QED
    BY <2>3, <2>4, <2>5, <2>6, <2>7, <2>8
       DEF Next, Proceed, Arrive, PeerServes, PeerRestarts, AllTold, vars
<1> QED
  BY <1>1, <1>2, PeerInvariance, SenderInvariance, PTL DEF Spec

(* For any number of delegations, retries and restarts, and whatever the   *)
(* network loses or delays: a delegation reported as done was executed by  *)
(* the peer with that outcome and for its inputs (SuccessWasExecuted).     *)
THEOREM SuccessesWereExecuted == Spec => []SuccessWasExecuted
<1>1. ToldTruth => SuccessWasExecuted
  BY DEF ToldTruth, Truth, Done, SuccessWasExecuted
<1> QED
  BY <1>1, ToldTruthInvariance, PTL

(* A delegation the peer refused is executed by none of its posts, unless  *)
(* its key was used by two calls at once or before a restart               *)
(* (RefusedNotExecuted).                                                   *)
THEOREM RefusedAreNotExecuted == Spec => []RefusedNotExecuted
<1>1. PeerInv /\ SenderInv /\ ToldTruth => RefusedNotExecuted
  <2> SUFFICES ASSUME PeerInv, SenderInv, ToldTruth,
                      NEW d \in Delegations, told[d] # None, told[d].cause \in Peer!Codes,
                      NEW e \in executions, e.call[1] = d
               PROVE  input[d].key \in contended \union forgotten
    BY DEF RefusedNotExecuted
  <2>1. Refusable(d)
    BY SameSets DEF ToldTruth, Truth
  <2>2. Carries(e.call, e.request) /\ e.request = Payload(input[d])
    BY DEF SenderInv, Carried, Carries
  <2>3. Service!Passed(e.request) /\ Service!Keyed(e.request)
    BY DEF PeerInv, Service!Checks, Service!ExecutionsChecked
  <2>4. PICK f \in executions :
          /\ Service!HighRisk(e.request) /\ Service!HighRisk(f.request)
          /\ f.request.key = e.request.key
          /\ f.request.fingerprint # e.request.fingerprint
    BY <2>1, <2>2, <2>3 DEF Refusable
  <2>5. e.request.key \in contended \union forgotten
    BY <2>4 DEF PeerInv, Service!DuplicateNeedsRaceOrRestart
  <2>6. e.request.key = input[d].key
    BY <2>2 DEF Payload
  <2> QED
    BY <2>5, <2>6
<1> QED
  BY <1>1, PeerInvariance, SenderInvariance, ToldTruthInvariance, PTL

(* The peer that is asked is none the delegation has passed, so it never   *)
(* finds itself among them (NoLoopReachesPeer).                            *)
THEOREM NoLoopsReachThePeer == Spec => []NoLoopReachesPeer
<1>1. PeerInv /\ SenderInv => NoLoopReachesPeer
  <2> SUFFICES ASSUME PeerInv, SenderInv, NEW post \in Posts,
                      reply[post] = Service!Refusal("loop_detected")
               PROVE  FALSE
    BY SameSets DEF NoLoopReachesPeer
  <2> DEFINE i == input[post[1]]
  <2>1. Service!Refusal("loop_detected") # None
    BY PeerAssumption, SameSets DEF Service!Refusals, Service!Codes, Service!Refusal
  <2>2. pc[post] = "done"
    BY <2>1 DEF PeerInv, Service!RepliesExplained
  <2>3. request[post] = Payload(i) /\ i \in Inputs /\ Service!Explained(post)
    BY <2>2, AnswerIsExplained
  <2>4. Service!Rejection(request[post]) = "loop_detected"
    BY <2>3, RepliesDiffer DEF Service!Explained, Service!Conflict
  <2>5. request[post].visitsSelf
    BY <2>4 DEF Service!Rejection, Service!Violation
  <2>6. Target \in i.visited \union {Self}
    BY <2>3, <2>5, PayloadFields
  <2>7. Sendable(i)
    BY <2>2, PostsType, DelegationAssumption
       DEF SenderInv, Carried, Carries, Sent, Sending, SenderTyped
  <2>8. PICK p \in FirstChoice(i) : p.id = Target
    BY <2>3, <2>7, DelegationAssumption DEF Sendable
  <2>9. p.id \notin i.visited \union {Self}
    BY <2>8 DEF FirstChoice, Candidates
  <2> QED
    BY <2>6, <2>8, <2>9
<1> QED
  BY <1>1, PeerInvariance, SenderInvariance, PTL

(* The posts of the delegations, repeated and late ones included, are      *)
(* answered as IdempotentExecution promises: the sending side adds nothing *)
(* that would break what the receiving side keeps (A2AService's            *)
(* KeepsPromise).                                                          *)
THEOREM PromiseIsKeptToPosts == Spec => Service!KeepsPromise
<1>1. Service!Spec => Service!KeepsPromise
  BY ServiceAssumption, Service!PromiseIsKept
<1> QED
  BY PeerSteps, <1>1, PTL

=============================================================================
