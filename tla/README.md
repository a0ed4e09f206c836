# Verification of iam-agent

TLA+ models, TLC runs and TLAPS proofs for the IAM agent of this repository: a
FastAPI and Chainlit service that answers requests about OCI IAM and Identity
Domains, runs tools on behalf of its user, and exchanges operations with peer
agents (A2A). Paths below are relative to `src/iam_agent/` unless they say
otherwise.

## 1. Inventory

### How the program runs

One `uvicorn` process (`Dockerfile`, one replica in `k8s/deployment.yaml`)
builds one `Orchestrator` when it starts (`api/orch_routes.py:46`) and keeps it
in a global. `POST /chat` and `POST /a2a/execute` are synchronous FastAPI
handlers, so each request runs in a thread of a pool, and all threads share that
object. There is no lock anywhere in the code, no `await` inside a handler, and
no storage: whatever the object holds is lost with the process. The Chainlit UI
under `/ui` loads `app/chainlit_entry.py` as a module of its own and calls it
from the event loop, so it is one more instance that answers one message after
the other; the threads are the interesting case.

### Components

| component | state it keeps | operations | talks to |
|---|---|---|---|
| Orchestrator (`application/orchestrator.py`) | none of its own; locals of a turn | `handle_user_input` | everything below |
| RetryController (`application/retry_controller.py`) | `attempt_count`, shared by all turns | `reset`, `register` | orchestrator |
| A2A service (`application/a2a_collaboration_service.py`) | `_idempotency_records` | `execute`, `delegate_to_peer`, `capabilities` | input guard, peer client, skill executor, audit |
| Peer client (`infra/clients/a2a_peer_client.py`) | cached registry, HTTP session | select a peer, verify a source, `execute_delegation` with re-posts | other agents |
| Skill executor (`application/skill_executor.py`) | handler tables | `execute`, `execute_skill`: an exception becomes an error result | tools, skills |
| Action planner (`application/action_planner.py`) | none | `create_plan`: the kind of request, a model's plan rewritten by rules, a fallback plan | a language model |
| Summarizer, validator, GenAI client | none | draft, judge; each with a fallback | a language model |
| Input guard, high-risk guard | none | which inputs are missing, which requests are refused | orchestrator, A2A service |
| Permission investigator, access diagnoser | none | read groups and policies, merge partial answers | skill executor |
| Identity domain tools, target resolution, HR tools | none | look up, create, change membership | identity domain, HR database |
| OAuth provider, identity domain client | cached token, shared by all turns | fetch a token, send requests with it | identity domain |
| OCI clients and tools | none | list compartments, policies, resources page by page | OCI |
| Audit logger | log stream | `record`, `record_workflow` | log |
| Snapshot store, quality evaluator | list of metrics per scope | `add_metric`, `build_snapshot` | orchestrator, `/telemetry/comparison` |
| Telemetry bridge, Langfuse client, trace context | spans of a turn | start and end stages, deliver | Langfuse |
| Runtime preflight, settings | none | which configuration is missing | orchestrator |

### What is hard here

* **One attempt count for all turns.** `handle_user_input` resets the shared
  `RetryController` (`orchestrator.py:278`), the head of its loop reads it to
  decide whether to replan (369), `register` increments it, and the score and
  the metric read it again (162, 184). Every one of these is a different moment
  and other turns act in between.
* **Effects before the turn's end.** Steps change the directory one by one; the
  turn can still stop for a confirmation, missing input, the retry limit or an
  exception, and each of these leaves by another exit.
* **Check, act, save.** The A2A service looks up an idempotency key, runs the
  tool, then saves the answer. Peers re-post after a timeout, so the same key
  arrives twice at once. A restart forgets all keys.
* **Several checks of one thing.** The input guard and the service both look at
  hops, visited agents and the key of a high-risk operation, on differently
  normalized values.
* **Errors as answers.** A tool's exception, a temporary failure and an
  operation that may have been applied all come back as one error status.
* **Several reads of a world that moves.** A tool reads the directory, the HR
  database, the compartments or the policies in one request after another; users,
  memberships and compartments change in between, and a write follows the reads.
* **Two sources of a plan.** A language model plans, four rules rewrite what it
  planned by words of the prompt, and one prompt can hold the words of several.
* **A token without a lock.** Threads judge, read, fetch and overwrite one cached
  token at different moments.

### What makes the components correct

* A turn is answered after a bounded number of attempts; every retry works on a
  plan made after the rejection; what the user, the metric and the audit log are
  told agrees with what was done.
* A peer's operation runs only after every check, and a key is used once: a
  repeated request gets the first answer, a different one is refused.
* A token that was judged valid is still accepted when its request arrives, although
  a slower thread may put an older one into the cache: the cached expiry falls back
  by the timeout of a request at most.
* A change of the directory hits the one person who was meant and is the kind of
  change the prompt asked for; an account is that of one person; what a tool says
  of a write agrees with the write.
* A report says of groups and grants what was so at some moment of the
  investigation, about the one person the prompt fits.
* What is listed of a tenancy is complete unless the answer says otherwise,
  forms a tree but for what moved under a single long listing, and a policy is never
  picked among several of its name.

## 2. Modules

| module | models | how |
|---|---|---|
| `RetryController` | `retry_controller.py` | pure operators for `reset` and `register` |
| `Orchestrator` | `handle_user_input` and what finalizes a turn | one record of locals per turn; an action is the code between two accesses to shared state or two calls that leave the process |
| `OrchestratorTraffic` | the same turns when requests never end | adds the thread that takes its next request |
| `A2AService` | `A2ACollaborationService.execute` | one thread per call over the shared records; `Restart` empties them |
| `IdempotentExecution` | what callers may rely on | abstract ledger of executions and answers; `A2AService` is shown to implement it |
| `Delegation` | `delegate_to_peer` and `A2APeerClient.execute_delegation` | one thread per delegation, composed with `A2AService` as the peer over a network that loses and delays |
| `TokenCache` | `IdentityDomainOAuthProvider.get_access_token` and the requests that carry its token | one thread per request over the shared cache, and a clock |
| `Compartments` | `OciIdentityClient.list_compartments`, and the depth and path of what it found | the walk, one request per step, while an administrator moves compartments |
| `OciTools` | `list_compartments`, `list_resources`, `list_policies`, `get_policy` | one call of one tool, one page per step; extends `Compartments` |
| `IdentityTools` | `create_user`, `add_user_to_group`, `remove_user_from_group`, `get_user`, `get_last_successful_login`, the lookups in HR and directory | one call, one request per step, while others change users and memberships |
| `Investigation` | `PermissionInvestigator.investigate`, `AccessDiagnoser.diagnose`, the score of `target_resolution.py` | as further calls over the same directory; extends `IdentityTools` |
| `Planner` | `ActionPlanner.create_plan`, `InputGuard.find_missing_inputs` | operators from a prompt and a model's plan to the calls of `Investigation`; extends it |
| `MC*` | | instances for TLC |
| `Orchestrator_proofs`, `A2AService_proofs`, `Delegation_proofs`, `TokenCache_proofs`, `OciTools_proofs`, `IdentityTools_proofs`, `Investigation_proofs`, `Planner_proofs` | | theorems and their proofs |

### Orchestrator

`attemptCount` is `retry_controller.attempt_count`, `metrics` the snapshot store,
`audits` the audit log. `pc` says where in `handle_user_input` a turn is, and
`request`, `steps`, `results`, `verdict`, `reply` and `score` are its locals.
`Start` is the reset at entry, `PreflightBlocks` and `PreflightPasses` the
preflight, `MakePlan` the first plan, `Investigate` and `Diagnose` the two
workflows that end the turn, `BeginAttempt` and `Replan` the head of the loop,
`StopForMissingInput` and `RunStep` its body, `Validate` and `Register` the
judgement, `Finalize` and `Deliver` the end of a turn, `Fail` an exception that
`process_message` turns into an error. Plans are sequences of steps, and of a
step the model keeps the tool and whether its inputs are complete; of a result
its status. The planner, the tools and the validator answer anything their code
lets through.

`plans`, `registered`, `resets`, `others` and `writers` are history: no action
reads them. They say how often a turn planned and registered, how often other
turns reset or registered while it was active, and which turns changed the
directory.

`retry_controller.register` is one action: `attempt_count += 1` and the
comparison behind it have no call between them at which CPython 3.12 would switch
threads.

### A2AService

`records` is `_idempotency_records`. `Reject` is every path on which `execute`
returns before its `try`, in the order of `Rejection`; `Admit` the path into it.
`LookupMiss`, `LookupNoKey` and `LookupHit` are
`_handle_idempotency_replay_if_needed`, `CallTool` the skill executor,
`Save` and `AuditAndReturn` what follows. Of a payload the model keeps what the
service's decisions look at; `padded` says whether blanks surround the operation,
which the input guard compares as sent and the service compares stripped. `target`
is whom the payload names: this agent, another one, or nobody, which is what becomes
of a value that is present but not a text, like 0 or an empty list
(`domain/models.py:401`); the service compares the target only when there is one.

`executions`, `contended` and `forgotten` are history: the tool calls, the keys
two calls were executing at once, and the keys executed before a restart.

### Delegation

The module instantiates `A2AService` as the peer: the calls the peer sees are the
posts `<<delegation, number>>`, its payloads what `Payload` makes of a
delegation's inputs, and its variables are shared by name. `Decline` is every
return of `delegate_to_peer` that sends nothing, `Begin` the path to
`execute_delegation`, `Post`, `Receive` and `Lose` one round of its loop.
`Candidates` and `FirstChoice` are the selection of a peer by trust, operation,
visited agents and priority.

The network is in three choices. `Arrive` lets the peer take a post at any time
after it was sent, also when the client no longer waits for it, or never; `Lose`
lets the client give up at any time, which covers its timeout, a failed
connection and an answer of 504; `Receive` delivers the answer to the current
post only. A post is not duplicated by the network (HTTP over TCP): every
duplicate is a second post of the client. `PeerRestarts` is the peer's own
`Restart`. `told` keeps the status the caller gets and where it comes from: the
peer's answer, the failure of its tool, its refusal, or silence.

### TokenCache

`cache` is `_cache`. `get_access_token` reads it three times before it returns a
token (line 40 twice, 41 once), and each read is a step: `Call`, `Judge`, `Take`.
`Issue` is the moment the token endpoint issues a token, `Stamp` the arrival of its
answer, when `time.time()` is read, `Store` the assignment to `_cache` of what was
computed from that reading, with other threads in between, `FetchFails` every
exception before, `Send` the arrival of the request at the identity domain. A token
is the second at which it stops being accepted. `since` is when a thread last heard
of its token; `Tick` lets nothing take longer than `Timeout` after it, which is the
timeout of the HTTP clients. A thread that has read the clock is given the same time
until its request arrives. `sent` is history.

### Compartments and OciTools

`walk` holds the locals of `list_compartments`. A listing is read one page per step
(`ReadPage`), each compartment as it is when its page is sent; `listed` is what the
pages held, `passed` whose turn is over, and `AllRead` the last page. `ListOnce` takes
over the listing of the whole subtree, which OCI grants for the tenancy only
(`Refuse` otherwise) and which the code does not check; `WalkRoot` and `WalkChildren`
are the breadth-first walk, one listing per compartment, `AppendRoot` the root that is
added at the end.
`Kept`, `Depth`, `Path` and `Nodes` are what the tool makes of the answer.
`Move` is the administrator; `moved` is history. In `OciTools`, `place` is where the
tool is, `targets` the compartments it still has to visit, `searched` and
`resources` what it has, `warnings` the scopes it reports as not visible.
`Page`, `PageFails`, `PageUnavailable` and `PageDenied` are one request of the
search with its outcomes; the attempt is counted per page, as the code does.
Resources are read from contents that stay as they are: only compartments move.

### IdentityTools, Investigation and Planner

One call runs while `Others` create and delete users and change memberships.
`selector`, `query`, `user` and `group` are the
locals of the code. `Begin`, `HrForSelector`, `HrForCreate`, `GetById`, `LookUpUser`
and `FindGroup` are the reads, each with a page that may be shorter than what
matches, `Patch` and `Create` the writes, which may be applied although the answer
is lost, and `ReadFails` and `WriteFails` the failures. An employee may lack any
column, the address included: `OnRecord` drops what is empty, as `_set_if_missing`
does, and `Enriched` then gives the selector the display name of the kanji names it
has. `FullName` is how a display name is put together. `Ask` to `Conclude` are the
steps of an investigation in the order of its requests; `Score`, `Candidates` and
`Resolve` are `resolve_user_with_hr`, `MatchPolicies` and `Findings` what is made of
the statements. `Fallback` is `get_user` for an employee with no account among those
listed: `FallbackSelector` is what it is asked for, `InHr` and `Sought` what the HR
database makes of that, so that somebody without an address is looked for by name. A diagnosis is an investigation with `Findings`.

`Planner` makes the calls. A prompt is the set of words in it, one word for each
combination of lists of hints a real word is on ("remove", for one, is on the list
of membership changes and on that of policy impacts), with the fields the patterns
read off it. A model's plan is a sequence of steps or, when the model fails,
nothing. `PlanSteps` is `create_plan`: `Normalized` steps or the step of
`FallbackTool`, then `Enforced`, the four rules in their order; `Complete` is
`find_missing_inputs`. `CallsOf` has one call for each complete step, each made by
itself: that a later step sees what an earlier one changed is covered by `Others`.

`held` and `kept` are history: the memberships there were at some moment and at
every moment of the call. So are `meant`, the users the request can have meant when
the user was looked up, computed from the whole directory and not from the page the
code reads, with `IsOf` and `IsNamed` saying whose account an employee's is; `written`, the writes that were applied; and, in a call, `asked` and
`planned`, its prompt and what the model wanted to call.

## 3. Runs

| run | question | bounds | states |
|---|---|---|---|
| `orchestrator` | seven properties of interleaved turns | 2 turns, 3 attempts, two plans of two steps | 928 thousand |
| `orchestrator_live` | is every started turn answered? | 2 turns, 2 attempts, plans of one step | 60 thousand |
| `a2a_service` | four invariants, one action property, refinement of `IdempotentExecution` | 3 calls, 1 key, 12 payloads, 1 restart | 408 thousand |
| `orchestrator_traffic` | does a rejected turn stop under endless traffic? **no** | 2 turns, 3 attempts | counterexample |
| `orchestrator_audit` | is every high-risk operation audited? **no** | as `orchestrator` | counterexample |
| `delegation` | does what callers are told agree with what the peer executed? | 2 delegations, 2 posts each, 9 inputs | 822 thousand |
| `delegation_restart` | does it still when the peer restarts, and is every delegation reported? | 1 delegation, 3 posts, 1 restart | 68 thousand |
| `delegation_retry` | is a delegation that is posted again executed once? **no** | 1 delegation, 2 posts | counterexample |
| `token_cache` | is every token accepted when it arrives, and how far does the cache fall back? | 2 threads, life 4, margin 2, timeout 1, clock to 8 | 120 thousand |
| `oci_tools` | are listings complete, placed and unambiguous, and does every call return? | 4 compartments, 6 tenancies, 2 moves, pages of 1 to 3 compartments and of 2 resources | 795 thousand |
| `investigation` | do writes hit who and what was asked for, and are reports true? | 3 accounts, 1 joiner, 3 groups, 6 employees, 4 statements, 2 changes, 119 calls, 16 prompts with 3 plans each among them | 142 thousand |
| `investigation_grant` | does a confirmed missing policy mean that no group may? **no** | as `investigation`, without changes | counterexample |

Why these bounds are enough. Two turns are the smallest number at which one turn
resets or increments the count of another; a third adds more of the same
disturbance, which the history variables already count and the proofs cover. The
two plans contain a step that stops for missing input after another ran, a
high-risk operation followed by a delegation, and a tool that may stop for
confirmation, so every exit of the loop is taken with and without an earlier
effect. Three attempts is the value the program uses
(`app/chainlit_entry.py:110`). Three calls under one key are a first execution, a
retry and a conflict; a second key would only run the same code on another entry.
Each of the nine faulty payloads has one thing wrong, so each refusal is reached
by itself. One restart separates before from after. Turns are interchangeable, so
`orchestrator` uses symmetry; the liveness run does not. Two delegations are a
first use of a key and a retry or a conflict by another call, while each may
post twice, as the program does (`max_retries=1`); the run with a restart takes
one delegation and a third post instead, because a restart in the larger
instance multiplies its states without a new interaction of two delegations,
which `a2a_service` checks on the peer's side. Of the nine inputs six are not
sent, each for one reason.

For the tools: two threads are one that judges and one that fetches, and the margin
is exactly twice the timeout, as in the program and at the edge of
`ConstantsAssumption`; the proofs cover the rest. A root with a chain of two below it
and a sibling has every
relation two compartments can have; two moves, which can happen between any two pages
of a listing, are the fewest that record two compartments below each other, and pages
of two resources end before, at and after a limit and the contents of a compartment.
Three accounts and six employees hold two people of one family name, two with an HR
row only, one of whom joins while the call runs under a display name that somebody
else has too, one for whom HR has no address and one for whom it has nothing but a
number; two of three groups
share a name, so a lookup finds none, one or several of each kind. Two changes are
enough to remove somebody and to put somebody else in their place between two
requests. `CHECK_DEADLOCK FALSE` stands where the one call of the run has returned.

**Fairness.** `FairSpec` asks that the thread of a started turn keeps running:
weak fairness of the disjunction `Proceed(t)`. Threads of a pool are scheduled by
the operating system, and every call that leaves the process has a timeout or
fails. Nothing is assumed of `Start`: nobody has to send a request. Nothing is
assumed of the verdicts either: a turn that is always rejected is answered all
the same. `Answered` holds for finitely many turns because each can be
disturbed only as often as others start; `orchestrator_traffic` shows that this
is what it depends on. `Delegation!FairSpec` is the same for the threads of
`delegate_to_peer`: nothing is assumed of the network or of the peer, which may
stay silent for ever; a client waits at most its timeout of 12 seconds, so that
`Lose` happens if no answer comes first. `OciTools!FairSpec` asks for weak fairness
of the tool's steps: each call of an OCI client returns or raises, and the thread
goes on; nothing is asked of the administrator. A page of resources that is not the
last one is taken not to be empty.

### What the counterexamples say

* `StopsAfterMaxRetry`: the shared count is reset by every new turn, so a turn
  that is rejected again and again never reaches the limit as long as others keep
  arriving. `tests/integration/test_orchestration_retry_loop.py` states the limit
  for a turn that is alone.
* `HighRiskAudited`: the exits for confirmation, missing input, the retry limit
  and exceptions write no audit record, although a step before them may have
  created a user. `README.md:29` of the repository says such operations are
  audited. `AnsweredWritesAudited` is the part that does hold.
* `RetryExecutesOnce`: a delegation times out and posts again while its first
  post is still running; both threads of the peer miss the record and both
  execute. `DuplicateNeedsRaceOrRestart` and `SuccessWasExecuted` are what does
  hold.
* `MissingPolicyMeansNoGrant`: a diagnosis looks for the requested action as a word
  of the statements. A group that may `manage` is not found when somebody asks
  about creating, although the investigator's own texts
  (`permission_investigator.py:505`) describe `manage` as creating, updating and
  deleting. `SupposedGrantExists`, the other direction, does hold.

One more thing met while modelling has no run: the list of words that ask to add
somebody to a group (`action_planner.py:30`) holds 所属, to belong. A question whether
a user belongs to a group is thereby planned as `add_user_to_group`, against the
model's plan if need be. `WritesAsAsked` takes the lists as they are; what a
sentence means is outside the model.

## 4. Proofs

Every safety invariant and every action property that a passing run checks is also
a theorem, for every value of the constants. Only liveness is left to TLC.

### What is assumed

All assumptions are on constants, and TLC evaluates each of them in a run.

| assumption | module | says | because |
|---|---|---|---|
| `MaxAttemptsAssumption` | `RetryController` | the limit is a positive number | `app/chainlit_entry.py:110` |
| `ToolsAssumption` | `Orchestrator` | a plan is a non-empty sequence of steps; the sets of special tools are of tools | steps that come out empty are replaced by the fallback step (`action_planner.py:718`) |
| `A2AAssumption` | `A2AService` | requests are payloads; "none" is no record, answer or payload | it stands for Python's `None` |
| `DelegationAssumption` | `Delegation` | the target is another agent, ids in the registry are unique, and whatever is sent goes to the target | the module follows one of the peers |
| `PeerAssumption` | `Delegation` | what `A2AAssumption` asks, and equal fingerprints mean equal operations | the fingerprint is a SHA-256 over the operation too (`a2a_collaboration_service.py:462`) |
| `ConstantsAssumption` | `TokenCache` | twice the timeout is within the margin, three times the timeout less than the life of a token | 30 seconds each, a margin of 60, tokens of an hour |
| `TenancyAssumption`, `WorldsAssumption` | `Compartments` | finitely many compartments, the root among them | |
| `ToolsAssumption` | `OciTools` | payloads, contents and policies are of their types | |
| `DirectoryAssumption` | `IdentityTools` | accounts, groups and employees are finite sets; a user has an id, a user name, an address and a display name; an employee has every column, which may be empty; memberships are of groups and users there are | these are the attributes the code asks for and goes by, and the columns its query selects |
| `ChangesAssumption`, `PageAssumption` | `IdentityTools`, `Investigation` | bounds are numbers | |
| `NoneAssumption` | `Planner` | the value for "no tool" is not a tool that changes something | |

Nothing is assumed of how actors interleave, of what the network loses, of when the
peer restarts, of what others change, or of what the language model answers.

Two more assumptions are in the actions, of services outside the repository. The
pages of a listing of compartments follow an order no move changes, so that each
compartment has its turn once (`ReadPage`). And a thread takes no longer than
`Timeout` from reading the clock to the arrival of its request (`Tick`): that it is
held up for half a minute between two lines is left out.

### `Orchestrator_proofs`

* `TypeCorrect`: `TypeOK` is inductive by itself, one step per action.
* `AttemptsAreBounded` and `AbortsAreJustified` rest on the invariant `Counting`:
  the shared count is explained by the registrations of an active turn and of its
  neighbours since the last reset, and a turn that is still in its loop is within
  the budget its resets gave it. Neither property is inductive, because both
  look at what happened when a turn left the loop.
* `MetricsAreTruthful` rests on `Measuring`: an undisturbed turn finds exactly its
  own registrations in the shared count, in the score it computed and in the
  metric it wrote.
* `PlansAreFresh` rests on `Planning` and on `Counting`: a turn that nobody reset has
  made one plan more than it registered attempts while an attempt runs, and at the
  head of its loop it finds a count above zero if it still has to plan. That last
  part is why the code replans at all.
* `AnswersReflectAttempts` rests on `Answering`: at each place of its loop a turn has
  a plan and a result for every step that has run, and none that would have ended
  it; `SummaryTells` carries the results to the status.
* `AnsweredWritesAreAudited` rests on `AnswersAudited`: no turn is over with an answer
  but through `Deliver`, which has written its record by then.

### `A2AService_proofs`

* `TypeCorrect`.
* `ExecutionIsGuarded` rests on `Checks`: a call past the lookup has a request
  that passed every check, and a key if it needs one. No check asks for a target: a
  payload that names nobody is executed, and the property says no more than that it
  was not addressed to another agent.
* `DuplicatesNeedRaceOrRestart` rests on `Idempotence`: for a key that is neither
  contended nor forgotten, at most one call is between lookup and save, it is the
  first to execute, and whatever was executed is in the record.
* `AnsweredExecutionsAreAudited` rests on `OnItsWay`: between the tool and the return
  the call holds the tool's response, whatever others write into the record.
* `RecordsAreStable` rests on `HeldAlone`: while somebody executes under a key nobody
  raced for, its record is empty, so that saving never replaces one. It holds
  after a restart too, which `Idempotence` does not say.
* `PromiseIsKept` is the refinement: with `Backed` (the record and the answers of a
  key come from the ledger), each step of the service is a step of
  `IdempotentExecution` or leaves its variables alone. A restart and a race taint
  a key; the other steps execute, answer or refuse.
* `RepliesExplained` is for the sender: whatever a caller was told, a tool answered
  it, its payload is one to refuse, or another was executed under its key.

### `Delegation_proofs`

The module instantiates `A2AService_proofs` for the peer, so the theorems about the
service are cited, not repeated. `PeerSteps` shows that each step of a delegation
and of the network is a step of the service or leaves it alone, which gives
`PromiseIsKeptToPosts` and `PeerInv`, the invariants of the service.

* `TypeCorrect`, from `SenderInv`: a delegation posts only what it was begun with and
  no more often than it may, a post carries that payload whenever it arrives, and
  what was executed was posted.
* `SuccessesWereExecuted` and `RefusedAreNotExecuted` rest on `ToldTruth`: what a
  delegation is told is the outcome of an execution of its own inputs, or its payload
  is one the peer refuses. It survives late posts because executions are never
  forgotten (`ExecutionsGrow`) and posts of one delegation are all alike. For the
  refused the other half is `DuplicateNeedsRaceOrRestart` of the service.
* `NoLoopsReachThePeer`: a selected peer is not among the agents that were visited.

### `TokenCache_proofs`

* `TypeCorrect`.
* `TokensOutliveRequests` rests on `CacheSound` (the recorded expiry overestimates
  the real one by the time of the answer at most), `OnTime` (nothing takes longer
  than its timeout) and `ReliesOn`, what a thread may rely on at each place: the
  token that is read after the judgement need not be the one that was judged, nor a later one,
  since a slower thread may have stored an older reading of the clock over it; it is
  enough that whatever is stored outlives the request.
* `FallsBackByTheTimeoutAtMost` from the same invariant: the clock reading that is
  stored is no older than the timeout, and no recorded expiry is further ahead than
  the life of a token.

### `OciTools_proofs`

The walk, for a tenancy of any size:

* `NothingThatStaysIsMissed` rests on `Settled`: whatever the walk is done with has
  all its children among what was found, was queued or was moved, and on `Paged`,
  which says the same of a listing under way: whoever's turn is over is listed or was
  moved. `BelowIsLeast` says that the subtree is the least such set.
* `WhatIsFoundIsATree` rests on `TreeFound`: one record each, its parent among them,
  and `LeadsOut`, that no part of what was found has all its parents in itself, which
  says without recursion that there is no circle. `ChainsLeadToTheRoot` derives the
  chains from it. Where the tenancy is one listing the code has nothing that would
  notice a circle, so the property speaks of what did not move (`Doubtful`), and
  `AsItIs` says that the records of those are still right. In a walk there is no
  exception: a compartment is recorded below one that was seen before it.

The tools:

* `TypeCorrect` rests on `ToolsTyped`, with which a search under way has read a prefix
  of its compartment (`SearchKept`), resources are kept once each (`Unique`) and no
  more than asked. `NoMoreThanTheLimit` is a part of it; it holds because a page is
  limited by what was kept already (`PageReadsOn`).
* `NothingIsLeftUnsaid` rests on `Searched`: with less than the limit the tool has all
  of what it visited and did not warn of. The one exception is in the property: a
  resource that occurs twice uses up a place the second time.
* `TheOnlyPolicyIsGot` rests on `PoliciesKept`: what was collected and what the
  compartments still to visit publish make up all that is read in the end.
* `NodesAreWhereTheyBelong`: a compartment enters the layers of the breadth-first
  search exactly as many steps from the root as its chain of parents is long
  (`NotReachedBefore`, `ReachedByThen`), and the path reads the same chain off the
  records the filters left (`PathsLeadToTheRoot`).

Depth, path, chains and what a fold collects are defined by recursion, and the
induction theorems of the library take a predicate as a parameter, which no
installed prover instantiates. `OciTools_proofs` goes round that: `Induction` speaks of
a set of numbers, with which a predicate is the set of those that satisfy it,
and `RecursionIsDefined` shows that a definition that looks only at smaller
arguments has a fixed point, so the function of the model equals its own body.
`ClimbsAreDefined` and `FoldIsDefined` are its uses for chains of parents and for folds,
`Collects` says what the fold of the resource tools returns.

### `IdentityTools_proofs` and `Investigation_proofs`

Both are about the composed specification, in which all tools and workflows act on
one directory.

* `AnswersTellWrites` rests on `IInv`: each kind of call passes through places of
  its own (`OnItsWay`), nothing is written before the call ends
  (`WritesAtTheEnd`), and what is written is what the call is for (`OwnWrites`).
  All steps but `Patch` and `Create` are shown to be `Silent`: they write nothing
  and claim no write. `AllFinite` is there because the code counts who was found.
* `TypeCorrect` rests on `Typed`: what a call holds names users, groups and statements
  there are, and where the code goes on as if it had found somebody, it has.
* `AccountsAreOfOneEmployee` rests on `NewAccount`: the HR database is asked for what
  the caller gave, then for less of it, and what is created is the caller's
  fields and those of the only employee (`OfOneEmployee`).
* `OnlyTheMeantAreChanged` rests on `Targeting`: a lookup goes by the caller's selector
  or by that of the only employee HR knows (`GoesBy`), which `EnrichedFilter` shows to
  be the address or else the display name, and the one account on its page
  is the only one in the whole directory (`OneOfTwoIsAlone`: a page that shows one
  of at least two is never of one), when it was looked up (`RightUser`). `Exempt` is
  the exception of the property, a selector with a filter and a name.
* `ReportedGroupsWereHeld` rests on `ReportHeld`: the groups come from one page or with
  the account, each was the user's then, and none the user kept can be missing.
* `SupposedGrantsExist` rests on `Concluded` (the conclusion is drawn from the
  statements for the reported groups) and on `ReportHeld`.
* `ReportedFitsThePrompt` rests on `Fits`: whoever was chosen scores best among all who
  were listed, or nobody scored and the account is the only employee's
  (`AccountIsUser`). For an employee whose account was not listed, `FallbackFilter`
  goes through what HR can lack: with an address the domain is searched for it, else
  for the user name or the display name the prompt gave, else for the kanji names and
  then the others, and HR, asked again on the way, finds the same employee.

### `Planner_proofs`

* `WritesWereAsked`: if every call with a prompt comes from a plan of that prompt,
  whatever the model proposed, its writes are what the prompt asked for. By
  `EnforcedTools` the last rule that applies decides which tool is left,
  `PlannedTools` goes through the rules and the fallback, and `OwnWrites` carries
  it from the call to its writes.

### What is model-checked only

`Answered`, `Reported` and `AlwaysReturns`, the liveness properties: the prover handles
neither fairness nor `ENABLED`. And the four properties that are violated, whose
counterexamples are the result.

## 5. Plan

Done: the orchestrator, the A2A service and its refinement, delegation, the token
cache, the OCI listings, the identity tools, the investigation and the planner, and
the proofs of all their safety properties. Left, in this order:

1. A chain of agents: a delegated `delegate_to_peer`, whose inner payload carries
   its own hop count and visited agents.
2. The arithmetic of the snapshot (retry rate, percentile) as operators.

## 6. Not modelled, and why

* Wording of answers, rendering of listings, log lines and redaction: no property is
  about them.
* What the language model answers, and the patterns that read names, addresses and
  actions off a prompt: both are inputs of the models that use them.
* A token that is revoked before it expires: the client keeps sending it, and
  nothing calls `get_access_token` with `force_refresh`.
* A circle of compartments. When two compartments move below each other while the
  tenancy is listed page by page, the answer may hold both as the other's parent;
  depth and path of such compartments are computed as the code does, and no property
  says what they should be.
* Whether a display name is enough. Where HR has no address the code goes by the name,
  and `OnlyTheMeant` and `FitsThePrompt` say that nobody is picked among several of that
  name; that the one who bears it is the employee cannot be told from the data. For
  an employee HR has neither address nor name of, nothing is left to go by: the
  lookup is of anybody, and is refused unless the domain has one user only.
* Policies beyond the first page of a compartment: the client does not read them
  (`oci_identity_client.py:89`); the model reads one page as the code does.
* In `oci_tools.py`, everything behind the first `return` of a method: it is never
  executed. `collect_group_membership_evidence` and `collect_policy_evidence` are
  registered as handlers nowhere, and no turn reaches the skills for provisioning,
  inventory and dormant credentials.
* `list_users`, `list_groups`, `get_group` and `list_user_credentials`: each is one
  read of what `IdentityTools` models.
* Telemetry spans: local to a turn, and their delivery cannot fail it.
  `capabilities()`, the settings and the contract of the runtime: tables.

`PROJECT.json` lists every component with its status and every hazard with the
properties that watch it.
