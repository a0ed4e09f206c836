------------------------------ MODULE OciTools ------------------------------
(***************************************************************************)
(* The OCI tools of the agent over the compartments of a tenancy:          *)
(* list_compartments, list_resources (OciResourceTools over the pages of   *)
(* OciResourceSearchClient), list_policies and get_policy (OciPolicyTools).*)
(* One call of one tool, and a tenancy that moves while it runs.           *)
(*                                                                         *)
(* A resource is its dedupe_key, a policy a record; the ocid of a policy   *)
(* is the record itself.                                                   *)
(***************************************************************************)
EXTENDS Compartments

CONSTANTS
  Calls,        \* what the tools are called with: see CallType
  Collections,  \* what contents may be
  Denied,       \* compartments whose resources may not be searched
  PageMax,      \* most items of a page (1000)
  Policies,     \* policies of each compartment, in the order they are listed
  PolicyPage,   \* items on the one page of policies that is read
  PartOf        \* pairs of names: the first is part of the second

Tools == {"list_compartments", "list_resources", "list_policies", "get_policy"}

CallType ==
  [tool        : Tools,
   valid       : BOOLEAN,   \* the format, depth, limit or name can be used
   subtree     : BOOLEAN,   \* include_subtree
   inactiveToo : BOOLEAN,   \* include_inactive
   maxDepth    : Int,       \* max_depth
   limit       : Nat,
   name        : STRING]    \* policy_name; empty when policy_id is given

Resources == UNION {ToSet(all[c]) : all \in Collections, c \in Ids}

Listed == UNION {ToSet(Policies[c]) : c \in Ids}

ASSUME ToolsAssumption ==
  /\ Calls \subseteq CallType
  /\ Collections \subseteq [Ids -> Seq(Resources)] /\ Policies \in [Ids -> Seq(Listed)]
  /\ PageMax \in Nat /\ PolicyPage \in Nat

VARIABLES
  contents,   \* resources of each compartment, in the order of the search
  call,       \* the payload
  place,      \* where the tool is
  targets,    \* target_compartment_ids still to visit
  searched,   \* results of the search that is under way
  attempt,    \* the attempt at its next page
  resources,  \* resources, or policies, collected so far
  warnings,   \* affected_scope of visibility_warnings
  answer      \* what the tool returned

toolVars == <<contents, call, place, targets, searched, attempt, resources, warnings, answer>>
vars == <<walkVars, toolVars>>

Answer(status, data) == [status |-> status, data |-> data]
Error == Answer("error", {})

TypeOK ==
  /\ WalkTypeOK
  /\ contents \in Collections
  /\ call \in CallType
  /\ place \in {"start", "walk", "visit", "policy", "done"}
  /\ targets \in Seq(Ids)
  /\ searched \in Seq(Resources)
  /\ attempt \in 1..2
  /\ resources \in Seq(IF call.tool = "list_resources" THEN Resources ELSE Listed)
  /\ warnings \subseteq Ids
  /\ answer.status \in {"none", "success", "needs_confirmation", "error"}
  /\ place = "done" <=> answer.status # "none"

Init ==
  /\ WalkInit
  /\ contents \in Collections
  /\ call \in Calls
  /\ place = "start"
  /\ targets = << >> /\ searched = << >> /\ attempt = 1
  /\ resources = << >> /\ warnings = {}
  /\ answer = Answer("none", {})

-----------------------------------------------------------------------------
Return(a) == place' = "done" /\ answer' = a

ToolStep == UNCHANGED walkVars

(* The payload is refused, or the compartments are listed first, or the    *)
(* one that was named is visited.                                          *)
Reject ==
  /\ place = "start" /\ ~call.valid
  /\ Return(Error)
  /\ ToolStep /\ UNCHANGED <<contents, call, targets, searched, attempt, resources, warnings>>

ById  == call.tool = "get_policy" /\ call.name = ""
Walks == call.tool = "list_compartments" \/ (call.subtree /\ ~ById)

Start ==
  /\ place = "start" /\ call.valid
  /\ IF Walks
     THEN StartWalk(call.subtree) /\ place' = "walk" /\ UNCHANGED targets
     ELSE /\ place' = IF ById THEN "policy" ELSE "visit"
          /\ targets' = <<Root>>
          /\ ToolStep
  /\ UNCHANGED <<contents, call, searched, attempt, resources, warnings, answer>>

Walking ==
  /\ place = "walk"
  /\ WalkNext
  /\ UNCHANGED toolVars

WalkFailed ==
  /\ place = "walk" /\ walk.place = "failed"
  /\ Return(Error)
  /\ ToolStep /\ UNCHANGED <<contents, call, targets, searched, attempt, resources, warnings>>

ListCompartments ==
  /\ place = "walk" /\ walk.place = "done" /\ call.tool = "list_compartments"
  /\ LET kept == Kept(walk.found, call.subtree, call.inactiveToo, call.maxDepth) IN
     Return(Answer("success", Nodes(walk.found, kept)))
  /\ ToolStep /\ UNCHANGED <<contents, call, targets, searched, attempt, resources, warnings>>

(* The compartments to visit: resources also of inactive ones, policies of *)
(* active ones; the one that was named comes first.                        *)
Target ==
  /\ place = "walk" /\ walk.place = "done" /\ call.tool # "list_compartments"
  /\ LET kept == Kept(walk.found, TRUE, call.tool = "list_resources", NoLimit) IN
     \E order \in SetToSeqs({r.id : r \in kept} \ {Root}) : targets' = <<Root>> \o order
  /\ place' = "visit"
  /\ ToolStep /\ UNCHANGED <<contents, call, searched, attempt, resources, warnings, answer>>

-----------------------------------------------------------------------------
(***************************** list_resources ******************************)
Remaining == call.limit - Len(resources)

Searching == place = "visit" /\ call.tool = "list_resources"
                             /\ targets # << >> /\ Remaining > 0

Left == SubSeq(contents[Head(targets)], Len(searched) + 1, Len(contents[Head(targets)]))

(* A page is never longer than what is wanted; it may be shorter.          *)
PageLengths ==
  LET most == Min({Remaining - Len(searched), PageMax, Len(Left)}) IN
  Min({1, most})..most

AddAnyway(collected, item) == Append(collected, item)

AddNew(collected, item) ==
  IF item \in ToSet(collected) THEN collected ELSE Append(collected, item)

(* The items of a search that are new, as long as any are wanted.          *)
Collect(items) ==
  LET wanted == SubSeq(items, 1, Min({Remaining, Len(items)})) IN
  FoldLeft(AddNew, resources, wanted)

(* A page arrives.  It is the last of its compartment when it fills the    *)
(* limit or names no next page; what was found is then taken over.         *)
Page ==
  /\ Searching
  /\ Head(targets) \notin Denied
  /\ \E n \in PageLengths :
       LET items == searched \o SubSeq(Left, 1, n) IN
       IF Len(items) >= Remaining \/ n = Len(Left)
       THEN /\ resources' = Collect(items)
            /\ targets' = Tail(targets)
            /\ searched' = << >>
       ELSE searched' = items /\ UNCHANGED <<resources, targets>>
  /\ attempt' = 1
  /\ ToolStep /\ UNCHANGED <<contents, call, place, warnings, answer>>

PageFailsThrice ==
  /\ Searching
  /\ IF attempt <= 2 THEN attempt' = attempt + 1 /\ UNCHANGED <<place, answer>>
                     ELSE Return(Error) /\ UNCHANGED attempt
  /\ ToolStep /\ UNCHANGED <<contents, call, targets, searched, resources, warnings>>

PageFailsForever ==
  /\ Searching
  /\ attempt' = 3 - attempt
  /\ ToolStep
  /\ UNCHANGED <<contents, call, place, targets, searched, resources, warnings, answer>>

(* A page fails for a passing reason: once more, then the tool gives up.   *)
PageFails ==
  /\ Searching
  /\ IF attempt = 1 THEN attempt' = 2 /\ UNCHANGED <<place, answer>>
                    ELSE Return(Error) /\ UNCHANGED attempt
  /\ ToolStep /\ UNCHANGED <<contents, call, targets, searched, resources, warnings>>

(* Any other failure is final.                                             *)
PageUnavailable ==
  /\ Searching
  /\ Return(Error)
  /\ ToolStep /\ UNCHANGED <<contents, call, targets, searched, attempt, resources, warnings>>

PageDeniedUnnoticed ==
  /\ Searching
  /\ Head(targets) \in Denied
  /\ targets' = Tail(targets) /\ searched' = << >> /\ attempt' = 1
  /\ ToolStep /\ UNCHANGED <<contents, call, place, resources, warnings, answer>>

(* A compartment that may not be searched is passed over with a warning.   *)
PageDenied ==
  /\ Searching
  /\ Head(targets) \in Denied
  /\ warnings' = warnings \union {Head(targets)}
  /\ targets' = Tail(targets) /\ searched' = << >> /\ attempt' = 1
  /\ ToolStep /\ UNCHANGED <<contents, call, place, resources, answer>>

ListResources ==
  /\ place = "visit" /\ call.tool = "list_resources"
  /\ targets = << >> \/ Remaining <= 0
  /\ Return(Answer("success", ToSet(resources)))
  /\ ToolStep /\ UNCHANGED <<contents, call, targets, searched, attempt, resources, warnings>>

-----------------------------------------------------------------------------
(*********************** list_policies, get_policy *************************)
(* The policies of the next compartment, or the first page of them.        *)
PoliciesOf(c) == SubSeq(Policies[c], 1, Min({PolicyPage, Len(Policies[c])}))

VisitPolicies ==
  /\ place = "visit" /\ call.tool \in {"list_policies", "get_policy"}
  /\ targets # << >>
  /\ resources' = FoldLeft(AddNew, resources, PoliciesOf(Head(targets)))
  /\ targets' = Tail(targets)
  /\ ToolStep /\ UNCHANGED <<contents, call, place, searched, attempt, warnings, answer>>

PoliciesFail ==
  /\ \/ place = "visit" /\ targets # << >> /\ call.tool \in {"list_policies", "get_policy"}
     \/ place = "policy"
  /\ Return(Error)
  /\ ToolStep /\ UNCHANGED <<contents, call, targets, searched, attempt, resources, warnings>>

ListPolicies ==
  /\ place = "visit" /\ call.tool = "list_policies" /\ targets = << >>
  /\ Return(Answer("success", ToSet(resources)))
  /\ ToolStep /\ UNCHANGED <<contents, call, targets, searched, attempt, resources, warnings>>

(* _resolve_policy_candidates: those of that very name, or else those it   *)
(* is part of.                                                             *)
CandidatesAny(policies) ==
  LET partial == {p \in ToSet(policies) : <<call.name, p.name>> \in PartOf \/ p.name = call.name} IN
  IF partial = {} THEN {} ELSE {CHOOSE p \in partial : TRUE}

Candidates(policies) ==
  LET exact   == {p \in ToSet(policies) : p.name = call.name}
      partial == {p \in ToSet(policies) : <<call.name, p.name>> \in PartOf} IN
  IF exact # {} THEN exact ELSE partial

ResolvePolicy ==
  /\ place = "visit" /\ call.tool = "get_policy" /\ targets = << >>
  /\ LET candidates == Candidates(resources) IN
     IF Cardinality(candidates) = 1
     THEN place' = "policy" /\ UNCHANGED answer
     ELSE Return(IF candidates = {} THEN Error
                 ELSE Answer("needs_confirmation", candidates))
  /\ ToolStep /\ UNCHANGED <<contents, call, targets, searched, attempt, resources, warnings>>

GetPolicy ==
  /\ place = "policy"
  /\ Return(Answer("success", Candidates(resources)))
  /\ ToolStep /\ UNCHANGED <<contents, call, targets, searched, attempt, resources, warnings>>

-----------------------------------------------------------------------------
Administrator ==
  /\ \E c \in Ids, d \in Ids : Move(c, d)
  /\ UNCHANGED toolVars

Tool ==
  \/ Reject \/ Start \/ Walking \/ WalkFailed
  \/ ListCompartments \/ Target
  \/ Page \/ PageFails \/ PageUnavailable \/ PageDenied \/ ListResources
  \/ VisitPolicies \/ PoliciesFail \/ ListPolicies \/ ResolvePolicy \/ GetPolicy

Next == Tool \/ Administrator

Spec == Init /\ [][Next]_vars

(* Every call of a client returns or raises, and the tool goes on.         *)
FairSpec == Spec /\ WF_vars(Tool)

-----------------------------------------------------------------------------
Succeeded(tool) == answer.status = "success" /\ call.tool = tool

(* The depth of a listed compartment that is not Doubtful is its distance  *)
(* to the root in what was recorded, whether it was reached from the root  *)
(* or the root could not be read, and its path has one name per level from *)
(* the root on unless a compartment above it was filtered out: the code    *)
(* computes the two by different walks, one of them before the filter and  *)
(* one after.                                                              *)
NodesPlaced ==
  Succeeded("list_compartments") =>
    \A n \in {m \in answer.data : m.id \notin Doubtful} :
      LET chain == ChainAbove(walk.found, n.id)
          ids   == {m.id : m \in answer.data} IN
      /\ n.depth = IF n.id = Root THEN 0 ELSE Len(chain)
      /\ (n.id = Root \/ ToSet(Front(chain)) \subseteq ids) =>
           Len(n.path) = n.depth + 1 /\ n.path[1] = Root

(* The compartments whose resources were asked for.                        *)
Asked == IF call.subtree THEN {Root} \union FoundIds ELSE {Root}

HasTwice(S) ==
  \/ \E c, d \in S : c # d /\ ToSet(contents[c]) \cap ToSet(contents[d]) # {}
  \/ \E c \in S : ~IsInjective(contents[c])

(* list_resources is complete unless it says otherwise: when fewer than    *)
(* limit are returned, every resource of every compartment was returned    *)
(* but those of the scopes reported as not visible, however the search was *)
(* cut into pages and whatever was retried.  A resource that is found      *)
(* twice is the exception: the second time it uses up a place.             *)
CompleteUnlessSaid ==
  Succeeded("list_resources") /\ Len(resources) < call.limit =>
    \/ answer.data = UNION {ToSet(contents[c]) : c \in Asked \ warnings}
    \/ HasTwice(Asked)

(* No answer holds more than limit resources or one of them twice.         *)
WithinLimit ==
  call.tool = "list_resources" =>
    /\ Len(resources) <= call.limit
    /\ Cardinality(ToSet(resources)) = Len(resources)

(* Every call of a tool returns: the walk ends although compartments move  *)
(* while it runs, the pages end, and the retries do.                       *)
AlwaysReturns == <>(place = "done")

(* A policy asked for by name is never picked among several: it is the     *)
(* only one of that name, or with none of that name the only one it is     *)
(* part of, on the pages that were read of the compartments in question.   *)
Read ==
  LET visited == IF call.subtree THEN {r.id : r \in {q \in walk.found : q.active}} ELSE {} IN
  UNION {ToSet(PoliciesOf(c)) : c \in visited \union {Root}}

PolicyNotPicked ==
  Succeeded("get_policy") =>
    \A p \in answer.data, q \in Read :
      /\ q.name = call.name => q = p
      /\ p.name # call.name /\ <<call.name, q.name>> \in PartOf => q = p

=============================================================================
