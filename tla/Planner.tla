------------------------------ MODULE Planner ------------------------------
(***************************************************************************)
(* ActionPlanner.create_plan, and the calls of IdentityTools and           *)
(* Investigation its plans lead to.  The kind of request is told from the  *)
(* words of the prompt; for most, a language model plans, and rules then   *)
(* rewrite its plan, one after the other, by the words of the prompt.      *)
(*                                                                         *)
(* A prompt is the set of its words, one for each combination of lists of  *)
(* hints a word is on, and what the patterns find in it: the fields of a   *)
(* user, the name of a group, whether a policy is named.                   *)
(***************************************************************************)
EXTENDS Investigation

ASSUME NoneAssumption == None \notin HighRisk

UserWords          == {"user"}
MakeWords          == {"make", "add"}
AddWords           == {"add", "join"}
RemoveWords        == {"remove", "detach"}
ImpactWords        == {"affect", "remove"}
DenialWords        == {"denied"}
InvestigationWords == {"may"}
DelegationWords    == {"delegate"}

Says(p, words) == p.words \intersect words # {}

Step(tool, u, g, policy) == [tool |-> tool, user |-> u, group |-> g, policy |-> policy]

Blank(tool) == Step(tool, << >>, << >>, FALSE)

-----------------------------------------------------------------------------
(************************ what a prompt asks for ***************************)
RequestType(p) ==
  CASE Says(p, DenialWords) -> "access_denial_troubleshooting"
    [] ~Says(p, DenialWords) /\ Says(p, InvestigationWords) -> "permission_investigation"
    [] OTHER -> "single_tool_passthrough"

(* _group_membership_action, as the tool for it: removing goes first.      *)
MembershipTool(p) ==
  CASE "group" \in p.words /\ Says(p, RemoveWords) -> "remove_user_from_group"
    [] "group" \in p.words /\ ~Says(p, RemoveWords) /\ Says(p, AddWords) -> "add_user_to_group"
    [] OTHER -> None

IsCreateUserIntent(p) ==
  Says(p, UserWords) /\ Says(p, MakeWords) /\ "group" \notin p.words

IsPolicyImpact(p) == p.policy /\ "policy" \in p.words /\ Says(p, ImpactWords)

(* _infer_create_user_inputs, _infer_group_membership_inputs,              *)
(* _infer_user_selector_inputs: fields a tool takes from the prompt.       *)
Named(p, fields) == Restrict(p.user, DOMAIN p.user \intersect fields)

Inferred(p, tool) ==
  CASE tool = "create_user" -> Step(tool, Named(p, HrFields \ {"emp_id"}), << >>, FALSE)
    [] tool \in HighRisk \ {"create_user"} ->
         Step(tool, Named(p, {"email", "user_name", "name", "family_name_kanji", "given_name_kanji"}),
              p.group, FALSE)
    [] tool \in {"get_user", "get_last_successful_login"} -> Step(tool, p.user, << >>, FALSE)
    [] tool = "get_policy" -> Step(tool, << >>, << >>, p.policy)
    [] OTHER -> Blank(tool)

(* setdefault and update: what the model gave stays.                       *)
Merged(step, inferred) ==
  [step EXCEPT !.user = @ @@ inferred.user, !.group = @ @@ inferred.group,
               !.policy = @ \/ inferred.policy]

-----------------------------------------------------------------------------
(****************************** the rules **********************************)
(* The plan is one call of tool, with the inputs of its first step that    *)
(* calls it, if there is one, and what the prompt adds.                    *)
Only(p, steps, tool) ==
  LET i == SelectInSeq(steps, LAMBDA s : s.tool = tool) IN
  <<Merged(IF i = 0 THEN Blank(tool) ELSE steps[i], Inferred(p, tool))>>

EnforceGroupMembership(p, steps) ==
  IF MembershipTool(p) = None THEN steps ELSE Only(p, steps, MembershipTool(p))

EnforceCreateUser(p, steps) ==
  IF IsCreateUserIntent(p) THEN Only(p, steps, "create_user") ELSE steps

EnforcePolicyLookup(p, steps) ==
  IF IsPolicyImpact(p) THEN Only(p, steps, "get_policy") ELSE steps

EnforceUserLookup(p, steps) ==
  [i \in DOMAIN steps |->
     IF steps[i].tool \in {"get_user", "get_last_successful_login"}
     THEN Merged(steps[i], Inferred(p, steps[i].tool)) ELSE steps[i]]

EnforcedPolicyFirst(p, steps) ==
  EnforceUserLookup(p, EnforceCreateUser(p,
    EnforceGroupMembership(p, EnforcePolicyLookup(p, steps))))

Enforced(p, steps) ==
  EnforceUserLookup(p, EnforcePolicyLookup(p,
    EnforceCreateUser(p, EnforceGroupMembership(p, steps))))

(* The tool that is planned when the model has nothing to offer.           *)
FallbackTool(p) ==
  CASE MembershipTool(p) # None -> MembershipTool(p)
    [] MembershipTool(p) = None /\ "list resources" \in p.words -> "list_resources"
    [] OTHER ->
         IF "policy" \in p.words
         THEN IF p.policy THEN "get_policy" ELSE "list_policies"
         ELSE IF "compartment" \in p.words THEN "list_compartments"
         ELSE IF "group" \in p.words THEN "list_groups"
         ELSE IF "make" \in p.words THEN "create_user" ELSE "list_users"

(* A step of the model; a reference to another step is no input.           *)
Normalized(p, step) ==
  Merged([step EXCEPT !.user = IF step.tool = "create_user" THEN Given(@) ELSE @],
         IF step.tool \in HighRisk \ {"create_user"} THEN Blank(step.tool)
                                                     ELSE Inferred(p, step.tool))

(* The steps of create_plan; raw are those of the model, if it has any.    *)
PlanSteps(p, raw) ==
  IF Says(p, DelegationWords) THEN <<Blank("delegate_to_peer")>>
  ELSE Enforced(p, IF raw = << >>
                   THEN <<Merged(Blank(FallbackTool(p)), Inferred(p, FallbackTool(p)))>>
                   ELSE [i \in DOMAIN raw |-> Normalized(p, raw[i])])

(* find_missing_inputs.                                                    *)
Complete(step) ==
  CASE step.tool \in HighRisk \ {"create_user"} -> step.user # << >> /\ step.group # << >>
    [] step.tool \in {"get_user", "get_last_successful_login"} -> step.user # << >>
    [] step.tool = "get_policy" -> step.policy
    [] OTHER -> TRUE

-----------------------------------------------------------------------------
(* The calls a prompt leads to: the workflow that was detected, or those   *)
(* steps of its plan that call IdentityTools.  asked keeps the prompt and  *)
(* planned what the model wanted to call.                                  *)
CallsOf(p, raw) ==
  LET planned == {raw[i].tool : i \in DOMAIN raw}
      NewCall(op, u, g) ==
        [op |-> op, selector |-> u, group |-> g, context |-> "none", action |-> "read",
         complete |-> TRUE, asked |-> {p}, planned |-> planned] IN
  CASE RequestType(p) = "access_denial_troubleshooting" -> {NewCall("diagnose", p.user, << >>)}
    [] RequestType(p) = "permission_investigation" -> {NewCall("investigate", p.user, << >>)}
    [] OTHER ->
         {NewCall(s.tool, s.user, s.group) :
            s \in {t \in ToSet(PlanSteps(p, raw)) : t.tool \in Tools /\ Complete(t)}}

(* What is changed was asked for, whatever the model planned and in        *)
(* whichever order the rules rewrote its plan: a prompt about permissions, *)
(* about a denied access, about the effects of a policy or for another     *)
(* agent changes nothing here, even if it speaks of groups and of          *)
(* removing; one that speaks of membership changes it in the direction it  *)
(* says and creates nobody; and no change is made of which neither the     *)
(* prompt nor the model spoke.                                             *)
WritesAsAsked ==
  \A w \in written, p \in call.asked :
    LET membership == "group" \in p.words /\ Says(p, AddWords \union RemoveWords) IN
    /\ ~Says(p, DenialWords \union InvestigationWords \union DelegationWords)
    /\ ~(p.policy /\ "policy" \in p.words /\ Says(p, ImpactWords))
    /\ membership => w[1] = IF Says(p, RemoveWords) THEN "remove_user_from_group"
                                                    ELSE "add_user_to_group"
    /\ w[1] = "create_user" => w[1] \in call.planned \/ Says(p, MakeWords)
    /\ w[1] # "create_user" => w[1] \in call.planned \/ membership

=============================================================================
