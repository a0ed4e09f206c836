--------------------------- MODULE Planner_proofs ---------------------------
(***************************************************************************)
(* What is changed was asked for: for any prompt and any plan of the model.*)
(***************************************************************************)
EXTENDS Planner, Investigation_proofs

(* A sequence of steps: each has a tool.                                   *)
IsPlan(steps) ==
  /\ Len(steps) \in Nat /\ DOMAIN steps = 1..Len(steps)
  /\ \A i \in DOMAIN steps : "tool" \in DOMAIN steps[i]

ToolsOf(steps) == {steps[i].tool : i \in DOMAIN steps}

(* What a prompt and a model's tools say of a tool that changes something. *)
AsAsked(tool, p, planned) ==
  LET membership == "group" \in p.words /\ Says(p, AddWords \union RemoveWords) IN
  /\ ~Says(p, DenialWords \union InvestigationWords \union DelegationWords)
  /\ ~(p.policy /\ "policy" \in p.words /\ Says(p, ImpactWords))
  /\ membership => tool = IF Says(p, RemoveWords) THEN "remove_user_from_group"
                                                  ELSE "add_user_to_group"
  /\ tool = "create_user" => tool \in planned \/ Says(p, MakeWords)
  /\ tool # "create_user" => tool \in planned \/ membership

-----------------------------------------------------------------------------
LEMMA MergedKeepsTool ==
  ASSUME NEW step, "tool" \in DOMAIN step, NEW inferred
  PROVE  "tool" \in DOMAIN Merged(step, inferred) /\ Merged(step, inferred).tool = step.tool
BY DEF Merged

LEMMA BlankHasTool ==
  ASSUME NEW tool
  PROVE  "tool" \in DOMAIN Blank(tool) /\ Blank(tool).tool = tool
BY DEF Blank, Step

LEMMA MinIsAmong ==
  ASSUME NEW I, I \subseteq Nat, I # {}
  PROVE  Min(I) \in I
BY SmallestNumber DEF Min

LEMMA OnlyOneTool ==
  ASSUME NEW p, NEW steps, IsPlan(steps), NEW tool
  PROVE  IsPlan(Only(p, steps, tool)) /\ ToolsOf(Only(p, steps, tool)) = {tool}
<1> DEFINE i == SelectInSeq(steps, LAMBDA s : s.tool = tool)
           first == IF i = 0 THEN Blank(tool) ELSE steps[i]
           only == Merged(first, Inferred(p, tool))
<1>1. "tool" \in DOMAIN first /\ first.tool = tool
  <2> DEFINE fitting == {j \in 1..Len(steps) : steps[j].tool = tool}
  <2>1. i = IF fitting # {} THEN Min(fitting) ELSE 0
    BY DEF SelectInSeq
  <2>2. fitting # {} => Min(fitting) \in fitting
    BY MinIsAmong DEF IsPlan
  <2>3. i = 0 \/ i \in fitting
    BY <2>1, <2>2
  <2> QED
    BY <2>3, BlankHasTool DEF IsPlan
<1>2. "tool" \in DOMAIN only /\ only.tool = tool
  BY <1>1, MergedKeepsTool
<1>3. Only(p, steps, tool) = <<only>>
  BY DEF Only
<1> HIDE DEF only
<1>4. IsPlan(<<only>>) /\ ToolsOf(<<only>>) = {tool}
  BY <1>2 DEF IsPlan, ToolsOf
<1> QED
  BY <1>3, <1>4

(* The rule for lookups adds inputs, and changes no tool.                  *)
LEMMA UserLookupKeepsTools ==
  ASSUME NEW p, NEW steps, IsPlan(steps)
  PROVE  ToolsOf(EnforceUserLookup(p, steps)) = ToolsOf(steps)
<1> DEFINE new == EnforceUserLookup(p, steps)
<1>1. DOMAIN new = DOMAIN steps
  BY DEF EnforceUserLookup
<1>2. ASSUME NEW i \in DOMAIN steps PROVE new[i].tool = steps[i].tool
  BY MergedKeepsTool DEF EnforceUserLookup, IsPlan
<1> HIDE DEF new
<1>3. ToolsOf(new) = ToolsOf(steps)
  BY <1>1, <1>2 DEF ToolsOf
<1> QED
  BY <1>3 DEF new

LEMMA NormalizedKeepsTool ==
  ASSUME NEW p, NEW step, "tool" \in DOMAIN step
  PROVE  "tool" \in DOMAIN Normalized(p, step) /\ Normalized(p, step).tool = step.tool
<1> DEFINE given == [step EXCEPT !.user = IF step.tool = "create_user" THEN Given(@) ELSE @]
           added == IF step.tool \in HighRisk \ {"create_user"} THEN Blank(step.tool)
                                                               ELSE Inferred(p, step.tool)
<1>1. "tool" \in DOMAIN given /\ given.tool = step.tool
  OBVIOUS
<1>2. Normalized(p, step) = Merged(given, added)
  BY DEF Normalized
<1> HIDE DEF given, added
<1> QED
  BY <1>1, <1>2, MergedKeepsTool

(* The last rule that applies decides; without one the tools stay.         *)
LEMMA EnforcedTools ==
  ASSUME NEW p, NEW steps, IsPlan(steps)
  PROVE  ToolsOf(Enforced(p, steps)) =
           IF IsPolicyImpact(p) THEN {"get_policy"}
           ELSE IF IsCreateUserIntent(p) THEN {"create_user"}
           ELSE IF MembershipTool(p) # None THEN {MembershipTool(p)}
           ELSE ToolsOf(steps)
<1> DEFINE one == EnforceGroupMembership(p, steps)
           two == EnforceCreateUser(p, one)
           three == EnforcePolicyLookup(p, two)
<1>1. /\ IsPlan(one)
      /\ ToolsOf(one) = IF MembershipTool(p) # None THEN {MembershipTool(p)} ELSE ToolsOf(steps)
  BY OnlyOneTool DEF EnforceGroupMembership
<1> HIDE DEF one
<1>2. /\ IsPlan(two)
      /\ ToolsOf(two) = IF IsCreateUserIntent(p) THEN {"create_user"} ELSE ToolsOf(one)
  BY <1>1, OnlyOneTool DEF EnforceCreateUser
<1> HIDE DEF two
<1>3. /\ IsPlan(three)
      /\ ToolsOf(three) = IF IsPolicyImpact(p) THEN {"get_policy"} ELSE ToolsOf(two)
  BY <1>2, OnlyOneTool DEF EnforcePolicyLookup
<1> HIDE DEF three
<1>4. Enforced(p, steps) = EnforceUserLookup(p, three)
  BY DEF Enforced, one, two, three
<1> QED
  BY <1>1, <1>2, <1>3, <1>4, UserLookupKeepsTools

(* The tools of the plan of create_plan that change something.             *)
LEMMA PlannedTools ==
  ASSUME NEW p, NEW raw, IsPlan(raw), NEW tool \in HighRisk,
         tool \in ToolsOf(PlanSteps(p, raw)),
         RequestType(p) = "single_tool_passthrough"
  PROVE  AsAsked(tool, p, ToolsOf(raw))
<1> DEFINE blank == Blank(FallbackTool(p))
           fallback == <<Merged(blank, Inferred(p, FallbackTool(p)))>>
           normal == [i \in DOMAIN raw |-> Normalized(p, raw[i])]
           steps == IF raw = << >> THEN fallback ELSE normal
<1>1. ~Says(p, DelegationWords)
  <2> SUFFICES ASSUME Says(p, DelegationWords) PROVE FALSE
    OBVIOUS
  <2>1. PlanSteps(p, raw) = <<Blank("delegate_to_peer")>>
    BY DEF PlanSteps
  <2>2. ToolsOf(<<Blank("delegate_to_peer")>>) = {"delegate_to_peer"}
    BY DEF ToolsOf, Blank, Step
  <2> QED
    BY <2>1, <2>2 DEF HighRisk
<1>2. PlanSteps(p, raw) = Enforced(p, steps)
  BY <1>1 DEF PlanSteps
<1>3. IsPlan(fallback) /\ ToolsOf(fallback) = {FallbackTool(p)}
  <2> DEFINE one == Merged(blank, Inferred(p, FallbackTool(p)))
  <2>1. "tool" \in DOMAIN one /\ one.tool = FallbackTool(p)
    BY BlankHasTool, MergedKeepsTool
  <2> HIDE DEF one
  <2>2. IsPlan(<<one>>) /\ ToolsOf(<<one>>) = {FallbackTool(p)}
    BY <2>1 DEF IsPlan, ToolsOf
  <2> QED
    BY <2>2 DEF one
<1>4. IsPlan(normal) /\ ToolsOf(normal) = ToolsOf(raw)
  <2>1. ASSUME NEW i \in DOMAIN raw
        PROVE  "tool" \in DOMAIN normal[i] /\ normal[i].tool = raw[i].tool
    BY NormalizedKeepsTool DEF IsPlan
  <2>2. DOMAIN normal = DOMAIN raw /\ Len(normal) = Len(raw)
    BY DEF IsPlan
  <2> HIDE DEF normal
  <2> QED
    BY <2>1, <2>2 DEF IsPlan, ToolsOf
<1> HIDE DEF fallback, normal
<1>5. /\ IsPlan(steps)
      /\ ToolsOf(steps) = IF raw = << >> THEN {FallbackTool(p)} ELSE ToolsOf(raw)
  BY <1>3, <1>4
<1> HIDE DEF steps
<1>6. ~IsPolicyImpact(p)
  BY <1>2, <1>5, EnforcedTools DEF HighRisk
<1>7. ~Says(p, DenialWords) /\ ~Says(p, InvestigationWords)
  BY DEF RequestType
<1>8. MembershipTool(p) \in {"add_user_to_group", "remove_user_from_group", None}
  BY DEF MembershipTool
<1>9. "group" \in p.words /\ Says(p, AddWords \union RemoveWords) =>
        MembershipTool(p) = IF Says(p, RemoveWords) THEN "remove_user_from_group"
                                                    ELSE "add_user_to_group"
  BY DEF MembershipTool, Says
<1>10. MembershipTool(p) # None =>
         "group" \in p.words /\ Says(p, AddWords \union RemoveWords)
  BY DEF MembershipTool, Says
<1>11. CASE IsCreateUserIntent(p)
  <2>1. tool = "create_user" /\ Says(p, MakeWords) /\ "group" \notin p.words
    BY <1>2, <1>5, <1>6, <1>11, EnforcedTools DEF IsCreateUserIntent
  <2> QED
    BY <2>1, <1>1, <1>6, <1>7 DEF AsAsked, Says, IsPolicyImpact
<1>12. CASE ~IsCreateUserIntent(p) /\ MembershipTool(p) # None
  <2>1. tool = MembershipTool(p) /\ tool # "create_user"
    BY <1>2, <1>5, <1>6, <1>8, <1>12, EnforcedTools
  <2>2. "group" \in p.words /\ Says(p, AddWords \union RemoveWords)
    BY <1>10, <1>12
  <2> QED
    BY <2>1, <2>2, <1>1, <1>6, <1>7, <1>9 DEF AsAsked, Says, IsPolicyImpact
<1>13. CASE ~IsCreateUserIntent(p) /\ MembershipTool(p) = None
  <2>1. tool \in IF raw = << >> THEN {FallbackTool(p)} ELSE ToolsOf(raw)
    BY <1>2, <1>5, <1>6, <1>13, EnforcedTools
  <2>2. ~("group" \in p.words /\ Says(p, AddWords \union RemoveWords))
    BY <1>9, <1>13, NoneAssumption DEF HighRisk
  <2>3. tool = FallbackTool(p) => tool = "create_user" /\ Says(p, MakeWords)
    BY <1>13 DEF FallbackTool, HighRisk, Says, MakeWords
  <2>4. tool \in ToolsOf(raw) \/ (tool = "create_user" /\ Says(p, MakeWords))
    BY <2>1, <2>3
  <2> QED
    BY <2>2, <2>4, <1>1, <1>6, <1>7 DEF AsAsked, Says, IsPolicyImpact
<1> QED
  BY <1>11, <1>12, <1>13

LEMMA PlannedCalls ==
  ASSUME NEW p, NEW raw, IsPlan(raw), NEW c \in CallsOf(p, raw), c.op \in HighRisk
  PROVE  AsAsked(c.op, p, c.planned)
<1> DEFINE planned == {raw[i].tool : i \in DOMAIN raw}
<1>1. planned = ToolsOf(raw)
  BY DEF ToolsOf
<1>2. RequestType(p) = "single_tool_passthrough"
  BY DEF CallsOf, HighRisk, RequestType
<1>3. PICK s \in ToSet(PlanSteps(p, raw)) : c.op = s.tool /\ c.planned = planned
  BY <1>2 DEF CallsOf
<1>4. c.op \in ToolsOf(PlanSteps(p, raw))
  BY <1>3 DEF ToSet, ToolsOf
<1>5. AsAsked(c.op, p, ToolsOf(raw))
  BY <1>2, <1>4, PlannedTools
<1>6. c.planned = ToolsOf(raw)
  BY <1>1, <1>3
<1> QED
  BY <1>5, <1>6

(* When every call that was asked for in a prompt comes from a plan        *)
(* create_plan made of it, whatever the model proposed, what is changed    *)
(* was asked for.                                                          *)
THEOREM WritesWereAsked ==
  ASSUME \A c \in Calls : \A p \in c.asked : \E raw : IsPlan(raw) /\ c \in CallsOf(p, raw)
  PROVE  Spec => []WritesAsAsked
<1>1. Init => call \in Calls
  BY DEF Init, IdInit
<1>2. call \in Calls /\ [Next]_vars => (call \in Calls)'
  BY DEF Next, ToolNext, Begin, ReadFails, HrForSelector, HrForCreate, GetById,
     LookUpUser, FindGroup, Patch, Create, WriteFails, Others, Investigate, Ask,
     ListUsers, QueryHr, Fallback, FallbackFails, GetUser, ListGroups, ListPolicies,
     RequestFails, Conclude, vars, idVars
<1>3. call \in Calls /\ IInv => WritesAsAsked
  <2> SUFFICES ASSUME call \in Calls, IInv, NEW w \in written, NEW p \in call.asked
               PROVE  AsAsked(w[1], p, call.planned)
    BY DEF WritesAsAsked, AsAsked
  <2>1. w[1] = call.op /\ call.op \in HighRisk
    BY DEF IInv, OwnWrites
  <2>2. PICK raw : IsPlan(raw) /\ call \in CallsOf(p, raw)
    OBVIOUS
  <2> QED
    BY <2>1, <2>2, PlannedCalls
<1> QED
  BY <1>1, <1>2, <1>3, Invariance, PTL DEF Spec

=============================================================================
