----------------------------- MODULE MCOciTools -----------------------------
(***************************************************************************)
(* OciTools over a root r with compartments a and b, and c below a.        *)
(***************************************************************************)
EXTENDS OciTools

Shapes(rootParent) ==
  [r |-> rootParent, a |-> "r", b |-> "r", c |-> "a"]

MCWorlds ==
  {[parent |-> Shapes(p), inactive |-> i, unlistable |-> {}] :
     p \in {None, Outside}, i \in {{}, {"a"}}}
  \union {[parent |-> Shapes(p), inactive |-> {"a"}, unlistable |-> {"b"}] :
            p \in {None, Outside}}

Distinct == [r |-> <<"x">>, a |-> <<"y1", "y2">>, b |-> << >>, c |-> <<"z1", "z2", "z3">>]
Shared   == [Distinct EXCEPT !["b"] = <<"x", "y1">>]

MCCollections == {Distinct, Shared}

Policy(id, name) == [id |-> id, name |-> name]

MCPolicies ==
  [r |-> <<Policy(1, "dev"), Policy(2, "ops")>>, a |-> <<Policy(3, "dev")>>,
   b |-> <<Policy(4, "ops admin")>>,
   c |-> <<Policy(5, "net admin"), Policy(6, "dev"), Policy(7, "ops")>>]

MCPartOf == {<<"admin", "ops admin">>, <<"admin", "net admin">>, <<"ops", "ops admin">>}

Call ==
  [tool |-> "list_compartments", valid |-> TRUE, subtree |-> TRUE,
   inactiveToo |-> FALSE, maxDepth |-> NoLimit, limit |-> 4, name |-> ""]

MCCalls ==
  {[Call EXCEPT !.valid = FALSE], [Call EXCEPT !.subtree = FALSE],
   [Call EXCEPT !.inactiveToo = TRUE], [Call EXCEPT !.maxDepth = 1]}
  \union {[Call EXCEPT !.tool = "list_resources", !.limit = l] : l \in {4, 9}}
  \union {[Call EXCEPT !.tool = "list_resources", !.subtree = FALSE, !.limit = l] :
            l \in {1, 4}}
  \union {[Call EXCEPT !.tool = "list_policies", !.subtree = s] : s \in BOOLEAN}
  \union {[Call EXCEPT !.tool = "get_policy", !.subtree = s, !.name = n] :
            s \in BOOLEAN, n \in {"", "dev", "ops", "admin"}}

=============================================================================
