---------------------------- MODULE MCDelegation ----------------------------
(***************************************************************************)
(* Instances of Delegation for TLC: the delegating agent a, the peer b it  *)
(* can reach, and agents that are blocked, tied with another, or have no   *)
(* address.  Two inputs differ under one key; one is at the hop limit, one *)
(* lacks its key, one asks for what the peer no longer supports; the       *)
(* others are not sent.                                                    *)
(***************************************************************************)
EXTENDS Delegation, TLC

Entry(id, operations, priority) ==
  [id |-> id, trusted |-> TRUE, operations |-> operations, priority |-> priority,
   hasUrl |-> TRUE]

MCRegistry ==
  { Entry("b", {"create_user", "get_user", "list_groups", "list_users"}, 2),
    Entry("c", {"list_users"}, 2),
    [Entry("d", {"get_user"}, 1) EXCEPT !.trusted = FALSE],
    [Entry("e", {"get_group"}, 1) EXCEPT !.hasUrl = FALSE] }

Create ==
  [objective |-> TRUE, operation |-> "create_user", wellFormed |-> TRUE,
   hopCount |-> 0, visited |-> {}, key |-> "k1", fingerprint |-> "f1"]

Deliverable ==
  { Create,
    [Create EXCEPT !.fingerprint = "f2"],
    [Create EXCEPT !.hopCount = MaxHops] }

Unsent ==
  { [Create EXCEPT !.objective = FALSE],
    [Create EXCEPT !.operation = ""],
    [Create EXCEPT !.wellFormed = FALSE],
    [Create EXCEPT !.visited = {"b"}],
    [Create EXCEPT !.operation = "list_users"],
    [Create EXCEPT !.operation = "get_group"] }

MCInputs == Deliverable \union Unsent

OneCreate == { Create }

DelegationSymmetry == Permutations(Delegations)

=============================================================================
