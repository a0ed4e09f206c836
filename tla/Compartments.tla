---------------------------- MODULE Compartments ----------------------------
(***************************************************************************)
(* OciIdentityClient.list_compartments and the nodes list_compartments of  *)
(* OciCompartmentTools makes of its answer: one listing gives the subtree  *)
(* of the tenancy; below any other compartment the subtree is walked       *)
(* breadth first, one listing per compartment.  Every listing is read page *)
(* by page, a request each, while administrators may move compartments     *)
(* about.  Then inactive ones and those too deep are dropped, and what is  *)
(* left gets a depth and a path.                                           *)
(*                                                                         *)
(* Assumed of the service: the pages of a listing follow an order of the   *)
(* compartments that no move changes, so that each has its turn once and   *)
(* is listed if it belongs to the listing at that moment.                  *)
(*                                                                         *)
(* The name of a compartment is its id.                                    *)
(***************************************************************************)
EXTENDS Integers, SequencesExt, FiniteSetsExt

CONSTANTS
  Ids,          \* compartments, Root among them
  Root,         \* the compartment_ocid that is asked about
  Outside,      \* the parent of Root, unless Root is the tenancy
  Worlds,       \* what the tenancy may be like: see WorldType
  MaxMoves,     \* bound on the moves during a walk
  None          \* no parent: Root is the tenancy

ASSUME TenancyAssumption ==
  /\ IsFiniteSet(Ids) /\ Root \in Ids /\ Outside \notin Ids /\ None \notin Ids
  /\ MaxMoves \in Nat

WorldType ==
  [parent     : [Ids -> Ids \union {Outside, None}],
   inactive   : SUBSET Ids,   \* their lifecycle_state is INACTIVE or DELETED
   unlistable : SUBSET Ids]   \* listing their children fails

ASSUME WorldsAssumption == Worlds \subseteq WorldType

VARIABLES
  world,    \* the tenancy
  moved,    \* history: compartments moved during the walk, with all below them
  moves,    \* how many moves there were
  walk      \* the call of list_compartments

walkVars == <<world, moved, moves, walk>>

Recorded == [id : Ids, parent : Ids \union {Outside, None}, active : BOOLEAN]

WalkType ==
  [place : {"off", "once", "root", "children", "append", "done", "failed"},
   subtree : BOOLEAN,          \* include_subtree
   queue : Seq(Ids),
   passed : SUBSET Ids,        \* whose turn is over in the listing being read
   listed : SUBSET Recorded,   \* what its pages held so far
   found : SUBSET Recorded]    \* results

NoWalk ==
  [place |-> "off", subtree |-> FALSE, queue |-> << >>, passed |-> {}, listed |-> {},
   found |-> {}]

WalkTypeOK ==
  /\ world \in WorldType
  /\ moved \subseteq Ids
  /\ moves \in 0..MaxMoves
  /\ walk \in WalkType

WalkInit ==
  /\ world \in Worlds
  /\ moved = {}
  /\ moves = 0
  /\ walk = NoWalk

-----------------------------------------------------------------------------
(******************************* the tenancy *******************************)
Children(c) == {d \in Ids : world.parent[d] = c}

Below(c) ==
  LET below[n \in Nat] == IF n = 0 THEN {c}
                          ELSE UNION {{d} \union Children(d) : d \in below[n - 1]}
  IN below[Cardinality(Ids)]

Record(c) == [id |-> c, parent |-> world.parent[c], active |-> c \notin world.inactive]

Records(S) == {Record(c) : c \in S}

(* An administrator moves a compartment below another.                     *)
Move(c, d) ==
  /\ walk.place \in {"once", "root", "children", "append"}
  /\ moves < MaxMoves
  /\ c # Root /\ d \notin Below(c) /\ world.parent[c] # d
  /\ world' = [world EXCEPT !.parent[c] = d]
  /\ moved' = moved \union Below(c)
  /\ moves' = moves + 1
  /\ UNCHANGED walk

-----------------------------------------------------------------------------
(****************************** the client *********************************)
FoundIds == {r.id : r \in walk.found}

WalkStep == UNCHANGED <<world, moved, moves>>

StartWalk(subtree) ==
  /\ walk.place = "off"
  /\ walk' = [NoWalk EXCEPT !.place = "once", !.subtree = subtree]
  /\ WalkStep

(* The subtree of the tenancy is one listing; that of any other            *)
(* compartment is refused.                                                 *)
AtOnce        == walk.subtree /\ world.parent[Root] = None
RefusedAtOnce == walk.subtree /\ world.parent[Root] # None

Refuse ==
  /\ walk.place = "once" /\ RefusedAtOnce
  /\ walk' = [walk EXCEPT !.place = "root"]
  /\ WalkStep

(* The listing of _list_compartments_once that is under way: of whom, and  *)
(* who belongs to it at this moment.                                       *)
Listing ==
  \/ walk.place = "once" /\ ~RefusedAtOnce
  \/ walk.place = "children" /\ walk.queue # << >>

Scope == IF walk.place = "once" THEN Root ELSE Head(walk.queue)

Belonging == IF AtOnce THEN Below(Root) \ {Root} ELSE Children(Scope)

(* list_call_get_all_results sends the request for one more page; the root *)
(* itself is on none.                                                      *)
Others == Ids \ {Root}

ReadPage ==
  /\ Listing /\ Scope \notin world.unlistable
  /\ \E turns \in SUBSET (Others \ walk.passed) :
       /\ turns # {}
       /\ walk' = [walk EXCEPT !.passed = @ \union turns,
                               !.listed = @ \union Records(turns \intersect Belonging)]
  /\ WalkStep

AllRead == Listing /\ Scope \notin world.unlistable /\ walk.passed = Others

(* What _list_compartments_once returned is the answer, root aside.        *)
ListOnce ==
  /\ walk.place = "once" /\ AllRead
  /\ walk' = [walk EXCEPT !.place = IF walk.subtree THEN "append" ELSE "done",
                          !.found = walk.listed, !.passed = {}, !.listed = {}]
  /\ WalkStep

(* _list_compartments_recursive, up to its loop: a root that cannot be     *)
(* read is passed over.                                                    *)
WalkRoot ==
  /\ walk.place = "root"
  /\ \E root \in {{}, {Root}} :
       walk' = [walk EXCEPT !.place = "children", !.queue = <<Root>>,
                            !.found = Records(root)]
  /\ WalkStep

SeenParentsOnly == {Root} \union ToSet(walk.queue)
SeenInactiveToo == {Root} \union FoundIds \union world.inactive
Seen == {Root} \union FoundIds

(* One turn of the loop, after its listing: the children of the next       *)
(* compartment came in some order, and those not seen yet are queued.      *)
WalkChildren ==
  /\ walk.place = "children" /\ AllRead
  /\ LET new == {r \in walk.listed : r.id \notin Seen} IN
     \E order \in SetToSeqs({r.id : r \in new}) :
       walk' = [walk EXCEPT !.queue = Tail(@) \o order, !.found = @ \union new,
                            !.passed = {}, !.listed = {}]
  /\ WalkStep

EndOfQueue ==
  /\ walk.place = "children" /\ walk.queue = << >>
  /\ walk' = [walk EXCEPT !.place = "append"]
  /\ WalkStep

(* The failure of any request is that of list_compartments.                *)
WalkFails ==
  /\ Listing
  /\ walk' = [NoWalk EXCEPT !.place = "failed", !.subtree = walk.subtree]
  /\ WalkStep

(* _append_root_compartment: the root, unless it is there or unreadable.   *)
AppendRoot ==
  /\ walk.place = "append"
  /\ \E root \in {{}, {Root} \ FoundIds} :
       walk' = [walk EXCEPT !.place = "done", !.found = @ \union Records(root)]
  /\ WalkStep

WalkNext ==
  \/ Refuse \/ ReadPage \/ ListOnce
  \/ WalkRoot \/ WalkChildren \/ EndOfQueue \/ WalkFails \/ AppendRoot

-----------------------------------------------------------------------------
(****************************** its answer *********************************)
RecordOf(records, c) == CHOOSE r \in records : r.id = c

Has(records, c) == \E r \in records : r.id = c

(* The chain of parents above c: up to Root, to one that is not recorded,  *)
(* or to the last before one repeats.                                      *)
ChainAbove(records, c) ==
  LET climb[above \in Seq(Ids \union {Outside})] ==
        LET current == IF above = << >> THEN c ELSE Last(above)
            parent  == RecordOf(records, current).parent IN
        IF \/ above # << >> /\ current = Root
           \/ ~Has(records, current)
           \/ parent \in {None} \union ToSet(above)
        THEN above
        ELSE climb[Append(above, parent)]
  IN climb[<< >>]

(* The compartments recorded no further than n below Root: the breadth-    *)
(* first search of _build_depth_map after n layers.                        *)
Within(records) ==
  LET within[n \in Nat] ==
        IF n = 0 THEN {Root} \intersect {r.id : r \in records}
        ELSE UNION {{c} \union {r.id : r \in {q \in records : q.parent = c}} : c \in within[n - 1]}
  IN within

(* _build_depth_map: layers from the root and, for orphans, their chain.   *)
DepthOfChildren(records, c) ==
  LET reached == {n \in 0..Cardinality(records) : c \in Within(records)[n]} IN
  IF reached # {} THEN Min(reached) ELSE Len(ChainAbove(records, c)) - 1

Depth(records, c) ==
  LET reached == {n \in 0..Cardinality(records) : c \in Within(records)[n]} IN
  IF reached # {} THEN Min(reached) ELSE Len(ChainAbove(records, c))

(* _apply_compartment_filters.  NoLimit stands for a max_depth of None.    *)
NoLimit == -1

Kept(records, subtree, inactiveToo, maxDepth) ==
  {r \in records :
     /\ r.active \/ inactiveToo
     /\ ~(subtree /\ maxDepth # NoLimit /\ Depth(records, r.id) > maxDepth)}

(* _resolve_compartment_path, over the compartments that were kept.        *)
Path(kept, c) ==
  LET climb[path \in Seq(Ids \union {Outside})] ==
        LET current == path[1]
            parent  == RecordOf(kept, current).parent IN
        IF \/ ~Has(kept, current) \/ current = Root
           \/ parent \in {None} \union ToSet(path)
        THEN path
        ELSE climb[<<parent>> \o path]
  IN climb[<<c>>]

(* _normalize_compartment_nodes; the depth is that of the filter.          *)
Nodes(records, kept) ==
  {[id |-> r.id, depth |-> Depth(records, r.id), path |-> Path(kept, r.id)] : r \in kept}

-----------------------------------------------------------------------------
(* Nothing that stayed in place is missed, wherever the walk was when      *)
(* other compartments moved past it.                                       *)
StayersFound ==
  walk.place = "done" /\ walk.subtree =>
    (Below(Root) \ {Root}) \ moved \subseteq FoundIds

(* Compartments the answer may place wrongly.  The subtree of the tenancy  *)
(* is one listing that nothing checks: those moved while its pages were    *)
(* read may be recorded below each other, in a circle.                     *)
Doubtful == IF AtOnce THEN moved ELSE {}

(* What was found is a tree although it was read piece by piece: no        *)
(* compartment is recorded twice, and the recorded parents lead from each  *)
(* to the root, never round in a circle: in a walk whatever moved          *)
(* meanwhile, in the listing of the tenancy from all that did not move.    *)
FoundIsTree ==
  /\ \A r, q \in walk.found : r.id = q.id => r = q
  /\ \A r \in walk.found :
       r.id \notin {Root} \union Doubtful =>
         LET chain == ChainAbove(walk.found, r.id) IN
         chain # << >> /\ Last(chain) = Root

=============================================================================
