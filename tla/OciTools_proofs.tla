--------------------------- MODULE OciTools_proofs ---------------------------
(***************************************************************************)
(* What the OCI tools find and list, for any tenancy, any moves during a   *)
(* call, any contents, policies and pages.                                 *)
(*                                                                         *)
(* The operators of the model recurse over layers, chains and sequences.   *)
(* RecursionIsDefined gives each of these definitions its fixed point, and *)
(* Induction, over a set of numbers, replaces induction over a predicate.  *)
(***************************************************************************)
EXTENDS OciTools, FiniteSetTheorems, SequenceTheorems, WellFoundedInduction, TLAPS

-----------------------------------------------------------------------------
(************************ numbers and recursion ****************************)
LEMMA SmallestNumber ==
  ASSUME NEW I, I \subseteq Nat, I # {}
  PROVE  \E x \in I : \A y \in I : x <= y
<1>1. PICK x \in I : \A y \in I : ~(<<y, x>> \in OpToRel(<, Nat))
  BY NatLessThanWellFounded, WFMin
<1>2. ASSUME NEW y \in I, y < x PROVE FALSE
  <2>1. <<y, x>> \in Nat \X Nat /\ <<y, x>>[1] = y /\ <<y, x>>[2] = x
    OBVIOUS
  <2>2. <<y, x>> \in OpToRel(<, Nat)
    BY <1>2, <2>1, Zenon DEF OpToRel
  <2> QED
    BY <1>1, <2>2
<1> QED
  BY <1>2

LEMMA Induction ==
  ASSUME NEW S, 0 \in S, \A n \in Nat : n \in S => n + 1 \in S
  PROVE  Nat \subseteq S
<1>1. ASSUME Nat \ S # {} PROVE FALSE
  <2>1. PICK x \in Nat \ S : \A y \in Nat \ S : x <= y
    BY <1>1, SmallestNumber
  <2>2. x # 0 /\ x - 1 \in Nat /\ ~(x <= x - 1)
    BY <2>1
  <2>3. x - 1 \in S
    BY <2>1, <2>2
  <2> QED
    BY <2>1, <2>2, <2>3
<1> QED
  BY <1>1

Maps(G, D) == G \in [D -> D]

Iterates(f, G, s, D) ==
  f \in [Nat -> D] /\ f[0] = s /\ \A n \in Nat : f[n + 1] = G[f[n]]

(* What can be started and continued can be iterated.                      *)
LEMMA CanBeIterated ==
  ASSUME NEW D, NEW s \in D, NEW G, Maps(G, D)
  PROVE  \E f : Iterates(f, G, s, D)
<1> USE DEF Maps
<1> DEFINE Begun(n) == {g \in [0..n -> D] : g[0] = s /\ \A k \in 0..(n - 1) : g[k + 1] = G[g[k]]}
           f == [n \in Nat |-> (CHOOSE g \in Begun(n) : TRUE)[n]]
<1>1. \A n \in Nat : Begun(n) # {}
  <2> DEFINE S == {n \in Nat : Begun(n) # {}}
  <2>1. 0 \in S
    <3>1. [k \in 0..0 |-> s] \in Begun(0)
      OBVIOUS
    <3> QED
      BY <3>1
  <2>2. ASSUME NEW n \in Nat, n \in S PROVE n + 1 \in S
    <3>1. PICK g : g \in Begun(n)
      BY <2>2
    <3> DEFINE h == [k \in 0..(n + 1) |-> IF k <= n THEN g[k] ELSE G[g[n]]]
    <3>2. h \in [0..(n + 1) -> D] /\ h[0] = s
      BY <3>1
    <3>3. ASSUME NEW k \in 0..n PROVE h[k + 1] = G[h[k]]
      <4>1. CASE k = n
        BY <3>1, <4>1
      <4>2. CASE k # n
        <5>1. k \in 0..(n - 1) /\ k + 1 \in 0..n /\ k + 1 <= n /\ k <= n
          BY <4>2
        <5> QED
          BY <3>1, <5>1
      <4> QED
        BY <4>1, <4>2
    <3>4. h \in Begun(n + 1)
      BY <3>2, <3>3
    <3> HIDE DEF h, Begun
    <3>5. n + 1 \in Nat /\ Begun(n + 1) # {}
      BY <3>4
    <3> QED
      BY <3>5
  <2> HIDE DEF S
  <2>3. Nat \subseteq S
    BY <2>1, <2>2, Induction
  <2> QED
    BY <2>3 DEF S
<1>2. \A n \in Nat : \A g \in Begun(n), h \in Begun(n + 1) : g[n] = h[n]
  <2> TAKE n \in Nat
  <2> TAKE g \in Begun(n), h \in Begun(n + 1)
  <2> DEFINE S == {k \in Nat : k <= n => g[k] = h[k]}
  <2>1. 0 \in S
    OBVIOUS
  <2>2. ASSUME NEW k \in Nat, k \in S PROVE k + 1 \in S
    <3>1. CASE k + 1 <= n
      <4>1. k \in 0..(n - 1) /\ k \in 0..n /\ k <= n
        BY <3>1
      <4> QED
        BY <2>2, <4>1
    <3>2. CASE ~(k + 1 <= n)
      BY <3>2
    <3> QED
      BY <3>1, <3>2
  <2> HIDE DEF S
  <2>3. Nat \subseteq S
    BY <2>1, <2>2, Induction
  <2>4. n \in S
    BY <2>3
  <2> QED
    BY <2>4 DEF S
<1>3. \A n \in Nat : \E g \in Begun(n) : f[n] = g[n]
  BY <1>1
<1> HIDE DEF f
<1>4. ASSUME NEW n \in Nat PROVE f[n + 1] = G[f[n]]
  <2>1. PICK g \in Begun(n) : f[n] = g[n]
    BY <1>3
  <2>2. PICK h \in Begun(n + 1) : f[n + 1] = h[n + 1]
    <3> HIDE DEF Begun
    <3> QED
      BY n + 1 \in Nat, <1>3
  <2>3. g[n] = h[n]
    BY <1>2
  <2>4. h[n + 1] = G[h[n]]
    <3>1. \A k \in 0..((n + 1) - 1) : h[k + 1] = G[h[k]]
      BY <2>2
    <3>2. n \in 0..((n + 1) - 1)
      OBVIOUS
    <3> QED
      BY <3>1, <3>2
  <2> QED
    BY <2>1, <2>2, <2>3, <2>4
<1>5. f[0] = s
  BY <1>3
<1>6. f \in [Nat -> D]
  <2>1. \A n \in Nat : f[n] \in D
    BY <1>3
  <2>2. DOMAIN f = Nat /\ f = [n \in Nat |-> f[n]]
    BY DEF f
  <2> QED
    BY <2>1, <2>2, Zenon
<1> QED
  BY <1>4, <1>5, <1>6 DEF Iterates

(* What a definition makes of f looks at f for smaller arguments only.     *)
Recursion(G, m, A, V) ==
  /\ V # {} /\ m \in [A -> Nat] /\ G \in [[A -> V] -> [A -> V]]
  /\ \A h, k \in [A -> V], a \in A :
       (\A b \in A : m[b] < m[a] => h[b] = k[b]) => G[h][a] = G[k][a]

LEMMA RecursionIsDefined ==
  ASSUME NEW G, NEW m, NEW A, NEW V, Recursion(G, m, A, V)
  PROVE  \E f : f \in [A -> V] /\ f = G[f]
<1>0. /\ V # {} /\ m \in [A -> Nat] /\ G \in [[A -> V] -> [A -> V]]
      /\ \A h, k \in [A -> V], a \in A :
           (\A b \in A : m[b] < m[a] => h[b] = k[b]) => G[h][a] = G[k][a]
  BY DEF Recursion
<1> USE <1>0
<1>1. PICK h0 \in [A -> V] : TRUE
  <2>1. PICK v \in V : TRUE
    OBVIOUS
  <2> QED
    BY [a \in A |-> v] \in [A -> V]
<1>2. PICK it \in [Nat -> [A -> V]] : it[0] = h0 /\ \A n \in Nat : it[n + 1] = G[it[n]]
  <2> DEFINE D == [A -> V]
  <2>1. h0 \in D /\ G \in [D -> D]
    BY <1>1
  <2>2. Maps(G, D)
    BY <2>1 DEF Maps
  <2> HIDE DEF D
  <2>3. \E f : Iterates(f, G, h0, D)
    BY <2>1, <2>2, CanBeIterated
  <2> QED
    BY <2>3 DEF D, Iterates
<1>3. \A n \in Nat : it[n] \in [A -> V]
  BY <1>2
<1>4. \A n \in Nat : \A a \in A : m[a] < n => it[n + 1][a] = it[n][a]
  <2> DEFINE S == {n \in Nat : \A a \in A : m[a] < n => it[n + 1][a] = it[n][a]}
  <2>1. 0 \in S
    OBVIOUS
  <2>2. ASSUME NEW n \in Nat, n \in S PROVE n + 1 \in S
    <3>1. ASSUME NEW a \in A, m[a] < n + 1 PROVE it[(n + 1) + 1][a] = it[n + 1][a]
      <4>1. \A b \in A : m[b] < m[a] => m[b] < n
        BY <3>1
      <4>2. \A b \in A : m[b] < m[a] => it[n + 1][b] = it[n][b]
        BY <2>2, <4>1
      <4>3. G[it[n + 1]][a] = G[it[n]][a]
        BY n + 1 \in Nat, <1>3, <4>2
      <4> QED
        BY n + 1 \in Nat, <1>2, <4>3
    <3> QED
      BY <3>1
  <2> HIDE DEF S
  <2>3. Nat \subseteq S
    BY <2>1, <2>2, Induction
  <2> QED
    BY <2>3 DEF S
<1>5. \A a \in A : \A d \in Nat : it[m[a] + 1 + d][a] = it[m[a] + 1][a]
  <2> TAKE a \in A
  <2> DEFINE S == {d \in Nat : it[m[a] + 1 + d][a] = it[m[a] + 1][a]}
  <2>1. 0 \in S
    OBVIOUS
  <2>2. ASSUME NEW d \in Nat, d \in S PROVE d + 1 \in S
    <3>1. m[a] + 1 + d \in Nat /\ m[a] < m[a] + 1 + d /\ m[a] + 1 + (d + 1) = (m[a] + 1 + d) + 1
      OBVIOUS
    <3>2. it[(m[a] + 1 + d) + 1][a] = it[m[a] + 1 + d][a]
      BY <1>4, <3>1
    <3> QED
      BY <2>2, <3>1, <3>2
  <2> HIDE DEF S
  <2>3. Nat \subseteq S
    BY <2>1, <2>2, Induction
  <2> QED
    BY <2>3 DEF S
<1> DEFINE f == [a \in A |-> it[m[a] + 1][a]]
<1>6. f \in [A -> V]
  <2>1. \A a \in A : it[m[a] + 1][a] \in V
    BY <1>3
  <2> QED
    BY <2>1
<1>7. ASSUME NEW a \in A PROVE f[a] = G[f][a]
  <2>1. ASSUME NEW b \in A, m[b] < m[a] PROVE f[b] = it[m[a]][b]
    <3>1. m[a] - (m[b] + 1) \in Nat /\ m[b] + 1 + (m[a] - (m[b] + 1)) = m[a]
      BY <2>1
    <3> QED
      BY <1>5, <3>1
  <2> HIDE DEF f
  <2>2. G[f][a] = G[it[m[a]]][a]
    BY <1>3, <1>6, <2>1
  <2>3. it[m[a] + 1] = G[it[m[a]]]
    BY <1>2
  <2> QED
    BY <2>2, <2>3 DEF f
<1> HIDE DEF f
<1>8. G[f] \in [A -> V]
  BY <1>6
<1> QED
  BY <1>6, <1>7, <1>8

-----------------------------------------------------------------------------
(****************************** the subtree ********************************)
Down(S) == UNION {{d} \union Children(d) : d \in S}

Layers(f, c) == f = [n \in Nat |-> IF n = 0 THEN {c} ELSE Down(f[n - 1])]

LEMMA DownInIds == \A S \in SUBSET Ids : Down(S) \in SUBSET Ids
BY DEF Down, Children

LEMMA LayersAreDefined ==
  ASSUME NEW c \in Ids PROVE \E f : Layers(f, c)
<1> DEFINE V == SUBSET Ids
           m == [n \in Nat |-> n]
           Next1(h) == [n \in Nat |-> IF n = 0 THEN {c} ELSE Down(h[n - 1])]
           G == [h \in [Nat -> V] |-> Next1(h)]
<1>1. ASSUME NEW h \in [Nat -> V] PROVE Next1(h) \in [Nat -> V]
  <2>1. ASSUME NEW n \in Nat, n # 0 PROVE Down(h[n - 1]) \in V
    <3>1. h[n - 1] \in SUBSET Ids
      BY <2>1
    <3> QED
      BY <3>1, DownInIds
  <2> HIDE DEF V
  <2>2. {c} \in V
    BY DEF V
  <2> QED
    BY <2>1, <2>2
<1>2. G \in [[Nat -> V] -> [Nat -> V]]
  <2> HIDE DEF Next1
  <2> QED
    BY <1>1
<1>3. ASSUME NEW h \in [Nat -> V], NEW k \in [Nat -> V], NEW a \in Nat,
             \A b \in Nat : m[b] < m[a] => h[b] = k[b]
      PROVE  G[h][a] = G[k][a]
  <2>1. CASE a = 0
    BY <2>1
  <2>2. CASE a # 0
    <3>1. h[a - 1] = k[a - 1]
      BY <1>3, <2>2
    <3> QED
      BY <3>1
  <2> QED
    BY <2>1, <2>2
<1>4. m \in [Nat -> Nat] /\ V # {}
  OBVIOUS
<1>5. Recursion(G, m, Nat, V)
  <2> HIDE DEF G, m, V
  <2> QED
    BY <1>2, <1>3, <1>4 DEF Recursion
<1>6. PICK f : f \in [Nat -> V] /\ f = G[f]
  <2> HIDE DEF G, m, V
  <2> QED
    BY <1>5, RecursionIsDefined
<1>7. f = Next1(f)
  BY <1>6
<1> QED
  BY <1>7 DEF Layers

LEMMA BelowIsALayer ==
  ASSUME NEW c \in Ids
  PROVE  \E f : Layers(f, c) /\ Below(c) = f[Cardinality(Ids)]
<1> DEFINE f == CHOOSE g : Layers(g, c)
<1>1. Layers(f, c)
  BY LayersAreDefined
<1>2. Below(c) = f[Cardinality(Ids)]
  BY DEF Below, Layers, Down
<1> QED
  BY <1>1, <1>2

LEMMA LayerSteps ==
  ASSUME NEW f, NEW c, Layers(f, c)
  PROVE  f[0] = {c} /\ \A n \in Nat : f[n + 1] = Down(f[n])
<1>1. f[0] = {c}
  BY DEF Layers
<1>2. ASSUME NEW n \in Nat PROVE f[n + 1] = Down(f[n])
  <2>1. n + 1 \in Nat /\ n + 1 # 0 /\ (n + 1) - 1 = n
    OBVIOUS
  <2>2. f[n + 1] = IF n + 1 = 0 THEN {c} ELSE Down(f[(n + 1) - 1])
    BY <2>1 DEF Layers
  <2> QED
    BY <2>1, <2>2
<1> QED
  BY <1>1, <1>2

ClosedDownward(S) == \A d \in S : Children(d) \subseteq S

(* Below(c) is the least set that has c and the children of its members.   *)
LEMMA BelowIsLeast ==
  ASSUME NEW c \in Ids, NEW S, c \in S, ClosedDownward(S)
  PROVE  Below(c) \subseteq S
<1>1. PICK f : Layers(f, c) /\ Below(c) = f[Cardinality(Ids)]
  BY BelowIsALayer
<1> DEFINE T == {n \in Nat : f[n] \subseteq S}
<1>2. 0 \in T
  BY <1>1, LayerSteps
<1>3. ASSUME NEW n \in Nat, n \in T PROVE n + 1 \in T
  <2>1. f[n + 1] = Down(f[n])
    BY <1>1, LayerSteps
  <2>2. Down(f[n]) \subseteq S
    BY <1>3 DEF Down, ClosedDownward
  <2> QED
    BY <2>1, <2>2
<1> HIDE DEF T
<1>4. Nat \subseteq T
  BY <1>2, <1>3, Induction
<1>5. Cardinality(Ids) \in Nat
  BY TenancyAssumption, FS_CardinalityType
<1> QED
  BY <1>1, <1>4, <1>5 DEF T

LEMMA BelowIsClosed ==
  ASSUME NEW c \in Ids
  PROVE  c \in Below(c) /\ Below(c) \subseteq Ids /\ ClosedDownward(Below(c))
<1>1. PICK f : Layers(f, c) /\ Below(c) = f[Cardinality(Ids)]
  BY BelowIsALayer
<1>2. f[0] = {c} /\ \A n \in Nat : f[n + 1] = Down(f[n])
  BY <1>1, LayerSteps
<1>3. IsFiniteSet(Ids) /\ Cardinality(Ids) \in Nat
  BY TenancyAssumption, FS_CardinalityType
<1> DEFINE T == {n \in Nat : /\ c \in f[n] /\ f[n] \subseteq Ids
                             /\ ClosedDownward(f[n]) \/ Cardinality(f[n]) >= n + 1}
<1>4. 0 \in T
  <2>1. Cardinality({c}) = 1
    BY FS_Singleton
  <2>2. f[0] = {c} /\ Cardinality(f[0]) >= 0 + 1
    BY <1>2, <2>1
  <2> QED
    BY <2>2
<1>5. ASSUME NEW n \in Nat, n \in T PROVE n + 1 \in T
  <2>1. f[n + 1] = Down(f[n]) /\ f[n] \subseteq f[n + 1] /\ c \in f[n + 1]
    BY <1>2, <1>5 DEF Down
  <2>2. f[n + 1] \subseteq Ids
    BY <1>5, <2>1, DownInIds
  <2>3. CASE ClosedDownward(f[n])
    <3>1. f[n + 1] = f[n]
      BY <2>1, <2>3 DEF Down, ClosedDownward
    <3> QED
      BY <2>1, <2>2, <2>3, <3>1
  <2>4. CASE ~ClosedDownward(f[n])
    <3>1. PICK d \in f[n + 1] : d \notin f[n]
      BY <2>1, <2>4 DEF ClosedDownward, Down
    <3>2. IsFiniteSet(f[n]) /\ IsFiniteSet(f[n + 1])
      BY <1>3, <1>5, <2>2, FS_Subset
    <3>3. Cardinality(f[n] \union {d}) = Cardinality(f[n]) + 1
      BY <3>1, <3>2, FS_AddElement
    <3>4. Cardinality(f[n] \union {d}) <= Cardinality(f[n + 1])
      BY <2>1, <3>1, <3>2, FS_Subset
    <3>5. Cardinality(f[n]) \in Nat /\ Cardinality(f[n + 1]) \in Nat
      BY <3>2, FS_CardinalityType
    <3>6. Cardinality(f[n + 1]) >= (n + 1) + 1
      BY <1>5, <2>4, <3>3, <3>4, <3>5
    <3> QED
      BY <2>1, <2>2, <3>6
  <2> QED
    BY <2>3, <2>4
<1> HIDE DEF T
<1>6. Nat \subseteq T
  BY <1>4, <1>5, Induction
<1>7. Cardinality(Ids) \in T
  BY <1>3, <1>6
<1>8. /\ c \in Below(c) /\ Below(c) \subseteq Ids
      /\ ClosedDownward(Below(c)) \/ Cardinality(Below(c)) >= Cardinality(Ids) + 1
  BY <1>1, <1>7 DEF T
<1>9. Cardinality(Below(c)) \in Nat /\ Cardinality(Below(c)) <= Cardinality(Ids)
  BY <1>3, <1>8, FS_Subset, FS_CardinalityType
<1> QED
  BY <1>3, <1>8, <1>9

LEMMA ToSetOfConcat ==
  ASSUME NEW V, NEW s \in Seq(V), NEW t \in Seq(V)
  PROVE  ToSet(s \o t) = ToSet(s) \union ToSet(t)
<1>1. /\ Len(s) \in Nat /\ Len(t) \in Nat /\ DOMAIN s = 1..Len(s) /\ DOMAIN t = 1..Len(t)
      /\ DOMAIN (s \o t) = 1..(Len(s) + Len(t))
      /\ \A i \in 1..(Len(s) + Len(t)) : (s \o t)[i] = IF i <= Len(s) THEN s[i] ELSE t[i - Len(s)]
  OBVIOUS
<1>2. ASSUME NEW i \in DOMAIN (s \o t) PROVE (s \o t)[i] \in ToSet(s) \union ToSet(t)
  <2>1. CASE i <= Len(s)
    BY <1>1, <2>1 DEF ToSet
  <2>2. CASE ~(i <= Len(s))
    <3>1. i - Len(s) \in DOMAIN t /\ (s \o t)[i] = t[i - Len(s)]
      BY <1>1, <2>2
    <3> QED
      BY <3>1 DEF ToSet
  <2> QED
    BY <2>1, <2>2
<1>3. ASSUME NEW i \in DOMAIN s PROVE s[i] \in ToSet(s \o t)
  <2>1. i \in DOMAIN (s \o t) /\ (s \o t)[i] = s[i]
    BY <1>1
  <2> QED
    BY <2>1 DEF ToSet
<1>4. ASSUME NEW i \in DOMAIN t PROVE t[i] \in ToSet(s \o t)
  <2>1. Len(s) + i \in DOMAIN (s \o t) /\ (s \o t)[Len(s) + i] = t[i]
    BY <1>1
  <2> QED
    BY <2>1 DEF ToSet
<1>5. ToSet(s \o t) \subseteq ToSet(s) \union ToSet(t)
  BY <1>2 DEF ToSet
<1>6. ToSet(s) \subseteq ToSet(s \o t) /\ ToSet(t) \subseteq ToSet(s \o t)
  BY <1>3, <1>4 DEF ToSet
<1> QED
  BY <1>5, <1>6

(* An order of a set has each of its elements, once.                       *)
LEMMA OrdersAreComplete ==
  ASSUME NEW S, IsFiniteSet(S), NEW order \in SetToSeqs(S)
  PROVE  /\ order \in Seq(S) /\ ToSet(order) = S /\ Len(order) = Cardinality(S)
         /\ \A i, j \in 1..Len(order) : order[i] = order[j] => i = j
<1> DEFINE n == Cardinality(S)
<1>1. n \in Nat
  BY FS_CardinalityType
<1>2. order \in [1..n -> S] /\ \A i, j \in 1..n : order[i] = order[j] => i = j
  BY DEF SetToSeqs
<1>3. order \in Seq(S) /\ Len(order) = n /\ DOMAIN order = 1..n
  BY <1>1, <1>2
<1>4. order \in Injection(1..n, S)
  BY <1>2 DEF Injection, IsInjective
<1>5. IsFiniteSet(1..n) /\ Cardinality(1..n) = n
  BY <1>1, FS_Interval
<1>6. order \in Surjection(1..n, S)
  BY <1>4, <1>5, FS_Injection
<1>7. \A x \in S : \E i \in 1..n : order[i] = x
  BY <1>6 DEF Surjection
<1>8. ToSet(order) = S
  BY <1>2, <1>3, <1>7 DEF ToSet
<1> QED
  BY <1>2, <1>3, <1>8

LEMMA WalkSteps ==
  ASSUME [Next]_vars
  PROVE  \/ \E subtree : StartWalk(subtree) /\ subtree = call.subtree
         \/ WalkNext \/ (\E c, d \in Ids : Move(c, d)) \/ UNCHANGED walkVars
BY DEF Next, Tool, Administrator, vars, walkVars, Reject, Start, Walking, WalkFailed, ListCompartments,
       Target, Page, PageFails, PageUnavailable, PageDenied, ListResources, VisitPolicies,
       PoliciesFail, ListPolicies, ResolvePolicy, GetPolicy, ToolStep

-----------------------------------------------------------------------------
(********************************* types ***********************************)
LEMMA RecordsTyped ==
  ASSUME world \in WorldType, NEW S \in SUBSET Ids
  PROVE  /\ Records(S) \in SUBSET Recorded
         /\ {r.id : r \in Records(S)} = S
<1>1. \A c \in Ids : Record(c) \in Recorded
  BY DEF WorldType, Record, Recorded
<1>2. \A c : Record(c).id = c
  BY DEF Record
<1> QED
  BY <1>1, <1>2 DEF Records

LEMMA FoundInIds == WalkTypeOK => FoundIds \subseteq Ids
BY DEF WalkTypeOK, WalkType, FoundIds, Recorded

LEMMA WalkChildrenCases ==
  ASSUME WalkTypeOK, WalkChildren
  PROVE  LET h   == Head(walk.queue)
             new == {r \in walk.listed : r.id \notin Seen}
             ids == {r.id : r \in new} IN
         /\ h \in Ids /\ h \in ToSet(walk.queue) /\ ids \subseteq Ids
         /\ walk'.queue \in Seq(Ids) /\ walk'.found = walk.found \union new
         /\ ToSet(walk'.queue) \subseteq ToSet(walk.queue) \union ids
         /\ (ToSet(walk.queue) \ {h}) \union ids \subseteq ToSet(walk'.queue)
<1> DEFINE h == Head(walk.queue)
           new == {r \in walk.listed : r.id \notin Seen}
           ids == {r.id : r \in new}
<1>1. walk.queue \in Seq(Ids) /\ walk.queue # << >>
  BY DEF WalkTypeOK, WalkType, WalkChildren, AllRead, Listing
<1>2. /\ h \in Ids /\ Tail(walk.queue) \in Seq(Ids) /\ h = walk.queue[1]
      /\ Len(walk.queue) \in Nat \ {0} /\ Len(Tail(walk.queue)) = Len(walk.queue) - 1
      /\ \A i \in 1..Len(Tail(walk.queue)) : Tail(walk.queue)[i] = walk.queue[i + 1]
  BY <1>1
<1>3. ToSet(walk.queue) = {h} \union ToSet(Tail(walk.queue))
  <2>1. ASSUME NEW i \in 2..Len(walk.queue) PROVE walk.queue[i] \in ToSet(Tail(walk.queue))
    <3>1. i - 1 \in 1..Len(Tail(walk.queue)) /\ (i - 1) + 1 = i
      BY <1>2
    <3>2. Tail(walk.queue)[i - 1] = walk.queue[i] /\ i - 1 \in DOMAIN Tail(walk.queue)
      BY <1>2, <3>1
    <3> QED
      BY <3>2 DEF ToSet
  <2>2. ASSUME NEW i \in 1..Len(Tail(walk.queue)) PROVE Tail(walk.queue)[i] \in ToSet(walk.queue)
    BY <1>1, <1>2 DEF ToSet
  <2>3. \A i \in DOMAIN walk.queue : i = 1 \/ i \in 2..Len(walk.queue)
    BY <1>1
  <2>4. DOMAIN Tail(walk.queue) = 1..Len(Tail(walk.queue)) /\ 1 \in DOMAIN walk.queue
    BY <1>1, <1>2
  <2> QED
    BY ZenonT(40), <1>2, <2>1, <2>2, <2>3, <2>4 DEF ToSet
<1>4. ids \subseteq Ids /\ IsFiniteSet(ids)
  <2>1. ids \subseteq Ids
    BY DEF WalkTypeOK, WalkType, Recorded
  <2> QED
    BY <2>1, TenancyAssumption, FS_Subset
<1>5. PICK order \in SetToSeqs(ids) :
        walk' = [walk EXCEPT !.queue = Tail(@) \o order, !.found = @ \union new,
                             !.passed = {}, !.listed = {}]
  BY DEF WalkChildren
<1>6. order \in Seq(ids) /\ ToSet(order) = ids
  BY <1>4, <1>5, OrdersAreComplete
<1>7. order \in Seq(Ids)
  BY <1>4, <1>6
<1>8. walk'.queue = Tail(walk.queue) \o order /\ walk'.found = walk.found \union new
  BY <1>5 DEF WalkTypeOK, WalkType
<1> HIDE DEF h, new, ids
<1>9. ToSet(Tail(walk.queue) \o order) = ToSet(Tail(walk.queue)) \union ToSet(order)
  <2> DEFINE rest == Tail(walk.queue)
  <2>1. rest \in Seq(Ids)
    BY <1>2
  <2> HIDE DEF rest
  <2>2. ToSet(rest \o order) = ToSet(rest) \union ToSet(order)
    BY <1>7, <2>1, ToSetOfConcat
  <2> QED
    BY <2>2 DEF rest
<1>10. walk'.queue \in Seq(Ids)
  BY <1>2, <1>7, <1>8
<1> QED
  BY <1>2, <1>3, <1>4, <1>6, <1>8, <1>9, <1>10 DEF h, new, ids

(* What one page adds.                                                     *)
LEMMA ReadPageCases ==
  ASSUME WalkTypeOK, ReadPage
  PROVE  \E turns \in SUBSET (Others \ walk.passed) :
           /\ walk' = [walk EXCEPT !.passed = walk.passed \union turns,
                                   !.listed = walk.listed \union Records(turns \intersect Belonging)]
           /\ walk'.passed = walk.passed \union turns
           /\ walk'.listed = walk.listed \union Records(turns \intersect Belonging)
           /\ walk'.place = walk.place /\ walk'.subtree = walk.subtree
           /\ walk'.queue = walk.queue /\ walk'.found = walk.found
           /\ Records(turns \intersect Belonging) \in SUBSET Recorded
           /\ {r.id : r \in Records(turns \intersect Belonging)} = turns \intersect Belonging
<1>1. PICK turns \in SUBSET (Others \ walk.passed) :
        walk' = [walk EXCEPT !.passed = walk.passed \union turns,
                             !.listed = walk.listed \union Records(turns \intersect Belonging)]
  BY DEF ReadPage
<1>2. turns \intersect Belonging \in SUBSET Ids
  BY DEF Others
<1>3. /\ Records(turns \intersect Belonging) \in SUBSET Recorded
      /\ {r.id : r \in Records(turns \intersect Belonging)} = turns \intersect Belonging
  BY <1>2, RecordsTyped DEF WalkTypeOK
<1>4. /\ walk'.passed = walk.passed \union turns
      /\ walk'.listed = walk.listed \union Records(turns \intersect Belonging)
      /\ walk'.place = walk.place /\ walk'.subtree = walk.subtree
      /\ walk'.queue = walk.queue /\ walk'.found = walk.found
  BY <1>1 DEF WalkTypeOK, WalkType
<1> QED
  BY <1>1, <1>3, <1>4

LEMMA WalkStaysTyped ==
  ASSUME WalkTypeOK, [Next]_vars, call.subtree \in BOOLEAN PROVE WalkTypeOK'
<1> USE DEF WalkTypeOK, WalkStep
<1>0. << >> \in Seq(Ids) /\ {} \in SUBSET Ids /\ {} \in SUBSET Recorded
  OBVIOUS
<1>1. CASE UNCHANGED walkVars
  BY <1>1 DEF walkVars
<1>2. ASSUME NEW subtree \in BOOLEAN, StartWalk(subtree) PROVE WalkTypeOK'
  <2>1. walk' = [place |-> "once", subtree |-> subtree, queue |-> << >>, passed |-> {},
                 listed |-> {}, found |-> {}]
    BY <1>2 DEF StartWalk, NoWalk
  <2>2. walk' \in WalkType
    BY <1>0, <2>1 DEF WalkType
  <2> QED
    BY <1>2, <2>2 DEF StartWalk
<1>3. CASE Refuse \/ EndOfQueue
  BY <1>3 DEF Refuse, EndOfQueue, WalkType
<1>4. CASE ReadPage
  <2>1. PICK turns \in SUBSET (Others \ walk.passed) :
          /\ walk' = [walk EXCEPT !.passed = walk.passed \union turns,
                                  !.listed = walk.listed \union Records(turns \intersect Belonging)]
          /\ Records(turns \intersect Belonging) \in SUBSET Recorded
    BY <1>4, ReadPageCases
  <2>2. /\ walk.passed \union turns \in SUBSET Ids
        /\ walk.listed \union Records(turns \intersect Belonging) \in SUBSET Recorded
    BY <2>1 DEF WalkType, Others
  <2>3. walk' \in WalkType
    BY <2>1, <2>2 DEF WalkType
  <2> QED
    BY <1>4, <2>3 DEF ReadPage
<1>5. CASE ListOnce
  BY <1>0, <1>5 DEF ListOnce, WalkType
<1>6. CASE WalkRoot
  <2>1. \A root \in {{}, {Root}} : Records(root) \in SUBSET Recorded
    BY TenancyAssumption, RecordsTyped
  <2>2. <<Root>> \in Seq(Ids)
    BY TenancyAssumption
  <2>3. PICK root \in {{}, {Root}} :
          walk' = [walk EXCEPT !.place = "children", !.queue = <<Root>>, !.found = Records(root)]
    BY <1>6 DEF WalkRoot
  <2>4. Records(root) \in SUBSET Recorded
    BY <2>1
  <2>5. walk' \in WalkType
    BY <2>2, <2>3, <2>4 DEF WalkType
  <2> QED
    BY <1>6, <2>5 DEF WalkRoot
<1>7. CASE WalkChildren
  <2>1. walk'.queue \in Seq(Ids) /\ walk'.found \in SUBSET Recorded
    <3>1. \A S : {r \in walk.listed : r.id \notin S} \in SUBSET Recorded
      BY DEF WalkType
    <3> QED
      BY <1>7, <3>1, WalkChildrenCases DEF WalkType
  <2>2. /\ walk' \in [place : {"children"}, subtree : {walk.subtree}, queue : {walk'.queue},
                      passed : {{}}, listed : {{}}, found : {walk'.found}]
        /\ walk.subtree \in BOOLEAN
    BY <1>7 DEF WalkChildren, WalkType
  <2> QED
    BY <1>0, <1>7, <2>1, <2>2 DEF WalkChildren, WalkType
<1>8. CASE WalkFails
  <2>1. walk' = [place |-> "failed", subtree |-> walk.subtree, queue |-> << >>, passed |-> {},
                 listed |-> {}, found |-> {}]
    BY <1>8 DEF WalkFails, NoWalk
  <2>2. walk.subtree \in BOOLEAN
    BY DEF WalkType
  <2>3. walk' \in WalkType
    BY <1>0, <2>1, <2>2 DEF WalkType
  <2> QED
    BY <1>8, <2>3 DEF WalkFails
<1>9. CASE AppendRoot
  <2>1. \A root \in {{}, {Root} \ FoundIds} : Records(root) \in SUBSET Recorded
    BY TenancyAssumption, RecordsTyped
  <2> QED
    BY ZenonT(40), <1>9, <2>1 DEF AppendRoot, WalkType
<1>10. ASSUME NEW c \in Ids, NEW d \in Ids, Move(c, d) PROVE WalkTypeOK'
  <2>1. world' \in WorldType
    BY <1>10 DEF Move, WorldType
  <2>2. moved' \subseteq Ids
    BY <1>10, BelowIsClosed DEF Move
  <2> QED
    BY <1>10, <2>1, <2>2, TenancyAssumption DEF Move
<1> QED
  BY <1>1, <1>2, <1>3, <1>4, <1>5, <1>6, <1>7, <1>8, <1>9, <1>10, WalkSteps DEF WalkNext

-----------------------------------------------------------------------------
(**************************** nothing is missed ****************************)
(* What the walk has done with is done with: its children are found too,   *)
(* or were moved meanwhile.                                                *)
Complete(S) == \A p \in S : Children(p) \subseteq Seen \union moved

Settled ==
  /\ walk.place \in {"root", "children", "append"} => walk.subtree
  /\ walk.place = "children" => /\ ToSet(walk.queue) \subseteq Seen
                                /\ Complete(Seen \ ToSet(walk.queue))
  /\ walk.place \in {"append", "done"} /\ walk.subtree => Complete(Seen)
  /\ ClosedDownward(moved)

(* A listing that is under way lacks nobody whose turn is over, but for    *)
(* those that were moved; and it has one record of each.                   *)
ListedIds == {r.id : r \in walk.listed}

Paged ==
  /\ ~Listing => walk.passed = {} /\ walk.listed = {}
  /\ \A r, q \in walk.listed : r.id = q.id => r = q
  /\ ListedIds \subseteq walk.passed \ {Root}
  /\ \A r \in walk.listed : AtOnce \/ r.parent = Scope
  /\ Listing => (Belonging \intersect walk.passed) \ moved \subseteq ListedIds

(* What is listed of the tenancy is so still, but for those that were      *)
(* moved.                                                                  *)
AsItIs ==
  /\ walk.place \in {"root", "children"} => ~AtOnce
  /\ AtOnce => /\ \A r \in walk.listed :
                    r.id \notin moved => r.id \in Below(Root) /\ r.parent = world.parent[r.id]
               /\ \A r \in walk.found :
                    r.id \notin {Root} \union moved => r.parent = world.parent[r.id]

(* Below in the next state.                                                *)
LEMMA BelowNext ==
  /\ \A S \in SUBSET Ids : Root \in S /\ (\A d \in S : Children(d)' \subseteq S)
                             => Below(Root)' \subseteq S
  /\ Root \in Below(Root)' /\ Below(Root)' \subseteq Ids
  /\ \A d \in Below(Root)' : Children(d)' \subseteq Below(Root)'
<1> DEFINE Least == \A S \in SUBSET Ids : Root \in S /\ (\A d \in S : Children(d) \subseteq S)
                                            => Below(Root) \subseteq S
           Closed == /\ Root \in Below(Root) /\ Below(Root) \subseteq Ids
                     /\ \A d \in Below(Root) : Children(d) \subseteq Below(Root)
<1>1. Least
  BY TenancyAssumption, BelowIsLeast DEF ClosedDownward
<1>2. Closed
  BY TenancyAssumption, BelowIsClosed DEF ClosedDownward
<1>3. Least'
  BY <1>1, PTL
<1>4. Closed'
  BY <1>2, PTL
<1> QED
  BY <1>3, <1>4

(* A move takes children from nobody but those it moves.                   *)
LEMMA MovedChildren ==
  ASSUME WalkTypeOK, NEW c \in Ids, NEW d \in Ids, Move(c, d)
  PROVE  /\ \A p : Children(p)' \subseteq Children(p) \union moved'
         /\ moved \subseteq moved' /\ moved' \subseteq Ids
         /\ \A e \in Ids : e \notin moved' => world'.parent[e] = world.parent[e]
         /\ ClosedDownward(moved) => ClosedDownward(moved')
         /\ ClosedDownward(moved) => ClosedDownward(moved)'
<1>1. /\ moved' = moved \union Below(c)
      /\ c \in Below(c) /\ ClosedDownward(Below(c)) /\ Below(c) \subseteq Ids
  BY BelowIsClosed DEF Move
<1>2. \A e \in Ids : e # c => world'.parent[e] = world.parent[e]
  BY DEF Move, WalkTypeOK, WorldType
<1>3. \A p : Children(p)' \subseteq Children(p) \union {c}
  BY <1>2 DEF Children
<1>4. ASSUME ClosedDownward(moved) PROVE \A p \in moved' : Children(p)' \subseteq moved'
  BY <1>1, <1>3, <1>4 DEF ClosedDownward
<1>5. ASSUME ClosedDownward(moved) PROVE ClosedDownward(moved')
  BY <1>1, <1>5 DEF ClosedDownward
<1>6. moved' \subseteq Ids
  BY <1>1 DEF WalkTypeOK
<1> QED
  BY <1>1, <1>2, <1>3, <1>4, <1>5, <1>6 DEF ClosedDownward

(* It puts nobody below the root, nor takes them out, but those it moves.  *)
LEMMA MovedBelow ==
  ASSUME WalkTypeOK, NEW c \in Ids, NEW d \in Ids, Move(c, d), ClosedDownward(moved)
  PROVE  /\ Below(Root)' \subseteq Below(Root) \union moved'
         /\ Below(Root) \subseteq Below(Root)' \union moved'
<1>1. /\ \A p : Children(p)' \subseteq Children(p) \union moved'
      /\ \A p \in moved' : Children(p) \subseteq moved' /\ Children(p)' \subseteq moved'
      /\ moved' \subseteq Ids
  BY MovedChildren DEF ClosedDownward
<1>2. /\ Root \in Ids /\ Root \in Below(Root) /\ Below(Root) \subseteq Ids
      /\ \A p \in Below(Root) : Children(p) \subseteq Below(Root)
  BY TenancyAssumption, BelowIsClosed DEF ClosedDownward
<1>3. Below(Root)' \subseteq Below(Root) \union moved'
  <2> DEFINE S == Below(Root) \union moved'
  <2>1. S \in SUBSET Ids /\ Root \in S /\ \A p \in S : Children(p)' \subseteq S
    BY <1>1, <1>2
  <2> HIDE DEF S
  <2>2. Below(Root)' \subseteq S
    BY <2>1, BelowNext
  <2> QED
    BY <2>2 DEF S
<1>4. Below(Root) \subseteq Below(Root)' \union moved'
  <2> DEFINE S == Below(Root)' \union moved'
  <2>1. /\ Root \in Below(Root)' /\ Below(Root)' \subseteq Ids
        /\ \A p \in Below(Root)' : Children(p)' \subseteq Below(Root)'
    BY BelowNext
  <2>2. \A p : Children(p) \subseteq Children(p)' \union moved'
    <3>1. \A e \in Ids : e \notin moved' => world'.parent[e] = world.parent[e]
      BY MovedChildren
    <3> QED
      BY <3>1 DEF Children
  <2>3. S \in SUBSET Ids /\ Root \in S /\ \A p \in S : Children(p) \subseteq S
    BY <1>1, <2>1, <2>2
  <2> HIDE DEF S
  <2>4. Below(Root) \subseteq S
    BY <1>2, <2>3, BelowIsLeast DEF ClosedDownward
  <2> QED
    BY <2>4 DEF S
<1> QED
  BY <1>3, <1>4

(* Where nothing moves.                                                    *)
LEMMA SameTenancy ==
  ASSUME UNCHANGED world
  PROVE  /\ Below(Root)' = Below(Root) /\ \A p : Children(p)' = Children(p)
         /\ \A S : Records(S)' = Records(S)
<1>1. \A p : Children(p)' = Children(p)
  BY DEF Children
<1>2. /\ Root \in Ids /\ Root \in Below(Root) /\ Below(Root) \subseteq Ids
      /\ \A p \in Below(Root) : Children(p) \subseteq Below(Root)
  BY TenancyAssumption, BelowIsClosed DEF ClosedDownward
<1>3. /\ Root \in Below(Root)' /\ Below(Root)' \subseteq Ids
      /\ \A p \in Below(Root)' : Children(p)' \subseteq Below(Root)'
  BY BelowNext
<1>4. Below(Root)' \subseteq Below(Root)
  BY <1>1, <1>2, BelowNext
<1>5. Below(Root) \subseteq Below(Root)'
  BY <1>1, <1>2, <1>3, BelowIsLeast DEF ClosedDownward
<1> QED
  BY <1>1, <1>4, <1>5 DEF Records, Record

LEMMA StaysPaged ==
  ASSUME WalkTypeOK, Settled, Paged, AsItIs, [Next]_vars PROVE Paged'
<1> USE DEF WalkStep
<1>0. ASSUME walk'.listed = {}, walk'.passed = {} PROVE Paged'
  BY <1>0 DEF Paged, ListedIds
<1>1. CASE UNCHANGED walkVars
  <2>1. UNCHANGED <<Listing, Scope, AtOnce, ListedIds>>
    BY <1>1 DEF walkVars, Listing, RefusedAtOnce, Scope, AtOnce, ListedIds
  <2>2. Belonging' = Belonging
    BY <1>1, <2>1, SameTenancy DEF walkVars, Belonging
  <2> QED
    BY <1>1, <2>1, <2>2 DEF walkVars, Paged
<1>2. ASSUME NEW subtree, StartWalk(subtree) PROVE Paged'
  BY <1>0, <1>2 DEF StartWalk, NoWalk
<1>3. ASSUME ~Listing, UNCHANGED <<walk.listed, walk.passed>> PROVE Paged'
  BY <1>0, <1>3 DEF Paged
<1>4. CASE Refuse \/ WalkRoot \/ EndOfQueue \/ AppendRoot
  <2>1. ~Listing
    BY <1>4 DEF Refuse, WalkRoot, EndOfQueue, AppendRoot, Listing
  <2>2. UNCHANGED <<walk.listed, walk.passed>>
    BY <1>4 DEF Refuse, WalkRoot, EndOfQueue, AppendRoot, WalkTypeOK, WalkType
  <2> QED
    BY <1>3, <2>1, <2>2
<1>5. CASE ReadPage
  <2>1. PICK turns \in SUBSET (Others \ walk.passed) :
          /\ walk'.passed = walk.passed \union turns
          /\ walk'.listed = walk.listed \union Records(turns \intersect Belonging)
          /\ walk'.place = walk.place /\ walk'.subtree = walk.subtree
          /\ walk'.queue = walk.queue
          /\ {r.id : r \in Records(turns \intersect Belonging)} = turns \intersect Belonging
    BY <1>5, ReadPageCases
  <2> DEFINE page == turns \intersect Belonging
  <2>2. world' = world /\ moved' = moved
    BY <1>5 DEF ReadPage
  <2>3. UNCHANGED <<Listing, Scope, AtOnce>> /\ Listing
    BY <1>5, <2>1, <2>2 DEF ReadPage, Listing, RefusedAtOnce, Scope, AtOnce
  <2>4. Belonging' = Belonging
    BY <2>2, <2>3, SameTenancy DEF Belonging
  <2>5. ListedIds' = ListedIds \union page
    BY <2>1 DEF ListedIds
  <2>6. \A r \in Records(page) : r.id \in page /\ r = Record(r.id)
    BY DEF Records, Record
  <2>7. \A r \in walk.listed : r.id \in walk.passed
    BY DEF Paged, ListedIds
  <2>8. \A r, q \in walk'.listed : r.id = q.id => r = q
    <3>1. \A r \in walk.listed, q \in Records(page) : r.id # q.id
      BY <2>6, <2>7
    <3> QED
      BY <2>1, <2>6, <3>1 DEF Paged
  <2>9. \A r \in walk'.listed : AtOnce \/ r.parent = Scope
    <3>1. ASSUME NEW r \in Records(page), ~AtOnce PROVE r.parent = Scope
      BY <2>6, <3>1 DEF Belonging, Children, Record
    <3> QED
      BY <2>1, <3>1 DEF Paged
  <2>10. ListedIds' \subseteq walk'.passed \ {Root}
    BY <2>1, <2>5 DEF Paged, Others
  <2>11. (Belonging \intersect walk'.passed) \ moved \subseteq ListedIds'
    BY <2>1, <2>3, <2>5 DEF Paged
  <2> QED
    BY <2>2, <2>3, <2>4, <2>8, <2>9, <2>10, <2>11 DEF Paged
<1>6. CASE ListOnce \/ WalkChildren \/ WalkFails
  <2>1. walk'.listed = {} /\ walk'.passed = {}
    BY <1>6 DEF ListOnce, WalkChildren, WalkFails, NoWalk, WalkTypeOK, WalkType
  <2> QED
    BY <1>0, <2>1
<1>7. ASSUME NEW c \in Ids, NEW d \in Ids, Move(c, d) PROVE Paged'
  <2>1. walk' = walk /\ world'.parent[Root] = world.parent[Root]
    <3>1. c # Root /\ walk' = walk /\ world' = [world EXCEPT !.parent[c] = d]
      BY <1>7 DEF Move
    <3> QED
      BY <3>1 DEF WalkTypeOK, WorldType
  <2>2. UNCHANGED <<Listing, Scope, AtOnce, ListedIds>>
    BY <2>1 DEF Listing, RefusedAtOnce, Scope, AtOnce, ListedIds
  <2>3. moved \subseteq moved' /\ Belonging' \subseteq Belonging \union moved'
    <3>1. /\ \A p : Children(p)' \subseteq Children(p) \union moved'
          /\ moved \subseteq moved'
      BY <1>7, MovedChildren
    <3>2. Below(Root)' \subseteq Below(Root) \union moved'
      BY <1>7, MovedBelow DEF Settled
    <3> QED
      BY <2>2, <3>1, <3>2 DEF Belonging
  <2> QED
    BY <2>1, <2>2, <2>3 DEF Paged
<1> QED
  BY <1>1, <1>2, <1>4, <1>5, <1>6, <1>7, WalkSteps DEF WalkNext

LEMMA StaysAsItIs ==
  ASSUME WalkTypeOK, Settled, Paged, AsItIs, [Next]_vars PROVE AsItIs'
<1> USE DEF WalkStep
<1>0. ASSUME UNCHANGED <<world, moved, walk.subtree>>,
             walk'.place \in {"root", "children"} => ~AtOnce,
             AtOnce => /\ \A r \in walk'.listed : r.id \notin moved =>
                            r.id \in Below(Root) /\ r.parent = world.parent[r.id]
                       /\ \A r \in walk'.found : r.id \notin {Root} \union moved =>
                            r.parent = world.parent[r.id]
      PROVE  AsItIs'
  <2>1. AtOnce' = AtOnce /\ Below(Root)' = Below(Root)
    BY <1>0, SameTenancy DEF AtOnce
  <2> QED
    BY <1>0, <2>1 DEF AsItIs
<1>1. CASE UNCHANGED walkVars
  BY <1>0, <1>1 DEF walkVars, AsItIs
<1>2. ASSUME NEW subtree, StartWalk(subtree) PROVE AsItIs'
  <2>1. walk'.place = "once" /\ walk'.listed = {} /\ walk'.found = {}
    BY <1>2 DEF StartWalk, NoWalk
  <2> QED
    BY <2>1 DEF AsItIs
<1>3. CASE Refuse
  <2>1. UNCHANGED <<walk.subtree, walk.listed, walk.found>> /\ ~AtOnce
    BY <1>3 DEF Refuse, RefusedAtOnce, AtOnce, WalkTypeOK, WalkType
  <2> QED
    BY <1>0, <1>3, <2>1 DEF Refuse
<1>4. CASE ReadPage
  <2>1. PICK turns \in SUBSET (Others \ walk.passed) :
          /\ walk'.listed = walk.listed \union Records(turns \intersect Belonging)
          /\ walk'.place = walk.place /\ walk'.subtree = walk.subtree
          /\ walk'.found = walk.found
    BY <1>4, ReadPageCases
  <2>2. ASSUME AtOnce, NEW r \in Records(turns \intersect Belonging)
        PROVE  r.id \in Below(Root) /\ r.parent = world.parent[r.id]
    BY <2>2 DEF Records, Record, Belonging
  <2> QED
    BY <1>0, <1>4, <2>1, <2>2 DEF ReadPage, AsItIs
<1>5. CASE ListOnce
  <2>1. /\ walk'.place \in {"append", "done"} /\ walk'.subtree = walk.subtree
        /\ walk'.listed = {} /\ walk'.found = walk.listed
    BY <1>5 DEF ListOnce, WalkTypeOK, WalkType
  <2> QED
    BY <1>0, <1>5, <2>1 DEF ListOnce, AsItIs
<1>6. CASE WalkRoot
  <2>1. walk'.subtree = walk.subtree /\ ~AtOnce
    BY <1>6 DEF WalkRoot, AsItIs, WalkTypeOK, WalkType
  <2> QED
    BY <1>0, <1>6, <2>1 DEF WalkRoot
<1>7. CASE WalkChildren
  <2>1. walk'.subtree = walk.subtree /\ ~AtOnce
    BY <1>7 DEF WalkChildren, AsItIs, WalkTypeOK, WalkType
  <2> QED
    BY <1>0, <1>7, <2>1 DEF WalkChildren
<1>8. CASE EndOfQueue
  <2>1. walk'.subtree = walk.subtree /\ ~AtOnce
    BY <1>8 DEF EndOfQueue, AsItIs, WalkTypeOK, WalkType
  <2> QED
    BY <1>0, <1>8, <2>1 DEF EndOfQueue
<1>9. CASE WalkFails
  <2>1. /\ walk'.place = "failed" /\ walk'.subtree = walk.subtree
        /\ walk'.listed = {} /\ walk'.found = {}
    BY <1>9 DEF WalkFails, NoWalk
  <2> QED
    BY <1>0, <1>9, <2>1 DEF WalkFails
<1>10. CASE AppendRoot
  <2>1. PICK root \in {{}, {Root} \ FoundIds} : walk'.found = walk.found \union Records(root)
    BY <1>10 DEF AppendRoot, WalkTypeOK, WalkType
  <2>2. \A r \in Records(root) : r.id = Root
    BY <2>1 DEF Records, Record
  <2>3. walk'.place = "done" /\ walk'.subtree = walk.subtree /\ walk'.listed = walk.listed
    BY <1>10 DEF AppendRoot, WalkTypeOK, WalkType
  <2> QED
    BY <1>0, <1>10, <2>1, <2>2, <2>3 DEF AppendRoot, AsItIs
<1>11. ASSUME NEW c \in Ids, NEW d \in Ids, Move(c, d) PROVE AsItIs'
  <2>1. walk' = walk /\ world'.parent[Root] = world.parent[Root]
    <3>1. c # Root /\ walk' = walk /\ world' = [world EXCEPT !.parent[c] = d]
      BY <1>11 DEF Move
    <3> QED
      BY <3>1 DEF WalkTypeOK, WorldType
  <2>2. AtOnce' = AtOnce
    BY <2>1 DEF AtOnce
  <2>3. /\ moved \subseteq moved' /\ Below(Root) \subseteq Below(Root)' \union moved'
        /\ \A e \in Ids : e \notin moved' => world'.parent[e] = world.parent[e]
    BY <1>11, MovedChildren, MovedBelow DEF Settled
  <2>4. \A r \in walk.listed \union walk.found : r.id \in Ids
    BY DEF WalkTypeOK, WalkType, Recorded
  <2> QED
    BY <2>1, <2>2, <2>3, <2>4 DEF AsItIs
<1> QED
  BY <1>1, <1>2, <1>3, <1>4, <1>5, <1>6, <1>7, <1>8, <1>9, <1>10, <1>11, WalkSteps DEF WalkNext

LEMMA StaysSettled ==
  ASSUME WalkTypeOK, Settled, Paged, AsItIs, [Next]_vars PROVE Settled'
<1> USE DEF Settled, WalkStep, Seen
<1>0. ASSUME UNCHANGED <<world, moved>>
      PROVE  /\ ClosedDownward(moved) => ClosedDownward(moved)'
             /\ \A p : Children(p)' = Children(p)
  BY <1>0 DEF ClosedDownward, Children
<1>1. ASSUME UNCHANGED <<world, moved, walk.place, walk.subtree, walk.queue, walk.found>>
      PROVE  Settled'
  BY <1>0, <1>1 DEF FoundIds, Complete
<1>2. ASSUME NEW subtree, StartWalk(subtree) PROVE Settled'
  BY <1>0, <1>2 DEF StartWalk, NoWalk
<1>3. CASE Refuse
  <2>1. walk'.place = "root" /\ walk'.subtree = walk.subtree /\ walk.subtree
    BY <1>3 DEF Refuse, RefusedAtOnce, WalkTypeOK, WalkType
  <2> QED
    BY <1>0, <1>3, <2>1 DEF Refuse
<1>4. CASE ReadPage
  <2>1. UNCHANGED <<walk.place, walk.subtree, walk.queue, walk.found>>
    BY <1>4, ReadPageCases
  <2> QED
    BY <1>1, <1>4, <2>1 DEF ReadPage
<1>5. CASE ListOnce
  <2>1. /\ walk'.place = (IF walk.subtree THEN "append" ELSE "done")
        /\ walk'.subtree = walk.subtree /\ walk'.found = walk.listed
    BY <1>5 DEF ListOnce, WalkTypeOK, WalkType
  <2>2. FoundIds' = ListedIds
    BY <2>1 DEF FoundIds, ListedIds
  <2>3. ASSUME walk.subtree PROVE \A p \in {Root} \union ListedIds :
          Children(p) \subseteq {Root} \union ListedIds \union moved
    <3>1. AtOnce /\ Listing /\ walk.passed = Others
      BY <1>5, <2>3 DEF ListOnce, AllRead, Listing, RefusedAtOnce, AtOnce
    <3>2. /\ Root \in Below(Root) /\ Below(Root) \subseteq Ids
          /\ \A p \in Below(Root) : Children(p) \subseteq Below(Root)
      BY TenancyAssumption, BelowIsClosed DEF ClosedDownward
    <3>3. Below(Root) \subseteq {Root} \union ListedIds \union moved
      BY <3>1, <3>2 DEF Paged, Belonging, Others
    <3>4. \A p \in moved : Children(p) \subseteq moved
      BY DEF ClosedDownward
    <3>5. \A p \in ListedIds : p \in Below(Root) \union moved
      BY <3>1 DEF AsItIs, ListedIds
    <3> HIDE DEF Settled
    <3> QED
      BY <3>2, <3>3, <3>4, <3>5
  <2>4. walk.subtree => Complete(Seen)'
    BY <1>0, <1>5, <2>2, <2>3 DEF ListOnce, Complete
  <2>5. ClosedDownward(moved)'
    BY <1>0, <1>5 DEF ListOnce
  <2> QED
    BY <2>1, <2>4, <2>5
<1>6. CASE WalkRoot
  <2>1. /\ walk'.place = "children" /\ walk'.subtree = walk.subtree
        /\ walk'.queue = <<Root>> /\ \E root \in {{}, {Root}} : walk'.found = Records(root)
    BY <1>6 DEF WalkRoot, WalkTypeOK, WalkType
  <2>2. Seen' = {Root} /\ ToSet(walk'.queue) = {Root}
    BY <2>1, TenancyAssumption, RecordsTyped DEF WalkTypeOK, FoundIds, ToSet
  <2> QED
    BY <1>0, <1>6, <2>1, <2>2 DEF WalkRoot, Complete
<1>7. CASE WalkChildren
  <2> DEFINE h == Head(walk.queue)
             new == {r \in walk.listed : r.id \notin Seen}
             ids == {r.id : r \in new}
  <2>1. /\ walk'.found = walk.found \union new /\ ids \subseteq Ids
        /\ ToSet(walk'.queue) \subseteq ToSet(walk.queue) \union ids
        /\ (ToSet(walk.queue) \ {h}) \union ids \subseteq ToSet(walk'.queue)
    BY <1>7, WalkChildrenCases
  <2>2. walk'.place = "children" /\ walk'.subtree = walk.subtree /\ walk.place = "children"
    BY <1>7 DEF WalkChildren, WalkTypeOK, WalkType
  <2>3. FoundIds' = FoundIds \union ids
    BY <2>1 DEF FoundIds
  <2>4. Seen' = Seen \union ids
    BY <2>3
  <2>5. ListedIds \subseteq Seen'
    <3> HIDE DEF Seen
    <3> QED
      BY <2>4 DEF ListedIds
  <2>6. Children(h) \subseteq Seen' \union moved
    <3>1. Listing /\ walk.passed = Others /\ Scope = h /\ ~AtOnce
      BY <1>7, <2>2 DEF WalkChildren, AllRead, Scope, AsItIs
    <3>2. (Children(h) \intersect Others) \ moved \subseteq ListedIds
      BY <3>1 DEF Paged, Belonging
    <3>3. Children(h) \subseteq {Root} \union Others
      BY DEF Children, Others
    <3>4. Root \in Seen'
      OBVIOUS
    <3> HIDE DEF Seen, h
    <3> QED
      BY <2>5, <3>2, <3>3, <3>4
  <2>7. ASSUME NEW p \in Seen' \ ToSet(walk'.queue) PROVE Children(p) \subseteq Seen' \union moved
    <3>1. p \in Seen /\ p \notin ids
      BY <2>1, <2>4, <2>7
    <3>2. CASE p = h
      BY <2>6, <3>2
    <3>3. CASE p # h
      <4>1. p \in Seen \ ToSet(walk.queue)
        BY <2>1, <2>7, <3>1, <3>3
      <4> QED
        BY <2>2, <2>4, <4>1 DEF Complete
    <3> QED
      BY <3>2, <3>3
  <2>8. ToSet(walk'.queue) \subseteq Seen'
    BY <2>1, <2>2, <2>4
  <2> HIDE DEF new, ids
  <2>9. Complete(Seen \ ToSet(walk.queue))'
    BY <1>0, <1>7, <2>7 DEF WalkChildren, Complete
  <2>10. ClosedDownward(moved)'
    BY <1>0, <1>7 DEF WalkChildren
  <2> HIDE DEF Seen
  <2> QED
    BY <2>2, <2>8, <2>9, <2>10
<1>8. CASE EndOfQueue
  <2>1. walk'.place = "append" /\ walk'.subtree = walk.subtree /\ FoundIds' = FoundIds
    BY <1>8 DEF EndOfQueue, WalkTypeOK, WalkType, FoundIds
  <2>2. ToSet(walk.queue) = {}
    BY <1>8 DEF EndOfQueue, ToSet
  <2> QED
    BY <1>0, <1>8, <2>1, <2>2 DEF EndOfQueue, Complete
<1>9. CASE WalkFails
  <2>1. walk'.place = "failed"
    BY <1>9 DEF WalkFails, NoWalk
  <2> QED
    BY <1>0, <1>9, <2>1 DEF WalkFails
<1>10. CASE AppendRoot
  <2>1. PICK root \in {{}, {Root} \ FoundIds} : walk'.found = walk.found \union Records(root)
    BY <1>10 DEF AppendRoot, WalkTypeOK, WalkType
  <2>2. walk'.place = "done" /\ walk'.subtree = walk.subtree
    BY <1>10 DEF AppendRoot, WalkTypeOK, WalkType
  <2>3. {r.id : r \in Records(root)} \subseteq {Root}
    BY TenancyAssumption, RecordsTyped DEF WalkTypeOK
  <2>4. Seen' = Seen
    BY <2>1, <2>3 DEF FoundIds
  <2> HIDE DEF Seen
  <2> QED
    BY <1>0, <1>10, <2>2, <2>4 DEF AppendRoot, Complete
<1>11. ASSUME NEW c \in Ids, NEW d \in Ids, Move(c, d) PROVE Settled'
  <2>1. /\ \A p : Children(p)' \subseteq Children(p) \union moved'
        /\ moved \subseteq moved' /\ ClosedDownward(moved)'
    BY <1>11, MovedChildren
  <2>2. walk' = walk /\ Seen' = Seen
    BY <1>11 DEF Move, FoundIds
  <2>3. \A S : Complete(S) => \A p \in S : Children(p)' \subseteq Seen' \union moved'
    BY <2>1, <2>2 DEF Complete
  <2> HIDE DEF Seen
  <2> QED
    BY <2>1, <2>2, <2>3 DEF Complete
<1>12. CASE UNCHANGED walkVars
  BY <1>1, <1>12 DEF walkVars
<1> QED
  BY <1>2, <1>3, <1>4, <1>5, <1>6, <1>7, <1>8, <1>9, <1>10, <1>11, <1>12, WalkSteps
  DEF WalkNext

-----------------------------------------------------------------------------
(****************************** it is a tree *******************************)
Inner == FoundIds \ ({Root} \union Doubtful)

OneRecordEach == \A r, q \in walk.found : r.id = q.id => r = q

ParentsFound == \A r \in walk.found : r.id \in Inner => r.parent \in {Root} \union Inner

(* Going up from parent to parent among what was found leads out of any    *)
(* part of it: there are no circles.                                       *)
LeadsOut ==
  \A S \in SUBSET Inner :
    S # {} => \E r \in walk.found : r.id \in S /\ r.parent \notin S

TreeFound == OneRecordEach /\ ParentsFound /\ LeadsOut

(* The subtree as it is at one moment is a tree.                           *)
LEMMA SubtreeLeadsOut ==
  ASSUME world \in WorldType, NEW S \in SUBSET (Below(Root) \ {Root}), S # {}
  PROVE  \E c \in S : world.parent[c] \notin S
<1> DEFINE rest == Below(Root) \ S
<1>1. /\ Root \in Below(Root) /\ Below(Root) \subseteq Ids
      /\ ClosedDownward(Below(Root))
  BY TenancyAssumption, BelowIsClosed
<1>2. SUFFICES ASSUME \A c \in S : world.parent[c] \in S PROVE FALSE
  OBVIOUS
<1>3. Root \in rest /\ ClosedDownward(rest)
  BY <1>1, <1>2 DEF ClosedDownward, Children
<1>4. Below(Root) \subseteq rest
  BY <1>3, TenancyAssumption, BelowIsLeast
<1> QED
  BY <1>4

LEMMA ParentsAreBelow ==
  ASSUME world \in WorldType, NEW c \in Below(Root) \ {Root}
  PROVE  world.parent[c] \in Below(Root)
<1> DEFINE S == {x \in Below(Root) : x = Root \/ world.parent[x] \in Below(Root)}
<1>1. Root \in Below(Root) /\ ClosedDownward(Below(Root))
  BY TenancyAssumption, BelowIsClosed
<1>2. Root \in S /\ ClosedDownward(S)
  BY <1>1 DEF ClosedDownward, Children
<1>3. Below(Root) \subseteq S
  BY <1>2, TenancyAssumption, BelowIsLeast
<1> QED
  BY <1>3

(* What is found below something found, and was not found before, keeps it *)
(* a tree; so does the root.                                               *)
LEMMA TreeGrows ==
  ASSUME TreeFound, NEW new, walk'.found = walk.found \union new, Doubtful' = Doubtful,
         \A r, q \in new : r.id = q.id => r = q,
         \A r \in new : /\ r.id \notin FoundIds
                        /\ r.id = Root \/ (r.parent \in {Root} \union Inner)
  PROVE  TreeFound'
<1>1. /\ FoundIds' = FoundIds \union {r.id : r \in new}
      /\ \A r \in walk.found : r.id \in FoundIds
  BY DEF FoundIds
<1>2. /\ Inner \subseteq Inner' /\ \A c \in Inner' : c # Root
      /\ \A c \in Inner' : c \in Inner \/ \E r \in new : r.id = c
      /\ \A r \in walk.found : r.id \in Inner' => r.id \in Inner
  BY <1>1 DEF Inner
<1>3. OneRecordEach'
  BY <1>1 DEF TreeFound, OneRecordEach
<1>4. ParentsFound'
  BY <1>2 DEF TreeFound, ParentsFound
<1>5. ASSUME NEW S \in SUBSET Inner', S # {}
      PROVE  \E r \in walk'.found : r.id \in S /\ r.parent \notin S
  <2>1. CASE S \intersect Inner # {}
    <3>1. PICK r \in walk.found : r.id \in S \intersect Inner /\ r.parent \notin S \intersect Inner
      BY <2>1 DEF TreeFound, LeadsOut
    <3>2. r.parent \in {Root} \union Inner
      BY <3>1 DEF TreeFound, ParentsFound
    <3>3. r.parent \notin S
      BY <1>2, <3>1, <3>2
    <3> QED
      BY <3>1, <3>3
  <2>2. CASE S \intersect Inner = {}
    <3>1. PICK c \in S : c \notin Inner /\ c # Root
      BY <1>2, <1>5, <2>2
    <3>2. PICK r \in new : r.id = c
      BY <1>2, <3>1
    <3>3. r.parent \notin S
      BY <1>2, <2>2, <3>1, <3>2
    <3> QED
      BY <3>2, <3>3
  <2> QED
    BY <2>1, <2>2
<1>6. LeadsOut'
  BY <1>5 DEF LeadsOut
<1> QED
  BY <1>3, <1>4, <1>6 DEF TreeFound

LEMMA NothingIsATree == walk.found = {} => TreeFound
BY DEF TreeFound, OneRecordEach, ParentsFound, LeadsOut, Inner, FoundIds

LEMMA SameTree == UNCHANGED <<walk.found, Doubtful>> => (TreeFound => TreeFound')
BY DEF TreeFound, OneRecordEach, ParentsFound, LeadsOut, Inner, FoundIds

LEMMA SameDoubts ==
  UNCHANGED <<world, moved, walk.subtree>> => Doubtful' = Doubtful
BY DEF Doubtful, AtOnce

(* What one listing holds is a tree, but for those that were moved while   *)
(* its pages were read.                                                    *)
LEMMA FoundAtOnce ==
  ASSUME WalkTypeOK, Settled, Paged, AsItIs, ListOnce
  PROVE  TreeFound'
<1>1. walk'.found = walk.listed /\ walk'.subtree = walk.subtree
  BY DEF ListOnce, WalkTypeOK, WalkType
<1>2. Doubtful' = Doubtful
  BY <1>1, SameDoubts DEF ListOnce, WalkStep
<1>3. FoundIds' = ListedIds /\ Inner' = ListedIds \ ({Root} \union Doubtful)
  BY <1>1, <1>2 DEF FoundIds, Inner, ListedIds
<1>4. OneRecordEach'
  BY <1>1 DEF OneRecordEach, Paged
<1>5. CASE AtOnce
  <2>1. Doubtful = moved /\ walk.passed = Others /\ Listing
    BY <1>5 DEF Doubtful, ListOnce, AllRead
  <2>2. /\ Root \in Below(Root) /\ Below(Root) \subseteq Ids
        /\ (Below(Root) \ {Root}) \ moved \subseteq ListedIds
    BY <1>5, <2>1, TenancyAssumption, BelowIsClosed DEF Paged, Belonging, Others
  <2>3. \A c \in Inner' : c \in Below(Root) \ {Root}
    BY <1>3, <1>5, <2>1 DEF AsItIs, ListedIds
  <2>4. \A r \in walk.listed : r.id \in Inner' => r.parent = world.parent[r.id]
    BY <1>3, <1>5, <2>1 DEF AsItIs
  <2>5. ASSUME NEW c \in Inner' PROVE world.parent[c] \in {Root} \union Inner'
    <3>1. world.parent[c] \in Below(Root) /\ c \in Ids
      BY <2>2, <2>3, ParentsAreBelow DEF WalkTypeOK
    <3>2. world.parent[c] \notin moved
      <4>1. c \in Children(world.parent[c]) /\ c \notin moved
        BY <1>3, <2>1, <3>1 DEF Children
      <4> QED
        BY <4>1 DEF Settled, ClosedDownward
    <3> QED
      BY <1>3, <2>1, <2>2, <3>1, <3>2
  <2>6. ParentsFound'
    BY <1>1, <2>4, <2>5 DEF ParentsFound
  <2>7. ASSUME NEW S \in SUBSET Inner', S # {}
        PROVE  \E r \in walk'.found : r.id \in S /\ r.parent \notin S
    <3>1. PICK c \in S : world.parent[c] \notin S
      BY <2>3, <2>7, SubtreeLeadsOut DEF WalkTypeOK
    <3>2. PICK r \in walk.listed : r.id = c
      BY <1>3, <3>1 DEF ListedIds
    <3> QED
      BY <1>1, <2>4, <3>1, <3>2
  <2> QED
    BY <1>4, <2>6, <2>7 DEF TreeFound, LeadsOut
<1>6. CASE ~AtOnce
  <2>1. \A r \in walk.listed : r.parent = Root
    BY <1>6 DEF Paged, ListOnce, Scope
  <2>2. ParentsFound'
    BY <1>1, <2>1 DEF ParentsFound
  <2>3. ASSUME NEW S \in SUBSET Inner', S # {}
        PROVE  \E r \in walk'.found : r.id \in S /\ r.parent \notin S
    BY <1>1, <1>3, <2>1, <2>3 DEF ListedIds
  <2> QED
    BY <1>4, <2>2, <2>3 DEF TreeFound, LeadsOut
<1> QED
  BY <1>5, <1>6

(* A move can only take from the tree what it moves.                       *)
LEMMA MovedTree ==
  ASSUME WalkTypeOK, Settled, AsItIs, TreeFound, NEW c \in Ids, NEW d \in Ids, Move(c, d)
  PROVE  TreeFound'
<1>1. walk' = walk /\ world'.parent[Root] = world.parent[Root]
  <2>1. c # Root /\ walk' = walk /\ world' = [world EXCEPT !.parent[c] = d]
    BY DEF Move
  <2> QED
    BY <2>1 DEF WalkTypeOK, WorldType
<1>2. AtOnce' = AtOnce
  BY <1>1 DEF AtOnce
<1>3. CASE ~AtOnce
  BY <1>1, <1>2, <1>3, SameTree DEF Doubtful
<1>4. CASE AtOnce
  <2>1. moved \subseteq moved' /\ Doubtful' = moved' /\ Doubtful = moved
    BY <1>2, <1>4, MovedChildren DEF Doubtful
  <2>2. FoundIds' = FoundIds
    BY <1>1 DEF FoundIds
  <2>3. Inner' = Inner \ moved'
    BY <2>1, <2>2 DEF Inner
  <2>4. \A r \in walk.found : r.id \in Inner => r.parent = world.parent[r.id]
    BY <1>4, <2>1 DEF AsItIs, Inner
  <2>5. ASSUME NEW r \in walk.found, r.id \in Inner' PROVE r.parent \in {Root} \union Inner'
    <3>1. r.id \in Inner /\ r.id \in Ids /\ r.id \notin moved'
      BY <2>3, <2>5 DEF WalkTypeOK, WalkType, Recorded
    <3>2. r.parent \in {Root} \union Inner /\ r.parent = world.parent[r.id]
      BY <2>4, <3>1 DEF TreeFound, ParentsFound
    <3>3. r.id \in Children(r.parent) /\ world'.parent[r.id] = world.parent[r.id]
      BY <3>1, <3>2, MovedChildren DEF Children
    <3>4. \A p \in moved' : Children(p)' \subseteq moved'
      BY MovedChildren DEF Settled, ClosedDownward
    <3>5. r.id \in Children(r.parent)'
      BY <3>1, <3>2, <3>3 DEF Children
    <3>6. r.parent \notin moved'
      BY <3>1, <3>4, <3>5
    <3> QED
      BY <2>3, <3>2, <3>6
  <2>6. LeadsOut'
    BY <1>1, <2>3 DEF TreeFound, LeadsOut
  <2> QED
    BY <1>1, <2>5, <2>6 DEF TreeFound, OneRecordEach, ParentsFound
<1> QED
  BY <1>3, <1>4

LEMMA StaysTree ==
  ASSUME WalkTypeOK, Settled, Paged, AsItIs, TreeFound, [Next]_vars PROVE TreeFound'
<1> USE DEF WalkStep
<1>1. CASE UNCHANGED walkVars
  BY <1>1, SameTree, SameDoubts DEF walkVars
<1>2. ASSUME walk'.found = {} PROVE TreeFound'
  BY <1>2 DEF TreeFound, OneRecordEach, ParentsFound, LeadsOut, Inner, FoundIds
<1>3. ASSUME NEW subtree, StartWalk(subtree) PROVE TreeFound'
  BY <1>2, <1>3 DEF StartWalk, NoWalk
<1>4. CASE Refuse \/ EndOfQueue
  <2>1. UNCHANGED <<walk.found, walk.subtree>>
    BY <1>4 DEF Refuse, EndOfQueue, WalkTypeOK, WalkType
  <2> QED
    BY <1>4, <2>1, SameTree, SameDoubts DEF Refuse, EndOfQueue
<1>5. CASE ReadPage
  <2>1. UNCHANGED <<walk.found, walk.subtree>>
    BY <1>5, ReadPageCases
  <2> QED
    BY <1>5, <2>1, SameTree, SameDoubts DEF ReadPage
<1>6. CASE ListOnce
  BY <1>6, FoundAtOnce
<1>7. CASE WalkRoot
  <2>1. PICK root \in {{}, {Root}} : walk'.found = Records(root)
    BY <1>7 DEF WalkRoot, WalkTypeOK, WalkType
  <2>2. \A r \in walk'.found : r.id = Root /\ r = Record(Root)
    BY <2>1 DEF Records, Record
  <2> QED
    BY <2>2 DEF TreeFound, OneRecordEach, ParentsFound, LeadsOut, Inner, FoundIds
<1>8. CASE WalkChildren
  <2> DEFINE h == Head(walk.queue)
             new == {r \in walk.listed : r.id \notin Seen}
  <2>1. walk'.found = walk.found \union new /\ h \in ToSet(walk.queue)
    BY <1>8, WalkChildrenCases
  <2>2. walk.place = "children" /\ walk'.subtree = walk.subtree
    BY <1>8 DEF WalkChildren, WalkTypeOK, WalkType
  <2>3. ~AtOnce /\ h \in Seen /\ Doubtful = {} /\ Doubtful' = Doubtful
    BY <1>8, <2>1, <2>2, SameDoubts DEF WalkChildren, AsItIs, Settled, Doubtful
  <2>4. \A r \in walk.listed : r.parent = h
    BY <2>2, <2>3 DEF Paged, Scope
  <2>5. h \in {Root} \union Inner
    BY <2>3 DEF Inner, Seen
  <2>6. \A r \in new : r.id \notin FoundIds /\ r.parent \in {Root} \union Inner
    BY <2>4, <2>5 DEF Seen
  <2>7. \A r, q \in new : r.id = q.id => r = q
    BY DEF Paged
  <2> HIDE DEF new
  <2> QED
    BY <2>1, <2>3, <2>6, <2>7, TreeGrows
<1>9. CASE WalkFails
  BY <1>2, <1>9 DEF WalkFails, NoWalk
<1>10. CASE AppendRoot
  <2>1. PICK root \in {{}, {Root} \ FoundIds} : walk'.found = walk.found \union Records(root)
    BY <1>10 DEF AppendRoot, WalkTypeOK, WalkType
  <2>2. \A r \in Records(root) : r = Record(Root) /\ r.id = Root /\ r.id \notin FoundIds
    BY <2>1 DEF Records, Record
  <2>3. Doubtful' = Doubtful
    BY <1>10, SameDoubts DEF AppendRoot, WalkTypeOK, WalkType
  <2> QED
    BY <2>1, <2>2, <2>3, TreeGrows
<1>11. ASSUME NEW c \in Ids, NEW d \in Ids, Move(c, d) PROVE TreeFound'
  BY <1>11, MovedTree
<1> QED
  BY <1>1, <1>3, <1>4, <1>5, <1>6, <1>7, <1>8, <1>9, <1>10, <1>11, WalkSteps DEF WalkNext

(* The chain of parents above c is read off a climb from link to link.     *)
Links == Ids \union {Outside}

Current(c, above) == IF above = << >> THEN c ELSE Last(above)

Up(records, c, above) == RecordOf(records, Current(c, above)).parent

Stops(records, c, above) ==
  \/ above # << >> /\ Current(c, above) = Root
  \/ ~Has(records, Current(c, above))
  \/ Up(records, c, above) \in {None} \union ToSet(above)

Climb(f, records, c) ==
  f = [above \in Seq(Links) |->
         IF Stops(records, c, above) THEN above
         ELSE f[Append(above, Up(records, c, above))]]

LEMMA NextLink ==
  ASSUME NEW records \in SUBSET Recorded, NEW c, NEW above \in Seq(Links),
         ~Stops(records, c, above)
  PROVE  LET up == Up(records, c, above) IN
         /\ up \in Links /\ up \notin ToSet(above)
         /\ Append(above, up) \in Seq(Links)
         /\ ToSet(Append(above, up)) = ToSet(above) \union {up}
<1> DEFINE up == Up(records, c, above)
<1>1. RecordOf(records, Current(c, above)) \in records
  BY DEF Stops, Has, RecordOf
<1>2. up \in Links /\ up \notin ToSet(above)
  BY <1>1 DEF Stops, Up, Recorded, Links
<1> HIDE DEF up
<1>3. /\ Append(above, up) \in Seq(Links) /\ <<up>> \in Seq(Links)
      /\ Append(above, up) = above \o <<up>>
  BY <1>2
<1>4. ToSet(<<up>>) = {up}
  BY DEF ToSet
<1>5. ToSet(Append(above, up)) = ToSet(above) \union {up}
  <2>1. ToSet(above \o <<up>>) = ToSet(above) \union ToSet(<<up>>)
    BY ZenonT(40), <1>3, ToSetOfConcat
  <2> QED
    BY <1>3, <1>4, <2>1
<1> QED
  BY <1>2, <1>3, <1>5 DEF up

(* Who climbs by one new link at a time arrives.                           *)
Climbing(stop, next) ==
  \A a \in Seq(Links) \ stop :
    /\ next[a] \in Seq(Links)
    /\ \E up \in Links \ ToSet(a) : ToSet(next[a]) = ToSet(a) \union {up}

LEMMA ClimbsAreDefined ==
  ASSUME NEW stop, NEW next, Climbing(stop, next)
  PROVE  \E f : f = [a \in Seq(Links) |-> IF a \in stop THEN a ELSE f[next[a]]]
<1> DEFINE A == Seq(Links)
           m == [a \in A |-> Cardinality(Links \ ToSet(a))]
           Risen(h) == [a \in A |-> IF a \in stop THEN a ELSE h[next[a]]]
           G == [h \in [A -> A] |-> Risen(h)]
<1>1. IsFiniteSet(Links)
  BY TenancyAssumption, FS_AddElement DEF Links
<1>2. m \in [A -> Nat]
  <2>1. \A a \in A : Cardinality(Links \ ToSet(a)) \in Nat
    BY <1>1, FS_Subset, FS_CardinalityType
  <2> QED
    BY <2>1
<1>3. ASSUME NEW h \in [A -> A] PROVE Risen(h) \in [A -> A]
  <2>1. ASSUME NEW a \in A, a \notin stop PROVE h[next[a]] \in A
    BY <2>1 DEF Climbing
  <2> QED
    BY <2>1
<1>4. G \in [[A -> A] -> [A -> A]]
  <2> HIDE DEF Risen, A
  <2> QED
    BY <1>3
<1>5. ASSUME NEW h \in [A -> A], NEW k \in [A -> A], NEW a \in A,
             \A b \in A : m[b] < m[a] => h[b] = k[b]
      PROVE  G[h][a] = G[k][a]
  <2>1. CASE a \in stop
    BY <2>1
  <2>2. CASE a \notin stop
    <3> DEFINE b == next[a]
    <3>0. PICK up \in Links \ ToSet(a) : b \in Seq(Links) /\ ToSet(b) = ToSet(a) \union {up}
      BY <2>2 DEF Climbing
    <3>1. b \in A /\ Links \ ToSet(b) = (Links \ ToSet(a)) \ {up}
      <4> HIDE DEF b
      <4> QED
        BY <3>0
    <3>2. IsFiniteSet(Links \ ToSet(a))
      BY <1>1, FS_Subset
    <3> HIDE DEF b
    <3>3. Cardinality((Links \ ToSet(a)) \ {up}) = Cardinality(Links \ ToSet(a)) - 1
      BY <3>2, FS_RemoveElement
    <3>4. m[b] = m[a] - 1 /\ m[a] \in Nat
      BY <1>2, <3>1, <3>3
    <3>5. h[b] = k[b]
      <4> HIDE DEF m, A
      <4>1. m[b] < m[a]
        BY <3>4
      <4> QED
        BY <1>5, <3>1, <4>1
    <3> QED
      BY <2>2, <3>5 DEF b
  <2> QED
    BY <2>1, <2>2
<1>6. A # {}
  BY << >> \in A
<1>7. Recursion(G, m, A, A)
  <2> HIDE DEF G, m, A
  <2> QED
    BY <1>2, <1>4, <1>5, <1>6 DEF Recursion
<1>8. PICK f : f \in [A -> A] /\ f = G[f]
  <2> HIDE DEF G, m, A
  <2> QED
    BY <1>7, RecursionIsDefined
<1>9. f = Risen(f)
  BY <1>8
<1> QED
  BY <1>9

LEMMA ClimbIsDefined ==
  ASSUME NEW records \in SUBSET Recorded, NEW c
  PROVE  \E f : Climb(f, records, c)
<1> DEFINE stop == {a \in Seq(Links) : Stops(records, c, a)}
           next == [a \in Seq(Links) |-> Append(a, Up(records, c, a))]
<1>1. ASSUME NEW a \in Seq(Links) \ stop
      PROVE  /\ next[a] \in Seq(Links)
             /\ \E up \in Links \ ToSet(a) : ToSet(next[a]) = ToSet(a) \union {up}
  BY NextLink
<1>2. Climbing(stop, next)
  <2> HIDE DEF stop, next
  <2> QED
    BY <1>1 DEF Climbing
<1>3. PICK f : f = [a \in Seq(Links) |-> IF a \in stop THEN a ELSE f[next[a]]]
  <2> HIDE DEF stop, next
  <2> QED
    BY <1>2, ClimbsAreDefined
<1>4. f = [a \in Seq(Links) |->
             IF Stops(records, c, a) THEN a ELSE f[Append(a, Up(records, c, a))]]
  BY <1>3
<1> QED
  BY <1>4 DEF Climb

LEMMA ChainIsAClimb ==
  ASSUME NEW records \in SUBSET Recorded, NEW c
  PROVE  \E f : Climb(f, records, c) /\ ChainAbove(records, c) = f[<< >>]
<1> DEFINE f == CHOOSE g : Climb(g, records, c)
<1>1. Climb(f, records, c)
  BY ClimbIsDefined
<1>2. ChainAbove(records, c) = f[<< >>]
  BY DEF ChainAbove, Climb, Stops, Up, Current, Links
<1> QED
  BY <1>1, <1>2

LEMMA ClimbSteps ==
  ASSUME NEW f, NEW records, NEW c, Climb(f, records, c), NEW above \in Seq(Links)
  PROVE  /\ Stops(records, c, above) => f[above] = above
         /\ ~Stops(records, c, above) => f[above] = f[Append(above, Up(records, c, above))]
BY DEF Climb

(* Climbing from c passes found compartments, each the parent of the last. *)
Link(c, above, i) == IF i = 0 THEN c ELSE above[i]

Rising(c) ==
  {above \in Seq(Links) :
     \A i \in 1..Len(above) :
       /\ Link(c, above, i - 1) \in Inner
       /\ above[i] = RecordOf(walk.found, Link(c, above, i - 1)).parent}

LEMMA Longer ==
  ASSUME NEW V, NEW s \in Seq(V), NEW e \in V
  PROVE  /\ Append(s, e) \in Seq(V) /\ Len(Append(s, e)) = Len(s) + 1 /\ Append(s, e) # << >>
         /\ Append(s, e)[Len(s) + 1] = e
         /\ \A i \in 1..Len(s) : Append(s, e)[i] = s[i]
<1>1. Append(s, e) # << >>
  <2>1. Len(Append(s, e)) = Len(s) + 1 /\ Len(s) \in Nat /\ Len(<< >>) = 0
    OBVIOUS
  <2> QED
    BY <2>1
<1> QED
  BY <1>1

LEMMA OneOn ==
  ASSUME NEW n \in Nat, NEW i \in 1..n, NEW j \in i..n, j # n
  PROVE  j + 1 \in 1..n /\ (j + 1) - 1 = j /\ j + 1 \in i..n /\ j # 0
OBVIOUS

LEMMA RecordsAreFound ==
  ASSUME OneRecordEach, NEW r \in walk.found
  PROVE  Has(walk.found, r.id) /\ RecordOf(walk.found, r.id) = r
<1>1. \E q \in walk.found : q.id = r.id
  OBVIOUS
<1>2. RecordOf(walk.found, r.id) \in walk.found /\ RecordOf(walk.found, r.id).id = r.id
  BY <1>1 DEF RecordOf
<1> QED
  BY <1>1, <1>2 DEF OneRecordEach, Has

(* A climb never comes back to where it was.                               *)
LEMMA NoLinkTwice ==
  ASSUME TreeFound, NEW c \in Inner, NEW above \in Rising(c),
         NEW r \in walk.found, r.id = Link(c, above, Len(above)), r.id \in Inner
  PROVE  r.parent \notin ToSet(above)
<1>1. SUFFICES ASSUME r.parent \in ToSet(above) PROVE FALSE
  OBVIOUS
<1>2. above \in Seq(Links) /\ Len(above) \in Nat /\ DOMAIN above = 1..Len(above)
  BY DEF Rising
<1>3. PICK i \in 1..Len(above) : r.parent = above[i]
  BY <1>1, <1>2 DEF ToSet
<1> DEFINE T == {above[j] : j \in i..Len(above)}
<1>4. ASSUME NEW j \in i..Len(above) PROVE above[j] \in Inner
  <2>1. CASE j = Len(above)
    BY <1>2, <1>3, <2>1 DEF Link
  <2>2. CASE j # Len(above)
    <3>1. j + 1 \in 1..Len(above) /\ (j + 1) - 1 = j /\ j # 0
      BY <1>2, <2>2, OneOn
    <3>2. Link(c, above, (j + 1) - 1) \in Inner
      BY <3>1 DEF Rising
    <3> QED
      BY <3>1, <3>2 DEF Link
  <2> QED
    BY <2>1, <2>2
<1>5. T \in SUBSET Inner /\ T # {}
  <2>1. i \in i..Len(above)
    BY <1>2
  <2> QED
    BY <1>4, <2>1
<1>6. PICK q \in walk.found : q.id \in T /\ q.parent \notin T
  BY <1>5 DEF TreeFound, LeadsOut
<1>7. PICK j \in i..Len(above) : q.id = above[j]
  BY <1>6
<1>8. j # 0 /\ Link(c, above, j) = above[j]
  BY <1>3, <1>7 DEF Link
<1>9. CASE j = Len(above)
  <2>1. q = r
    BY <1>7, <1>8, <1>9 DEF TreeFound, OneRecordEach
  <2>2. above[i] \in T
    BY <1>2
  <2> QED
    BY <1>3, <1>6, <2>1, <2>2
<1>10. CASE j # Len(above)
  <2>1. j + 1 \in 1..Len(above) /\ (j + 1) - 1 = j /\ j + 1 \in i..Len(above)
    BY <1>2, <1>10, OneOn
  <2>2. above[j + 1] = RecordOf(walk.found, Link(c, above, (j + 1) - 1)).parent
    BY <2>1 DEF Rising
  <2>3. RecordOf(walk.found, q.id) = q
    BY RecordsAreFound DEF TreeFound
  <2>4. q.parent = above[j + 1]
    BY <1>7, <1>8, <2>1, <2>2, <2>3
  <2> QED
    BY <1>6, <2>1, <2>4
<1> QED
  BY <1>9, <1>10

LEMMA RisesOn ==
  ASSUME WalkTypeOK, TreeFound, NEW c \in Inner, NEW above \in Rising(c),
         NEW r \in walk.found, r.id = Link(c, above, Len(above)), r.id \in Inner
  PROVE  /\ Current(c, above) = r.id /\ ~Stops(walk.found, c, above)
         /\ Up(walk.found, c, above) = r.parent
         /\ Append(above, r.parent) \in Rising(c)
         /\ Current(c, Append(above, r.parent)) = r.parent
         /\ Link(c, Append(above, r.parent), Len(Append(above, r.parent))) = r.parent
         /\ Append(above, r.parent) # << >>
<1> DEFINE b == Append(above, r.parent)
           n == Len(above)
<1>1. /\ above \in Seq(Links) /\ n \in Nat /\ (above = << >> <=> n = 0)
  BY DEF Rising
<1>2. Current(c, above) = r.id
  BY <1>1 DEF Current, Link, Last
<1>3. r.parent \in {Root} \union Inner /\ r.id # Root
  BY DEF TreeFound, ParentsFound, Inner
<1>4. Has(walk.found, r.id) /\ RecordOf(walk.found, r.id) = r
  BY RecordsAreFound DEF TreeFound
<1>5. r.parent \in Ids /\ r.parent # None
  BY <1>3, FoundInIds, TenancyAssumption DEF Inner
<1>6. r.parent \notin ToSet(above)
  BY NoLinkTwice
<1>7. Up(walk.found, c, above) = r.parent
  BY <1>2, <1>4 DEF Up
<1>8. ~Stops(walk.found, c, above)
  BY <1>2, <1>3, <1>4, <1>5, <1>6, <1>7 DEF Stops
<1>9. /\ b \in Seq(Links) /\ Len(b) = n + 1 /\ b # << >> /\ b[n + 1] = r.parent
      /\ \A i \in 1..n : b[i] = above[i]
  <2>1. r.parent \in Links
    BY <1>5 DEF Links
  <2>2. above \in Seq(Links)
    BY <1>1
  <2> QED
    BY <2>1, <2>2, Longer
<1> HIDE DEF b
<1>10. ASSUME NEW i \in 1..(n + 1)
       PROVE  /\ Link(c, b, i - 1) \in Inner
              /\ b[i] = RecordOf(walk.found, Link(c, b, i - 1)).parent
  <2>1. Link(c, b, i - 1) = Link(c, above, i - 1)
    BY <1>1, <1>9 DEF Link
  <2>2. CASE i = n + 1
    <3>1. i - 1 = n
      BY <1>1, <2>2
    <3> QED
      BY <1>4, <1>9, <2>1, <2>2, <3>1
  <2>3. CASE i # n + 1
    <3>1. i \in 1..n
      BY <1>1, <2>3
    <3> QED
      BY <1>9, <2>1, <3>1 DEF Rising
  <2> QED
    BY <2>2, <2>3
<1>11. b \in Rising(c)
  BY <1>9, <1>10 DEF Rising
<1>12. Current(c, b) = r.parent /\ Link(c, b, Len(b)) = r.parent
  <2>1. n + 1 # 0
    BY <1>1
  <2> QED
    BY <1>9, <2>1 DEF Current, Last, Link
<1> QED
  BY <1>2, <1>7, <1>8, <1>9, <1>11, <1>12 DEF b

Chains(c) == {above \in Rising(c) : above # << >> /\ Last(above) = Root}

LEMMA ChainsLeadToTheRoot ==
  ASSUME WalkTypeOK, TreeFound, NEW c \in Inner
  PROVE  ChainAbove(walk.found, c) \in Chains(c)
<1>0. walk.found \in SUBSET Recorded
  BY DEF WalkTypeOK, WalkType
<1>1. PICK f : Climb(f, walk.found, c) /\ ChainAbove(walk.found, c) = f[<< >>]
  BY <1>0, ChainIsAClimb
<1> DEFINE Good(above) == f[above] \in Chains(c)
           Top(above) == Link(c, above, Len(above))
           Bad == {above \in Rising(c) : Top(above) \in Inner /\ ~Good(above)}
           S == {Top(above) : above \in Bad}
<1>2. ASSUME S # {} PROVE FALSE
  <2>1. S \in SUBSET Inner
    OBVIOUS
  <2>2. PICK r \in walk.found : r.id \in S /\ r.parent \notin S
    BY <1>2, <2>1 DEF TreeFound, LeadsOut
  <2>3. PICK above \in Bad : r.id = Top(above)
    BY <2>2
  <2> DEFINE b == Append(above, r.parent)
  <2>4. /\ ~Stops(walk.found, c, above) /\ Up(walk.found, c, above) = r.parent
        /\ b \in Rising(c) /\ Current(c, b) = r.parent /\ Top(b) = r.parent /\ b # << >>
    BY <2>3, RisesOn
  <2>5. f[above] = f[b]
    BY <1>1, <2>3, <2>4, ClimbSteps DEF Rising
  <2> HIDE DEF b
  <2>6. CASE r.parent = Root
    <3>1. Stops(walk.found, c, b) /\ Last(b) = Root
      BY <2>4, <2>6 DEF Stops, Current
    <3>2. f[b] = b
      BY <1>1, <2>4, <3>1, ClimbSteps DEF Rising
    <3> QED
      BY <2>3, <2>4, <2>5, <3>1, <3>2 DEF Chains
  <2>7. CASE r.parent # Root
    <3>1. r.parent \in Inner
      BY <2>1, <2>2, <2>7 DEF TreeFound, ParentsFound
    <3>2. b \notin Bad
      BY <2>2, <2>4
    <3> QED
      BY <2>3, <2>4, <2>5, <3>1, <3>2
  <2> QED
    BY <2>6, <2>7
<1>3. << >> \in Rising(c) /\ Top(<< >>) = c
  BY DEF Rising, Link
<1>4. Good(<< >>)
  BY <1>2, <1>3
<1> QED
  BY <1>1, <1>4

-----------------------------------------------------------------------------
(* The walk, whatever moves while it runs.                                 *)
WalkInv ==
  WalkTypeOK /\ call \in CallType /\ Settled /\ Paged /\ AsItIs /\ TreeFound

LEMMA WalkInvHolds == Spec => []WalkInv
<1>1. Init => WalkInv
  <2> SUFFICES ASSUME Init PROVE WalkInv
    OBVIOUS
  <2>1. world \in WorldType /\ moved = {} /\ moves = 0 /\ walk = NoWalk /\ call \in CallType
    BY WorldsAssumption, ToolsAssumption DEF Init, WalkInit
  <2>2. WalkTypeOK
    <3>1. NoWalk \in WalkType
      BY DEF NoWalk, WalkType
    <3> QED
      BY <2>1, <3>1, TenancyAssumption DEF WalkTypeOK
  <2>3. Settled
    BY <2>1 DEF Settled, NoWalk, ClosedDownward
  <2>4. walk.found = {} /\ Paged /\ AsItIs
    BY <2>1 DEF NoWalk, Paged, AsItIs, ListedIds, Listing
  <2> QED
    BY <2>1, <2>2, <2>3, <2>4, NothingIsATree DEF WalkInv
<1>2. WalkInv /\ [Next]_vars => WalkInv'
  <2> SUFFICES ASSUME WalkInv, [Next]_vars PROVE WalkInv'
    OBVIOUS
  <2>1. call' = call
    BY DEF Next, Tool, Administrator, Reject, Start, Walking, WalkFailed, ListCompartments, Target,
           Page, PageFails, PageUnavailable, PageDenied, ListResources, VisitPolicies, PoliciesFail,
           ListPolicies, ResolvePolicy, GetPolicy, vars, toolVars
  <2>2. call.subtree \in BOOLEAN
    BY DEF WalkInv, CallType
  <2> QED
    BY <2>1, <2>2, WalkStaysTyped, StaysSettled, StaysPaged, StaysAsItIs, StaysTree
    DEF WalkInv
<1> QED
  BY <1>1, <1>2, PTL DEF Spec

(* The walk of list_compartments misses nothing that stayed in place,      *)
(* whatever other compartments were moved past it between its calls.       *)
THEOREM NothingThatStaysIsMissed == Spec => []StayersFound
<1>1. WalkInv => StayersFound
  <2> SUFFICES ASSUME WalkInv, walk.place = "done", walk.subtree
               PROVE  (Below(Root) \ {Root}) \ moved \subseteq FoundIds
    BY DEF StayersFound
  <2>1. Complete(Seen) /\ ClosedDownward(moved)
    BY DEF WalkInv, Settled
  <2>2. ClosedDownward(Seen \union moved)
    BY <2>1 DEF Complete, ClosedDownward
  <2>3. Below(Root) \subseteq Seen \union moved
    BY <2>2, BelowIsLeast, TenancyAssumption DEF Seen
  <2> QED
    BY <2>3 DEF Seen
<1> QED
  BY <1>1, WalkInvHolds, PTL

(* Although it was read piece by piece from a tenancy that moved, what was *)
(* found is a tree: each compartment once and its parents leading to the   *)
(* root, in the listing of the tenancy from all that did not move.         *)
THEOREM WhatIsFoundIsATree == Spec => []FoundIsTree
<1>1. WalkInv => FoundIsTree
  <2> SUFFICES ASSUME WalkInv PROVE FoundIsTree
    OBVIOUS
  <2>1. \A r, q \in walk.found : r.id = q.id => r = q
    BY DEF WalkInv, TreeFound, OneRecordEach
  <2>2. ASSUME NEW r \in walk.found, r.id \notin {Root} \union Doubtful
        PROVE  /\ ChainAbove(walk.found, r.id) # << >>
               /\ Last(ChainAbove(walk.found, r.id)) = Root
    <3>1. r.id \in Inner
      BY <2>2 DEF Inner, FoundIds
    <3> QED
      BY <3>1, ChainsLeadToTheRoot DEF WalkInv, Chains
  <2> QED
    BY <2>1, <2>2 DEF FoundIsTree
<1> QED
  BY <1>1, WalkInvHolds, PTL

-----------------------------------------------------------------------------
(************************ collecting what is new ***************************)
LEMMA LargestNumber ==
  ASSUME NEW n \in Nat, NEW I \in SUBSET (1..n), I # {}
  PROVE  Max(I) \in I /\ \A y \in I : Max(I) >= y
<1> DEFINE J == {n - x : x \in I}
<1>1. J \subseteq Nat /\ J # {}
  OBVIOUS
<1>2. PICK z \in J : \A y \in J : z <= y
  BY <1>1, SmallestNumber
<1>3. PICK x \in I : z = n - x
  BY <1>2
<1>4. ASSUME NEW y \in I PROVE x >= y
  <2>1. n - x <= n - y
    BY <1>2, <1>3
  <2> QED
    BY <2>1
<1>5. \E w \in I : \A y \in I : w >= y
  BY <1>4
<1> QED
  BY <1>5 DEF Max


(* The items up to and including the nth, in the order of the fold.        *)
Folded(f, base, items) ==
  /\ f[{}] = base
  /\ \A S \in SUBSET (DOMAIN items) :
       S # {} => f[S] = AddNew(f[S \ {Max(S)}], items[Max(S)])

LEMMA AddsOne ==
  ASSUME NEW V, NEW s \in Seq(V), NEW e \in V
  PROVE  /\ AddNew(s, e) \in Seq(V)
         /\ ToSet(AddNew(s, e)) = ToSet(s) \union {e}
         /\ Len(AddNew(s, e)) = IF e \in ToSet(s) THEN Len(s) ELSE Len(s) + 1
<1>1. CASE e \in ToSet(s)
  BY <1>1 DEF AddNew
<1>2. CASE e \notin ToSet(s)
  <2> DEFINE b == Append(s, e)
  <2>1. /\ b \in Seq(V) /\ Len(b) = Len(s) + 1 /\ b[Len(s) + 1] = e
        /\ \A i \in 1..Len(s) : b[i] = s[i]
    BY Longer
  <2> HIDE DEF b
  <2>2. Len(s) \in Nat /\ DOMAIN s = 1..Len(s) /\ DOMAIN b = 1..(Len(s) + 1)
    BY <2>1
  <2>3. ToSet(b) = ToSet(s) \union {e}
    <3>1. \A i \in 1..(Len(s) + 1) : i \in 1..Len(s) \/ i = Len(s) + 1
      BY <2>2
    <3>2. 1..Len(s) \subseteq 1..(Len(s) + 1) /\ Len(s) + 1 \in 1..(Len(s) + 1)
      BY <2>2
    <3> QED
      BY <2>1, <2>2, <3>1, <3>2 DEF ToSet
  <2> QED
    BY <1>2, <2>1, <2>3 DEF AddNew, b
<1> QED
  BY <1>1, <1>2

LEMMA FoldIsDefined ==
  ASSUME NEW V, NEW base \in Seq(V), NEW items \in Seq(V)
  PROVE  \E f : Folded(f, base, items) /\ FoldLeft(AddNew, base, items) = f[DOMAIN items]
<1> DEFINE n == Len(items)
           A == SUBSET (1..n)
           W == Seq(V)
           Step(h) == [S \in A |-> IF S = {} THEN base
                                   ELSE AddNew(h[S \ {Max(S)}], items[Max(S)])]
           G == [h \in [A -> W] |-> Step(h)]
           m == [S \in A |-> Cardinality(S)]
<1>1. n \in Nat /\ DOMAIN items = 1..n /\ \A i \in 1..n : items[i] \in V
  OBVIOUS
<1>0. \A S \in A : IsFiniteSet(S) /\ Cardinality(S) \in Nat
  <2> HIDE DEF n
  <2>1. IsFiniteSet(1..n)
    BY <1>1, FS_Interval
  <2>2. \A S \in A : IsFiniteSet(S)
    BY <2>1, FS_Subset
  <2> QED
    BY <2>2, FS_CardinalityType
<1>2. ASSUME NEW S \in A, S # {}
      PROVE  /\ Max(S) \in S /\ Max(S) \in 1..n /\ S \ {Max(S)} \in A
             /\ Cardinality(S \ {Max(S)}) < Cardinality(S)
  <2>1. Max(S) \in S
    BY <1>1, <1>2, LargestNumber
  <2>2. Cardinality(S \ {Max(S)}) = Cardinality(S) - 1
    BY <1>0, <2>1, FS_RemoveElement
  <2>3. Cardinality(S \ {Max(S)}) < Cardinality(S)
    BY <1>0, <2>2
  <2>4. S \subseteq 1..n
    OBVIOUS
  <2> QED
    BY <2>1, <2>3, <2>4
<1>4. m \in [A -> Nat]
  BY <1>0
<1>5. ASSUME NEW h \in [A -> W] PROVE Step(h) \in [A -> W]
  <2>1. ASSUME NEW S \in A PROVE Step(h)[S] \in W
    <3>1. CASE S = {}
      BY <3>1
    <3>2. CASE S # {}
      <4>1. h[S \ {Max(S)}] \in Seq(V) /\ items[Max(S)] \in V
        BY <1>1, <1>2, <3>2
      <4>2. AddNew(h[S \ {Max(S)}], items[Max(S)]) \in W
        BY <4>1, AddsOne
      <4> QED
        BY <3>2, <4>2
    <3> QED
      BY <3>1, <3>2
  <2> QED
    BY <2>1
<1>6. G \in [[A -> W] -> [A -> W]]
  <2> HIDE DEF A, W
  <2> QED
    BY <1>5
<1>7. ASSUME NEW h \in [A -> W], NEW k \in [A -> W], NEW S \in A,
             \A T \in A : m[T] < m[S] => h[T] = k[T]
      PROVE  G[h][S] = G[k][S]
  <2>1. CASE S = {}
    BY <2>1
  <2>2. CASE S # {}
    <3>1. S \ {Max(S)} \in A /\ m[S \ {Max(S)}] < m[S]
      BY <1>2, <2>2
    <3>2. h[S \ {Max(S)}] = k[S \ {Max(S)}]
      BY <1>7, <3>1
    <3> QED
      BY <2>2, <3>2
  <2> QED
    BY <2>1, <2>2
<1>8. PICK f : f \in [A -> W] /\ f = G[f]
  <2> HIDE DEF G, m, A, W
  <2>1. W # {}
    BY DEF W
  <2>2. Recursion(G, m, A, W)
    BY <1>4, <1>6, <1>7, <2>1 DEF Recursion
  <2> QED
    BY <2>2, RecursionIsDefined
<1> DEFINE F(g) == g = [S \in SUBSET (DOMAIN items) |->
                          IF S = {} THEN base ELSE AddNew(g[S \ {Max(S)}], items[Max(S)])]
           iter == CHOOSE g : F(g)
<1>9. F(f)
  BY <1>1, <1>8
<1>10. F(iter)
  <2> HIDE DEF F
  <2> QED
    BY <1>9
<1>11. Folded(iter, base, items)
  <2>1. {} \in SUBSET (DOMAIN items)
    OBVIOUS
  <2> HIDE DEF iter
  <2> QED
    BY <1>10, <2>1 DEF Folded
<1>12. FoldLeft(AddNew, base, items) = iter[DOMAIN items]
  BY DEF FoldLeft, MapThenFoldSet
<1> QED
  BY <1>11, <1>12

Unique(s) == IsFiniteSet(ToSet(s)) /\ Cardinality(ToSet(s)) = Len(s)

Fresh(base, items) == IsInjective(items) /\ ToSet(base) \intersect ToSet(items) = {}

(* What s has become once the first n items are added to base.             *)
Collected(s, base, items, n, V) ==
  /\ s \in Seq(V)
  /\ ToSet(s) = ToSet(base) \union {items[i] : i \in 1..n}
  /\ Len(s) <= Len(base) + n
  /\ Unique(base) => Unique(s)
  /\ Fresh(base, items) => Len(s) = Len(base) + n

LEMMA CollectsOneMore ==
  ASSUME NEW V, NEW base \in Seq(V), NEW items \in Seq(V), NEW n \in Nat, n + 1 \in 1..Len(items),
         NEW s, Collected(s, base, items, n, V)
  PROVE  Collected(AddNew(s, items[n + 1]), base, items, n + 1, V)
<1> DEFINE e == items[n + 1]
           t == AddNew(s, e)
<1>1. e \in V /\ s \in Seq(V)
  BY DEF Collected
<1>2. /\ t \in Seq(V) /\ ToSet(t) = ToSet(s) \union {e}
      /\ Len(t) = IF e \in ToSet(s) THEN Len(s) ELSE Len(s) + 1
  <2> HIDE DEF e
  <2> QED
    BY <1>1, AddsOne
<1>3. ToSet(t) = ToSet(base) \union {items[i] : i \in 1..(n + 1)}
  <2>1. 1..(n + 1) = 1..n \union {n + 1}
    OBVIOUS
  <2>2. {items[i] : i \in 1..(n + 1)} = {items[i] : i \in 1..n} \union {e}
    BY <2>1
  <2> QED
    BY <1>2, <2>2 DEF Collected
<1>4. Len(s) \in Nat /\ Len(base) \in Nat /\ Len(items) \in Nat /\ DOMAIN items = 1..Len(items)
  BY <1>1
<1> HIDE DEF t, e
<1>5. Len(t) <= Len(base) + (n + 1)
  BY <1>2, <1>4 DEF Collected
<1>6. ASSUME Unique(base) PROVE Unique(t)
  <2>1. Unique(s)
    BY <1>6 DEF Collected
  <2>2. IsFiniteSet(ToSet(s)) /\ Cardinality(ToSet(s)) = Len(s)
    BY <2>1 DEF Unique
  <2>3. /\ IsFiniteSet(ToSet(s) \union {e})
        /\ Cardinality(ToSet(s) \union {e}) =
             IF e \in ToSet(s) THEN Cardinality(ToSet(s)) ELSE Cardinality(ToSet(s)) + 1
    BY <2>2, FS_AddElement
  <2> QED
    BY <1>2, <2>2, <2>3 DEF Unique
<1>7. ASSUME Fresh(base, items) PROVE Len(t) = Len(base) + (n + 1)
  <2>1. e \notin ToSet(base)
    <3>1. e \in ToSet(items)
      BY <1>4 DEF e, ToSet
    <3> QED
      BY <1>7, <3>1 DEF Fresh
  <2>2. \A i \in 1..n : items[i] # e
    <3>1. \A i \in 1..n : i \in DOMAIN items /\ n + 1 \in DOMAIN items /\ i # n + 1
      BY <1>4
    <3> QED
      BY <1>7, <3>1 DEF Fresh, IsInjective, e
  <2>3. e \notin ToSet(s)
    BY <2>1, <2>2 DEF Collected
  <2>4. Len(s) = Len(base) + n
    BY <1>7 DEF Collected
  <2> QED
    BY <1>2, <1>4, <2>3, <2>4
<1> QED
  BY <1>2, <1>3, <1>5, <1>6, <1>7 DEF Collected, t, e

LEMMA Collects ==
  ASSUME NEW V, NEW base \in Seq(V), NEW items \in Seq(V)
  PROVE  /\ Collected(FoldLeft(AddNew, base, items), base, items, Len(items), V)
         /\ ToSet(FoldLeft(AddNew, base, items)) = ToSet(base) \union ToSet(items)
<1> DEFINE n == Len(items)
           all == FoldLeft(AddNew, base, items)
<1>1. PICK f : Folded(f, base, items) /\ all = f[DOMAIN items]
  BY FoldIsDefined
<1>2. n \in Nat /\ DOMAIN items = 1..n
  OBVIOUS
<1> HIDE DEF all
<1> DEFINE S == {k \in Nat : k <= n => Collected(f[1..k], base, items, k, V)}
<1>3. 0 \in S
  <2>1. 1..0 = {} /\ {items[i] : i \in 1..0} = {}
    OBVIOUS
  <2>2. f[1..0] = base
    BY <1>1, <2>1 DEF Folded
  <2>3. Len(base) \in Nat
    OBVIOUS
  <2>4. Collected(base, base, items, 0, V)
    BY <2>1, <2>3 DEF Collected
  <2> QED
    BY <2>2, <2>4
<1>4. ASSUME NEW k \in Nat, k \in S PROVE k + 1 \in S
  <2> SUFFICES ASSUME k + 1 <= n PROVE Collected(f[1..(k + 1)], base, items, k + 1, V)
    BY k + 1 \in Nat
  <2> HIDE DEF n
  <2>1. /\ 1..(k + 1) \in SUBSET (1..n) /\ 1..(k + 1) # {} /\ k + 1 \in 1..n /\ k <= n
    <3>1. k + 1 \in 1..(k + 1)
      OBVIOUS
    <3>2. n \in Nat
      BY <1>2
    <3>3. 1..(k + 1) \subseteq 1..n /\ k + 1 \in 1..n /\ k <= n
      BY <3>2
    <3> QED
      BY <3>1, <3>3
  <2>2. Max(1..(k + 1)) = k + 1
    <3>1. Max(1..(k + 1)) \in 1..(k + 1) /\ \A y \in 1..(k + 1) : Max(1..(k + 1)) >= y
      BY <1>2, <2>1, LargestNumber
    <3>2. k + 1 \in 1..(k + 1)
      OBVIOUS
    <3> QED
      BY <3>1, <3>2
  <2>3. (1..(k + 1)) \ {k + 1} = 1..k
    OBVIOUS
  <2>4. f[1..(k + 1)] = AddNew(f[1..k], items[k + 1])
    <3>1. f[1..(k + 1)] = AddNew(f[(1..(k + 1)) \ {Max(1..(k + 1))}], items[Max(1..(k + 1))])
      BY <1>1, <1>2, <2>1 DEF Folded
    <3> QED
      BY <2>2, <2>3, <3>1
  <2>5. Collected(f[1..k], base, items, k, V)
    BY <1>4, <2>1
  <2> QED
    BY <2>1, <2>4, <2>5, CollectsOneMore DEF n
<1>5. n \in S
  <2> HIDE DEF S, n
  <2> QED
    BY <1>2, <1>3, <1>4, Induction
<1>6. Collected(all, base, items, n, V)
  BY <1>1, <1>2, <1>5
<1>7. {items[i] : i \in 1..n} = ToSet(items)
  BY <1>2 DEF ToSet
<1> QED
  BY <1>6, <1>7 DEF Collected, all

-----------------------------------------------------------------------------
(******************************** a page ***********************************)
LEMMA SmallestOfThree ==
  ASSUME NEW a \in Int, NEW b \in Int, NEW c \in Int
  PROVE  /\ Min({a, b, c}) \in {a, b, c}
         /\ Min({a, b, c}) <= a /\ Min({a, b, c}) <= b /\ Min({a, b, c}) <= c
<1>1. \E x \in {a, b, c} : \A y \in {a, b, c} : x <= y
  <2>1. CASE a <= b /\ a <= c
    BY <2>1
  <2>2. CASE b <= a /\ b <= c
    BY <2>2
  <2>3. CASE c <= a /\ c <= b
    BY <2>3
  <2> QED
    BY <2>1, <2>2, <2>3
<1> QED
  BY <1>1 DEF Min

LEMMA SmallestOfTwo ==
  ASSUME NEW a \in Int, NEW b \in Int
  PROVE  Min({a, b}) = IF a <= b THEN a ELSE b
<1>1. {a, b} = {a, b, b}
  OBVIOUS
<1> QED
  BY <1>1, SmallestOfThree

(* The next n items after the first k.                                     *)
LEMMA NextItems ==
  ASSUME NEW V, NEW s \in Seq(V), NEW k \in 0..Len(s),
         NEW n \in 0..(Len(s) - k)
  PROVE  /\ Len(SubSeq(s, k + 1, Len(s))) = Len(s) - k
         /\ SubSeq(s, 1, k) \o SubSeq(SubSeq(s, k + 1, Len(s)), 1, n) = SubSeq(s, 1, k + n)
         /\ SubSeq(s, 1, k + n) \in Seq(V) /\ Len(SubSeq(s, 1, k + n)) = k + n
<1>1. Len(s) \in Nat /\ k \in Nat /\ n \in Nat /\ k + n \in 0..Len(s) /\ \A i \in 1..Len(s) : s[i] \in V
  OBVIOUS
<1> DEFINE left == SubSeq(s, k + 1, Len(s))
<1>2. left \in Seq(V) /\ Len(left) = Len(s) - k
  BY <1>1, SubSeqProperties
<1>3. SubSeq(left, 1, n) = SubSeq(s, k + 1, k + n)
  <2>1. CASE n = 0
    BY <1>1, <1>2, <2>1, SubSeqEmpty
  <2>2. CASE n # 0
    <3>1. /\ k + 1 \in 1..Len(s) /\ Len(s) \in 1..Len(s) /\ 1 \in 1..(Len(s) - (k + 1) + 1)
          /\ n \in 1..(Len(s) - (k + 1) + 1) /\ (k + 1) + 1 - 1 = k + 1 /\ (k + 1) + n - 1 = k + n
      BY <1>1, <2>2
    <3> QED
      BY <1>2, <3>1, SubSeqOfSubSeq
  <2> QED
    BY <2>1, <2>2
<1>4. SubSeq(s, 1, k) \o SubSeq(s, k + 1, k + n) = SubSeq(s, 1, k + n)
  <2>1. 1 \in 1..(Len(s) + 1) /\ k \in (1 - 1)..Len(s) /\ k + n \in k..Len(s)
    BY <1>1
  <2> QED
    BY <2>1, ConcatAdjacentSubSeq
<1>5. SubSeq(s, 1, k + n) \in Seq(V) /\ Len(SubSeq(s, 1, k + n)) = k + n
  BY <1>1, SubSeqProperties
<1> QED
  BY <1>2, <1>3, <1>4, <1>5

(* What a search has read of its compartment, and that it wants more.      *)
SearchKept ==
  searched # << >> =>
    /\ call.tool = "list_resources" /\ targets # << >>
    /\ Len(searched) <= Len(contents[Head(targets)])
    /\ searched = SubSeq(contents[Head(targets)], 1, Len(searched))
    /\ Len(searched) < Remaining

(* A page reads on from there, never past the limit.                       *)
ReadsOn(n) ==
  LET h == Head(targets)
      items == SubSeq(contents[h], 1, n) IN
  /\ n \in 0..Len(contents[h]) /\ n <= Remaining
  /\ items \in Seq(Resources) /\ Len(items) = n
  /\ IF n = Remaining \/ n = Len(contents[h])
     THEN /\ resources' = FoldLeft(AddNew, resources, items)
          /\ targets' = Tail(targets) /\ searched' = << >>
     ELSE searched' = items /\ UNCHANGED <<resources, targets>>

LEMMA PageReadsOn ==
  ASSUME TypeOK, SearchKept, Page
  PROVE  \E n \in Nat : ReadsOn(n)
<1> DEFINE s == contents[Head(targets)]
           k == Len(searched)
<1>1. /\ targets \in Seq(Ids) /\ targets # << >> /\ Head(targets) \in Ids
      /\ Remaining \in Int /\ Remaining > 0
  <2>1. call.limit \in Nat /\ Len(resources) \in Nat
    BY DEF TypeOK, CallType
  <2>2. targets \in Seq(Ids) /\ targets # << >> /\ Remaining > 0
    BY DEF TypeOK, Page, Searching
  <2> QED
    BY <2>1, <2>2 DEF Remaining
<1>2. s \in Seq(Resources) /\ Len(s) \in Nat
  <2>1. contents \in [Ids -> Seq(Resources)]
    BY ToolsAssumption DEF TypeOK
  <2> QED
    BY <1>1, <2>1
<1> HIDE DEF s, k
<1>3. k \in 0..Len(s) /\ k < Remaining /\ searched = SubSeq(s, 1, k)
  <2>1. CASE searched = << >>
    <3>1. k = 0
      BY <2>1 DEF k
    <3>2. SubSeq(s, 1, 0) = << >>
      BY SubSeqEmpty
    <3> QED
      BY <1>1, <1>2, <2>1, <3>1, <3>2
  <2>2. CASE searched # << >>
    <3>1. searched \in Seq(Resources)
      BY DEF TypeOK
    <3>2. k \in Nat
      BY <3>1 DEF k
    <3> QED
      BY <1>2, <2>2, <3>2 DEF SearchKept, s, k
  <2> QED
    BY <2>1, <2>2
<1>4. Left = SubSeq(s, k + 1, Len(s)) /\ Len(Left) = Len(s) - k
  <2>1. 0 \in 0..(Len(s) - k)
    BY <1>2, <1>3
  <2>2. Len(SubSeq(s, k + 1, Len(s))) = Len(s) - k
    BY <1>2, <1>3, <2>1, NextItems
  <2>3. Left = SubSeq(s, k + 1, Len(s))
    BY DEF Left, s, k
  <2> QED
    BY <2>2, <2>3
<1>5. PICK n \in PageLengths :
        LET items == searched \o SubSeq(Left, 1, n) IN
        IF Len(items) >= Remaining \/ n = Len(Left)
        THEN resources' = Collect(items) /\ targets' = Tail(targets) /\ searched' = << >>
        ELSE searched' = items /\ UNCHANGED <<resources, targets>>
  BY DEF Page
<1>6. n \in 0..(Len(s) - k) /\ n <= Remaining - k
  <2> DEFINE most == Min({Remaining - k, PageMax, Len(Left)})
  <2>1. /\ most \in {Remaining - k, PageMax, Len(Left)}
        /\ most <= Remaining - k /\ most <= Len(Left)
    <3>1. Remaining - k \in Int /\ PageMax \in Int /\ Len(Left) \in Int
      BY <1>1, <1>2, <1>3, <1>4, ToolsAssumption
    <3> QED
      BY <3>1, SmallestOfThree
  <2>2. most \in Nat
    BY <1>1, <1>2, <1>3, <1>4, <2>1, ToolsAssumption
  <2>3. n \in Min({1, most})..most
    BY DEF PageLengths, k
  <2> HIDE DEF most
  <2>4. Min({1, most}) \in Nat
    BY <2>2, SmallestOfTwo
  <2> QED
    BY <1>1, <1>2, <1>3, <1>4, <2>1, <2>2, <2>3, <2>4
<1> DEFINE items == SubSeq(s, 1, k + n)
<1>7. /\ searched \o SubSeq(Left, 1, n) = items
      /\ items \in Seq(Resources) /\ Len(items) = k + n
  BY <1>2, <1>3, <1>4, <1>6, NextItems
<1> HIDE DEF items
<1>8. k + n \in 0..Len(s) /\ k + n <= Remaining /\ k + n \in Nat
  BY <1>1, <1>2, <1>3, <1>6
<1>9. Collect(items) = FoldLeft(AddNew, resources, items)
  <2>1. Min({Remaining, Len(items)}) = Len(items)
    <3>1. Remaining \in Int /\ Len(items) \in Int /\ Len(items) <= Remaining
      BY <1>1, <1>7, <1>8
    <3>2. Min({Remaining, Len(items)}) = IF Remaining <= Len(items) THEN Remaining ELSE Len(items)
      BY <3>1, SmallestOfTwo
    <3> HIDE DEF Remaining
    <3> QED
      BY <3>1, <3>2
  <2>2. SubSeq(items, 1, Min({Remaining, Len(items)})) = items
    BY <1>7, <2>1, SubSeqFull
  <2> QED
    BY <2>2 DEF Collect
<1>10. n = Len(Left) <=> k + n = Len(s)
  BY <1>2, <1>3, <1>4, <1>6
<1>11. Len(items) >= Remaining <=> k + n = Remaining
  <2>1. /\ Remaining \in Int /\ k + n \in Nat
        /\ Len(items) = k + n /\ k + n <= Remaining
    BY <1>1, <1>7, <1>8
  <2> DEFINE read == k + n
  <2>2. /\ Remaining \in Int /\ read \in Nat
        /\ Len(items) = read /\ read <= Remaining
    BY <2>1
  <2> HIDE DEF read, Remaining
  <2>3. Len(items) >= Remaining <=> read = Remaining
    BY <2>2
  <2> QED
    BY <2>3 DEF read
<1>12. IF k + n = Remaining \/ k + n = Len(s)
       THEN /\ resources' = FoldLeft(AddNew, resources, items)
            /\ targets' = Tail(targets) /\ searched' = << >>
       ELSE searched' = items /\ UNCHANGED <<resources, targets>>
  BY <1>5, <1>7, <1>9, <1>10, <1>11
<1>13. ReadsOn(k + n)
  BY <1>7, <1>8, <1>12 DEF ReadsOn, s, items
<1> QED
  BY <1>8, <1>13

-----------------------------------------------------------------------------
(*************************** targets and policies **************************)
LEMMA RestOf ==
  ASSUME NEW V, NEW s \in Seq(V), s # << >>, IsInjective(s)
  PROVE  /\ Tail(s) \in Seq(V) /\ IsInjective(Tail(s))
         /\ Head(s) \in V /\ Head(s) \in ToSet(s) /\ ToSet(Tail(s)) = ToSet(s) \ {Head(s)}
<1>1. /\ Head(s) \in V /\ Head(s) = s[1] /\ Tail(s) \in Seq(V) /\ Len(Tail(s)) = Len(s) - 1
      /\ \A i \in 1..Len(Tail(s)) : Tail(s)[i] = s[i + 1]
  BY HeadTailProperties
<1> DEFINE t == Tail(s)
<1>2. Len(s) \in Nat /\ Len(s) # 0 /\ DOMAIN s = 1..Len(s) /\ DOMAIN t = 1..(Len(s) - 1)
  BY <1>1
<1> HIDE DEF t
<1>3. \A i \in DOMAIN t : i + 1 \in DOMAIN s /\ i + 1 # 1 /\ t[i] = s[i + 1]
  BY <1>1, <1>2 DEF t
<1>4. IsInjective(t)
  <2> SUFFICES ASSUME NEW i \in DOMAIN t, NEW j \in DOMAIN t, t[i] = t[j] PROVE i = j
    BY DEF IsInjective
  <2>1. i + 1 = j + 1
    BY <1>3 DEF IsInjective
  <2> QED
    BY <1>2, <2>1
<1>5. 1 \in DOMAIN s
  BY <1>2
<1>6. ToSet(t) \subseteq ToSet(s) \ {Head(s)}
  BY <1>1, <1>3, <1>5 DEF ToSet, IsInjective
<1>7. ToSet(s) \ {Head(s)} \subseteq ToSet(t)
  <2> SUFFICES ASSUME NEW i \in DOMAIN s, s[i] # Head(s) PROVE s[i] \in ToSet(t)
    BY DEF ToSet
  <2>1. i - 1 \in DOMAIN t /\ (i - 1) + 1 = i
    BY <1>1, <1>2
  <2> QED
    BY <1>3, <2>1 DEF ToSet
<1> QED
  BY <1>1, <1>4, <1>5, <1>6, <1>7 DEF t, ToSet

(* Resources are listed of every compartment, policies of active ones.     *)
Wanted == {r \in walk.found : r.active \/ call.tool = "list_resources"}

LEMMA TargetsChosen ==
  ASSUME WalkTypeOK, Target
  PROVE  /\ targets' \in Seq(Ids) /\ IsInjective(targets')
         /\ ToSet(targets') = {Root} \union {r.id : r \in Wanted}
<1> DEFINE S == {r.id : r \in Wanted} \ {Root}
<1>1. Kept(walk.found, TRUE, call.tool = "list_resources", NoLimit) = Wanted
  BY DEF Kept, Wanted
<1>2. PICK order \in SetToSeqs(S) : targets' = <<Root>> \o order
  BY <1>1 DEF Target
<1>3. S \in SUBSET Ids
  BY FoundInIds DEF FoundIds, Wanted
<1>4. IsFiniteSet(S)
  BY <1>3, TenancyAssumption, FS_Subset
<1> HIDE DEF S
<1>5. /\ order \in Seq(S) /\ ToSet(order) = S
      /\ \A i, j \in 1..Len(order) : order[i] = order[j] => i = j
  BY <1>4, OrdersAreComplete
<1>6. order \in Seq(Ids) /\ <<Root>> \in Seq(Ids) /\ ToSet(<<Root>>) = {Root}
  BY <1>3, <1>5, TenancyAssumption DEF ToSet
<1>7. targets' \in Seq(Ids) /\ ToSet(targets') = {Root} \union S
  <2>1. ToSet(<<Root>> \o order) = ToSet(<<Root>>) \union ToSet(order)
    <3> DEFINE first == <<Root>>
    <3>1. first \in Seq(Ids) /\ order \in Seq(Ids)
      BY <1>6
    <3> HIDE DEF first
    <3>2. ToSet(first \o order) = ToSet(first) \union ToSet(order)
      BY <3>1, ToSetOfConcat
    <3> QED
      BY <3>2 DEF first
  <2> QED
    BY <1>2, <1>5, <1>6, <2>1
<1>8. IsInjective(targets')
  <2> DEFINE t == targets'
  <2>1. /\ Len(order) \in Nat /\ DOMAIN t = 1..(Len(order) + 1) /\ t[1] = Root
        /\ \A i \in 2..(Len(order) + 1) : t[i] = order[i - 1]
    BY <1>2, <1>6
  <2>2. ASSUME NEW i \in 2..(Len(order) + 1) PROVE i - 1 \in 1..Len(order) /\ t[i] \in S
    <3>1. i - 1 \in 1..Len(order)
      BY <2>1
    <3>2. order[i - 1] \in S
      BY <1>5, <3>1
    <3> QED
      BY <2>1, <3>1, <3>2
  <2>3. Root \notin S
    BY DEF S
  <2> HIDE DEF t
  <2> SUFFICES ASSUME NEW i \in 1..(Len(order) + 1), NEW j \in 1..(Len(order) + 1), t[i] = t[j]
               PROVE  i = j
    BY <2>1 DEF IsInjective, t
  <2>4. CASE i = 1 \/ j = 1
    <3>1. i # 1 => i \in 2..(Len(order) + 1)
      BY <2>1
    <3>2. j # 1 => j \in 2..(Len(order) + 1)
      BY <2>1
    <3> QED
      BY <2>1, <2>2, <2>3, <2>4, <3>1, <3>2
  <2>5. CASE i # 1 /\ j # 1
    <3>1. i \in 2..(Len(order) + 1) /\ j \in 2..(Len(order) + 1)
      BY <2>1, <2>5
    <3>2. i - 1 = j - 1
      BY <1>5, <2>1, <2>2, <3>1
    <3> QED
      BY <3>1, <3>2
  <2> QED
    BY <2>4, <2>5
<1> QED
  BY <1>7, <1>8 DEF S

LEMMA PoliciesTyped ==
  ASSUME NEW c \in Ids
  PROVE  PoliciesOf(c) \in Seq(Listed)
<1>1. Policies[c] \in Seq(Listed) /\ Len(Policies[c]) \in Nat /\ PolicyPage \in Nat
  BY ToolsAssumption
<1> DEFINE n == Min({PolicyPage, Len(Policies[c])})
<1>2. n \in 0..Len(Policies[c])
  <2>1. n = IF PolicyPage <= Len(Policies[c]) THEN PolicyPage ELSE Len(Policies[c])
    BY <1>1, SmallestOfTwo
  <2> QED
    BY <1>1, <2>1
<1> HIDE DEF n
<1>3. \A i \in 1..n : Policies[c][i] \in Listed
  BY <1>1, <1>2
<1>4. n \in Int /\ 1 \in Int
  BY <1>2
<1>5. SubSeq(Policies[c], 1, n) \in Seq(Listed)
  BY <1>3, <1>4, SubSeqProperties
<1> QED
  BY <1>5 DEF PoliciesOf, n

-----------------------------------------------------------------------------
(**************************** types of the tools ***************************)
NoMoreThanAsked == call.tool = "list_resources" => Len(resources) <= call.limit

NothingYet ==
  place \in {"start", "walk"} =>
    targets = << >> /\ searched = << >> /\ resources = << >> /\ warnings = {}

ToolsTyped ==
  /\ TypeOK /\ SearchKept /\ NothingYet
  /\ Unique(resources) /\ NoMoreThanAsked /\ IsInjective(targets)

LEMMA PageStaysTyped ==
  ASSUME ToolsTyped, Page
  PROVE  ToolsTyped'
<1> USE DEF ToolsTyped
<1>1. /\ Searching /\ attempt' = 1
      /\ UNCHANGED <<world, moved, moves, walk, contents, call, place, warnings, answer>>
  BY DEF Page, ToolStep, walkVars
<1>2. PICK n \in Nat : ReadsOn(n)
  BY PageReadsOn
<1> DEFINE h == Head(targets)
           items == SubSeq(contents[h], 1, n)
<1>3. /\ call.tool = "list_resources" /\ place = "visit" /\ targets # << >>
      /\ targets \in Seq(Ids) /\ resources \in Seq(Resources)
      /\ call.limit \in Nat /\ Len(resources) \in Nat
  BY <1>1 DEF Searching, TypeOK, CallType
<1>4. Tail(targets) \in Seq(Ids) /\ IsInjective(Tail(targets))
  BY <1>3, RestOf
<1>5. items \in Seq(Resources) /\ Len(items) = n /\ n <= Remaining /\ n <= Len(contents[h])
  BY <1>2 DEF ReadsOn
<1>6. Collected(FoldLeft(AddNew, resources, items), resources, items, Len(items), Resources)
  <2> HIDE DEF items
  <2> QED
    BY <1>3, <1>5, Collects
<1>7. CASE n = Remaining \/ n = Len(contents[h])
  <2>1. /\ resources' = FoldLeft(AddNew, resources, items)
        /\ targets' = Tail(targets) /\ searched' = << >>
    BY <1>2, <1>7 DEF ReadsOn
  <2> HIDE DEF items
  <2>2. resources' \in Seq(Resources) /\ Unique(resources') /\ Len(resources') <= Len(resources) + n
    BY <1>5, <1>6, <2>1 DEF Collected
  <2>3. NoMoreThanAsked'
    <3>1. Len(resources) + n <= call.limit
      BY <1>3, <1>5 DEF Remaining
    <3>2. Len(resources') \in Nat
      BY <2>2
    <3> QED
      BY <1>1, <1>3, <2>2, <3>1, <3>2 DEF NoMoreThanAsked
  <2>4. TypeOK'
    <3>1. WalkTypeOK'
      BY <1>1 DEF TypeOK, WalkTypeOK
    <3>2. searched' \in Seq(Resources)
      BY <2>1
    <3> QED
      BY <1>1, <1>3, <1>4, <2>1, <2>2, <3>1, <3>2 DEF TypeOK
  <2>5. SearchKept' /\ NothingYet'
    BY <1>1, <1>3, <2>1 DEF SearchKept, NothingYet
  <2>6. Unique(resources)' /\ IsInjective(targets)'
    BY <1>4, <2>1, <2>2 DEF Unique
  <2> QED
    BY <2>3, <2>4, <2>5, <2>6
<1>8. CASE ~(n = Remaining \/ n = Len(contents[h]))
  <2>1. searched' = items /\ UNCHANGED <<resources, targets>>
    BY <1>2, <1>8 DEF ReadsOn
  <2>2. TypeOK'
    <3>1. WalkTypeOK'
      BY <1>1 DEF TypeOK, WalkTypeOK
    <3> HIDE DEF items
    <3> QED
      BY <1>1, <1>5, <2>1, <3>1 DEF TypeOK
  <2>3. SearchKept'
    <3>1. contents' = contents /\ Head(targets') = h /\ Remaining' = Remaining
      BY <1>1, <2>1 DEF Remaining
    <3>2. n \in Nat /\ n < Remaining
      BY <1>3, <1>5, <1>8 DEF Remaining
    <3>3. Len(searched') = n /\ searched' = SubSeq(contents[h], 1, n)
      BY <1>5, <2>1
    <3> QED
      BY <1>1, <1>3, <1>5, <2>1, <3>1, <3>2, <3>3 DEF SearchKept
  <2>4. NothingYet' /\ NoMoreThanAsked' /\ IsInjective(targets)' /\ Unique(resources)'
    BY <1>1, <1>3, <2>1 DEF NothingYet, NoMoreThanAsked, Unique
  <2> QED
    BY <2>2, <2>3, <2>4
<1> QED
  BY <1>7, <1>8

LEMMA ToolsStayTyped ==
  ASSUME ToolsTyped, [Next]_vars
  PROVE  ToolsTyped'
<1> USE DEF ToolsTyped
<1>1. call' = call /\ contents' = contents
  BY DEF Next, Tool, Administrator, Reject, Start, Walking, WalkFailed, ListCompartments, Target,
         Page, PageFails, PageUnavailable, PageDenied, ListResources, VisitPolicies, PoliciesFail,
         ListPolicies, ResolvePolicy, GetPolicy, vars, toolVars
<1>2. WalkTypeOK'
  BY WalkStaysTyped DEF TypeOK, CallType
<1> DEFINE Rest == <<targets, searched, resources, warnings>>
<1>3. ASSUME UNCHANGED Rest, attempt' \in 1..2,
             \/ UNCHANGED <<place, answer>>
             \/ place # "done" /\ \E a : Return(a) /\ a.status \in {"success", "needs_confirmation", "error"}
             \/ place \notin {"start", "done"} /\ place' \in {"visit", "policy"} /\ answer' = answer
      PROVE  ToolsTyped'
  <2>1. TypeOK'
    <3>1. place' \in {"start", "walk", "visit", "policy", "done"}
      BY <1>3 DEF TypeOK, Return
    <3>2. answer'.status \in {"none", "success", "needs_confirmation", "error"}
      BY <1>3 DEF TypeOK, Return
    <3>3. place' = "done" <=> answer'.status # "none"
      BY <1>3 DEF TypeOK, Return
    <3> QED
      BY <1>1, <1>2, <1>3, <3>1, <3>2, <3>3 DEF TypeOK
  <2>2. SearchKept'
    BY <1>1, <1>3 DEF SearchKept, Remaining
  <2>3. NothingYet'
    BY <1>3 DEF NothingYet, Return
  <2>4. Unique(resources)' /\ NoMoreThanAsked' /\ IsInjective(targets)'
    BY <1>1, <1>3 DEF Unique, NoMoreThanAsked
  <2> QED
    BY <2>1, <2>2, <2>3, <2>4
<1>4. ASSUME UNCHANGED toolVars PROVE ToolsTyped'
  <2>1. attempt' \in 1..2
    BY <1>4 DEF toolVars, TypeOK
  <2> QED
    BY <1>3, <1>4, <2>1 DEF toolVars
<1>5. ASSUME UNCHANGED <<contents, call, targets, searched, attempt, resources, warnings>>, place # "done",
             NEW a, Return(a), a.status \in {"success", "needs_confirmation", "error"}
      PROVE  ToolsTyped'
  <2>1. attempt' \in 1..2
    BY <1>5 DEF TypeOK
  <2> QED
    BY <1>3, <1>5, <2>1
<1>6. CASE Reject \/ WalkFailed \/ PageUnavailable \/ PoliciesFail
  <2>1. Error.status = "error"
    BY DEF Error, Answer
  <2> QED
    BY <1>5, <1>6, <2>1 DEF Reject, WalkFailed, PageUnavailable, Searching, PoliciesFail
<1>7. CASE Start
  <2>1. /\ targets = << >> /\ searched = << >> /\ resources = << >> /\ warnings = {}
        /\ UNCHANGED <<searched, attempt, resources, warnings, answer>> /\ place = "start"
    BY <1>7 DEF Start, NothingYet
  <2>2. /\ targets' \in Seq(Ids) /\ IsInjective(targets') /\ place' \in {"walk", "visit", "policy"}
        /\ place' = "walk" => targets' = << >>
    <3>1. /\ <<Root>> \in Seq(Ids) /\ IsInjective(<<Root>>)
      BY TenancyAssumption DEF IsInjective
    <3>2. CASE Walks
      BY <1>7, <2>1, <3>2 DEF Start
    <3>3. CASE ~Walks
      <4>1. targets' = <<Root>> /\ place' \in {"visit", "policy"}
        BY <1>7, <3>3 DEF Start
      <4> QED
        BY <3>1, <4>1
    <3> QED
      BY <3>2, <3>3
  <2>3. TypeOK'
    BY <1>1, <1>2, <2>1, <2>2 DEF TypeOK
  <2> QED
    BY <1>1, <2>1, <2>2, <2>3 DEF SearchKept, NothingYet, Unique, NoMoreThanAsked
<1>8. CASE Walking
  BY <1>4, <1>8 DEF Walking
<1>9. CASE ListCompartments
  BY <1>5, <1>9 DEF ListCompartments, Answer
<1>10. CASE Target
  <2>1. /\ targets = << >> /\ searched = << >> /\ resources = << >> /\ warnings = {}
        /\ UNCHANGED <<searched, attempt, resources, warnings, answer>>
        /\ place = "walk" /\ place' = "visit"
    BY <1>10 DEF Target, NothingYet
  <2>2. targets' \in Seq(Ids) /\ IsInjective(targets')
    BY <1>10, TargetsChosen DEF TypeOK
  <2>3. TypeOK'
    BY <1>1, <1>2, <2>1, <2>2 DEF TypeOK
  <2> QED
    BY <1>1, <2>1, <2>2, <2>3 DEF SearchKept, NothingYet, Unique, NoMoreThanAsked
<1>11. CASE PageFails
  <2>1. attempt' \in 1..2 /\ Error.status = "error"
    BY <1>11 DEF PageFails, TypeOK, Error, Answer
  <2> QED
    BY <1>3, <1>11, <2>1 DEF PageFails, Searching
<1>12. CASE PageDenied
  <2>1. /\ targets \in Seq(Ids) /\ targets # << >> /\ place = "visit" /\ attempt' = 1
        /\ warnings' = warnings \union {Head(targets)} /\ targets' = Tail(targets) /\ searched' = << >>
        /\ UNCHANGED <<place, resources, answer>>
    BY <1>12 DEF PageDenied, Searching, TypeOK
  <2>2. targets' \in Seq(Ids) /\ IsInjective(targets') /\ Head(targets) \in Ids
    BY <2>1, RestOf
  <2>3. searched' \in Seq(Resources)
    BY <2>1
  <2>4. TypeOK'
    BY <1>1, <1>2, <2>1, <2>2, <2>3 DEF TypeOK
  <2> QED
    BY <1>1, <2>1, <2>2, <2>4 DEF SearchKept, NothingYet, Unique, NoMoreThanAsked
<1>13. CASE ListResources \/ ListPolicies \/ GetPolicy
  <2>1. \A data : Answer("success", data).status = "success"
    BY DEF Answer
  <2> QED
    BY <1>5, <1>13, <2>1 DEF ListResources, ListPolicies, GetPolicy
<1>14. CASE VisitPolicies
  <2>1. /\ targets \in Seq(Ids) /\ targets # << >> /\ place = "visit"
        /\ call.tool # "list_resources" /\ resources \in Seq(Listed)
        /\ resources' = FoldLeft(AddNew, resources, PoliciesOf(Head(targets)))
        /\ targets' = Tail(targets)
        /\ UNCHANGED <<place, searched, attempt, warnings, answer>>
    BY <1>14 DEF VisitPolicies, TypeOK
  <2>2. targets' \in Seq(Ids) /\ IsInjective(targets') /\ Head(targets) \in Ids
    BY <2>1, RestOf
  <2>3. PoliciesOf(Head(targets)) \in Seq(Listed)
    BY <2>2, PoliciesTyped
  <2>4. Collected(resources', resources, PoliciesOf(Head(targets)),
                  Len(PoliciesOf(Head(targets))), Listed)
    BY <2>1, <2>3, Collects
  <2>5. resources' \in Seq(Listed) /\ Unique(resources')
    BY <2>4 DEF Collected
  <2>6. TypeOK'
    BY <1>1, <1>2, <2>1, <2>2, <2>5 DEF TypeOK
  <2> QED
    BY <1>1, <2>1, <2>2, <2>5, <2>6 DEF SearchKept, NothingYet, Unique, NoMoreThanAsked
<1>15. CASE ResolvePolicy
  <2>1. CASE Cardinality(Candidates(resources)) = 1
    <3>1. attempt' \in 1..2 /\ UNCHANGED Rest /\ place = "visit" /\ place' = "policy" /\ answer' = answer
      BY <1>15, <2>1 DEF ResolvePolicy, TypeOK
    <3> QED
      BY <1>3, <3>1
  <2>2. CASE Cardinality(Candidates(resources)) # 1
    <3>1. PICK a : Return(a) /\ a.status \in {"needs_confirmation", "error"}
      BY <1>15, <2>2 DEF ResolvePolicy, Error, Answer
    <3> QED
      BY <1>5, <1>15, <3>1 DEF ResolvePolicy
  <2> QED
    BY <2>1, <2>2
<1>16. CASE Administrator
  BY <1>4, <1>16 DEF Administrator
<1>17. CASE UNCHANGED vars
  BY <1>4, <1>17 DEF vars
<1> QED
  BY <1>6, <1>7, <1>8, <1>9, <1>10, <1>11, <1>12, <1>13, <1>14, <1>15, <1>16, <1>17, PageStaysTyped
  DEF Next, Tool

LEMMA ToolsTypedHolds == Spec => []ToolsTyped
<1>1. Init => ToolsTyped
  <2> SUFFICES ASSUME Init PROVE ToolsTyped
    OBVIOUS
  <2>1. /\ world \in WorldType /\ moved = {} /\ moves = 0 /\ walk = NoWalk
        /\ call \in CallType /\ contents \in Collections
        /\ place = "start" /\ targets = << >> /\ searched = << >> /\ attempt = 1
        /\ resources = << >> /\ warnings = {} /\ answer = [status |-> "none", data |-> {}]
    BY WorldsAssumption, ToolsAssumption DEF Init, WalkInit, Answer
  <2>2. WalkTypeOK
    <3>1. NoWalk \in WalkType
      BY DEF NoWalk, WalkType
    <3> QED
      BY <2>1, <3>1, TenancyAssumption DEF WalkTypeOK
  <2>3. TypeOK
    BY <2>1, <2>2 DEF TypeOK
  <2>4. Unique(resources)
    <3>1. ToSet(<< >>) = {}
      BY DEF ToSet
    <3> QED
      BY <2>1, <3>1, FS_EmptySet DEF Unique
  <2>5. NoMoreThanAsked
    BY <2>1 DEF NoMoreThanAsked, CallType
  <2> QED
    BY <2>1, <2>3, <2>4, <2>5 DEF ToolsTyped, SearchKept, NothingYet, IsInjective
<1>2. ToolsTyped /\ [Next]_vars => ToolsTyped'
  BY ToolsStayTyped
<1> QED
  BY <1>1, <1>2, PTL DEF Spec

(* Every state of the tools is one their code can be in.                   *)
THEOREM TypeCorrect == Spec => []TypeOK
<1>1. ToolsTyped => TypeOK
  BY DEF ToolsTyped
<1> QED
  BY <1>1, ToolsTypedHolds, PTL

(* However a search is cut into pages, and wherever the compartments were  *)
(* moved, no more than limit resources are collected and none twice.       *)
THEOREM NoMoreThanTheLimit == Spec => []WithinLimit
<1>1. ToolsTyped => WithinLimit
  BY DEF ToolsTyped, WithinLimit, NoMoreThanAsked, Unique
<1> QED
  BY <1>1, ToolsTypedHolds, PTL

-----------------------------------------------------------------------------
(************************ complete unless it says so ***********************)
Held(S) == UNION {ToSet(contents[c]) : c \in S}

(* Of the compartments asked for, those that were visited.                 *)
Visited == Asked \ ToSet(targets)

Searched ==
  /\ ToSet(targets) \subseteq Asked
  /\ warnings \subseteq Visited
  /\ ToSet(resources) \subseteq Held(Visited)
  /\ \/ Len(resources) >= call.limit
     \/ ToSet(resources) = Held(Visited \ warnings)
     \/ HasTwice(Asked)

ResourcesKept ==
  call.tool = "list_resources" =>
    /\ place # "policy"
    /\ place = "walk" => call.subtree
    /\ place = "visit" => Searched
    /\ answer.status = "success" =>
         /\ Searched /\ answer.data = ToSet(resources)
         /\ targets = << >> \/ Len(resources) >= call.limit

LEMMA PageKeepsSearched ==
  ASSUME ToolsTyped, Searched, Page
  PROVE  Searched'
<1>1. /\ targets # << >> /\ Head(targets) \notin Denied /\ Remaining > 0
      /\ UNCHANGED <<walk, contents, call, warnings>>
  BY DEF Page, Searching, ToolStep, walkVars
<1>2. PICK n \in Nat : ReadsOn(n)
  BY PageReadsOn DEF ToolsTyped
<1> DEFINE h == Head(targets)
           items == SubSeq(contents[h], 1, n)
           s == contents[h]
<1>3. UNCHANGED <<Asked, HasTwice(Asked)>> /\ \A S : Held(S)' = Held(S)
  BY <1>1 DEF Asked, FoundIds, HasTwice, Held
<1>4. CASE ~(n = Remaining \/ n = Len(s))
  <2>1. UNCHANGED <<resources, targets>>
    BY <1>2, <1>4 DEF ReadsOn
  <2>2. Visited' = Visited
    BY <1>3, <2>1 DEF Visited
  <2>3. /\ Held(Visited)' = Held(Visited) /\ Held(Visited \ warnings)' = Held(Visited \ warnings)
    BY <1>1, <1>3, <2>2
  <2> QED
    BY <1>1, <1>3, <2>1, <2>2, <2>3 DEF Searched
<1>5. CASE n = Remaining \/ n = Len(s)
  <2>1. resources' = FoldLeft(AddNew, resources, items) /\ targets' = Tail(targets)
    BY <1>2, <1>5 DEF ReadsOn
  <2>2. /\ targets \in Seq(Ids) /\ IsInjective(targets) /\ resources \in Seq(Resources)
        /\ Len(resources) \in Nat /\ call.limit \in Nat
    <3>1. call.tool = "list_resources"
      BY DEF Page, Searching
    <3> QED
      BY <3>1 DEF ToolsTyped, TypeOK, CallType
  <2>3. h \in Ids /\ h \in ToSet(targets) /\ ToSet(targets') = ToSet(targets) \ {h}
    BY <1>1, <2>1, <2>2, RestOf
  <2>4. h \in Asked /\ h \notin Visited /\ h \notin warnings /\ Visited' = Visited \union {h}
    BY <1>3, <2>3 DEF Searched, Visited
  <2>5. s \in Seq(Resources)
    <3>1. contents \in [Ids -> Seq(Resources)]
      BY ToolsAssumption DEF ToolsTyped, TypeOK
    <3> QED
      BY <2>3, <3>1
  <2>6. items \in Seq(Resources) /\ Len(items) = n /\ n \in 0..Len(s)
    BY <1>2 DEF ReadsOn
  <2>7. /\ Collected(resources', resources, items, n, Resources)
        /\ ToSet(resources') = ToSet(resources) \union ToSet(items)
    <3> HIDE DEF items
    <3> QED
      BY <2>1, <2>2, <2>6, Collects
  <2>8. \A i \in 1..n : i \in 1..Len(s) /\ items[i] = s[i]
    <3>1. \A i \in 1..n : s[i] \in Resources
      BY <2>5, <2>6
    <3>2. \A i \in 1..(n - 1 + 1) : items[i] = s[1 + i - 1]
      BY <2>6, <3>1, SubSeqProperties
    <3> QED
      BY <2>6, <3>2
  <2>9. ToSet(items) \subseteq ToSet(s)
    BY <2>5, <2>6, <2>8 DEF ToSet
  <2>10. ToSet(resources') \subseteq Held(Visited')
    BY <2>4, <2>7, <2>9 DEF Held, Searched
  <2>11. ASSUME ~HasTwice(Asked) PROVE Fresh(resources, items)
    <3>1. IsInjective(s)
      BY <2>4, <2>11 DEF HasTwice
    <3>2. IsInjective(items)
      <4> HIDE DEF items, s
      <4>1. DOMAIN items = 1..n /\ DOMAIN s = 1..Len(s)
        BY <2>5, <2>6
      <4> QED
        BY <2>8, <3>1, <4>1 DEF IsInjective
    <3>3. ASSUME NEW e \in ToSet(resources), e \in ToSet(items) PROVE FALSE
      <4>1. PICK c \in Visited : e \in ToSet(contents[c])
        BY DEF Searched, Held
      <4>2. c \in Asked /\ c # h /\ e \in ToSet(s)
        BY <2>4, <2>9, <3>3, <4>1 DEF Visited
      <4> QED
        BY <2>4, <2>11, <4>1, <4>2 DEF HasTwice
    <3> QED
      BY <3>2, <3>3 DEF Fresh
  <2>12. CASE n = Remaining /\ ~HasTwice(Asked)
    <3>1. Len(resources') = Len(resources) + n
      BY <2>7, <2>11, <2>12 DEF Collected
    <3>2. Len(resources') >= call.limit
      BY <2>2, <2>12, <3>1 DEF Remaining
    <3>3. Len(resources)' >= call.limit'
      BY <1>1, <3>2
    <3> QED
      BY <1>1, <1>3, <2>3, <2>4, <2>10, <3>3 DEF Searched
  <2>13. CASE n = Len(s)
    <3>1. items = s
      BY <2>5, <2>13, SubSeqFull
    <3>2. Held((Visited' \ warnings')) = Held(Visited \ warnings) \union ToSet(s)
      BY <1>1, <2>4 DEF Held
    <3>3. Len(resources) < call.limit
      BY <1>1, <2>2 DEF Remaining
    <3>4. ToSet(resources) = Held(Visited \ warnings) \/ HasTwice(Asked)
      BY <2>2, <3>3 DEF Searched
    <3>5. ToSet(resources') = Held(Visited' \ warnings') \/ HasTwice(Asked)
      BY <2>7, <3>1, <3>2, <3>4
    <3> QED
      BY <1>1, <1>3, <2>3, <2>4, <2>10, <3>5 DEF Searched
  <2>14. CASE HasTwice(Asked)
    BY <1>1, <1>3, <2>3, <2>4, <2>10, <2>14 DEF Searched
  <2> QED
    BY <1>5, <2>12, <2>13, <2>14
<1> QED
  BY <1>4, <1>5

LEMMA ResourcesStayKept ==
  ASSUME ToolsTyped, ResourcesKept, [Next]_vars
  PROVE  ResourcesKept'
<1> SUFFICES ASSUME call.tool = "list_resources", call' = call PROVE ResourcesKept'
  <2>1. call' = call
    BY DEF Next, Tool, Administrator, Reject, Start, Walking, WalkFailed, ListCompartments, Target,
           Page, PageFails, PageUnavailable, PageDenied, ListResources, VisitPolicies, PoliciesFail,
           ListPolicies, ResolvePolicy, GetPolicy, vars, toolVars
  <2> QED
    BY <2>1 DEF ResourcesKept
<1>1. place = "done" <=> answer.status # "none"
  BY DEF ToolsTyped, TypeOK
<1>2. ASSUME UNCHANGED <<walk, contents, targets, resources, warnings>> PROVE Searched' = Searched
  <2>1. UNCHANGED <<Asked, Visited, HasTwice(Asked)>> /\ \A S : Held(S)' = Held(S)
    BY <1>2 DEF Asked, FoundIds, Visited, HasTwice, Held
  <2>2. Held(Visited)' = Held(Visited) /\ Held(Visited \ warnings)' = Held(Visited \ warnings)
    BY <1>2, <2>1
  <2> QED
    BY <1>2, <2>1, <2>2 DEF Searched
<1>3. ASSUME place' = "done", answer'.status # "success" PROVE ResourcesKept'
  BY <1>3 DEF ResourcesKept
<1>4. Error.status = "error"
  BY DEF Error, Answer
<1>5. CASE Reject \/ WalkFailed \/ PageUnavailable \/ PoliciesFail
  BY <1>3, <1>4, <1>5 DEF Reject, WalkFailed, PageUnavailable, PoliciesFail, Return
<1>6. CASE Start
  <2>1. /\ place = "start" /\ resources = << >> /\ warnings = {} /\ answer' = answer
        /\ UNCHANGED <<contents, resources, warnings>>
    BY <1>6 DEF Start, ToolsTyped, NothingYet
  <2>2. CASE call.subtree
    <3>1. place' = "walk"
      BY <1>6, <2>2 DEF Start, Walks, ById
    <3> QED
      BY <1>1, <2>1, <2>2, <3>1 DEF ResourcesKept
  <2>3. CASE ~call.subtree
    <3>1. place' = "visit" /\ targets' = <<Root>>
      BY <1>6, <2>3 DEF Start, Walks, ById
    <3>2. Asked' = {Root} /\ ToSet(targets') = {Root} /\ Visited' = {}
      BY <2>3, <3>1 DEF Asked, Visited, ToSet
    <3>3. ToSet(resources') = {}
      BY <2>1 DEF ToSet
    <3>4. Held(Visited)' = {} /\ Held(Visited \ warnings)' = {}
      BY <3>2 DEF Held
    <3>5. Searched'
      BY <2>1, <3>2, <3>3, <3>4 DEF Searched
    <3> QED
      BY <1>1, <2>1, <3>1, <3>5 DEF ResourcesKept
  <2> QED
    BY <2>2, <2>3
<1>7. CASE Walking
  BY <1>1, <1>7 DEF Walking, toolVars, ResourcesKept
<1>8. CASE Target
  <2>1. /\ place = "walk" /\ resources = << >> /\ warnings = {} /\ answer' = answer
        /\ place' = "visit" /\ UNCHANGED <<walk, contents, resources, warnings>> /\ call.subtree
    BY <1>8 DEF Target, ToolsTyped, NothingYet, ToolStep, walkVars, ResourcesKept
  <2>2. ToSet(targets') = {Root} \union {r.id : r \in Wanted}
    BY <1>8, TargetsChosen DEF ToolsTyped, TypeOK
  <2>3. Asked' = {Root} \union FoundIds /\ ToSet(targets') = {Root} \union FoundIds
    BY <2>1, <2>2 DEF Asked, FoundIds, Wanted
  <2>4. Visited' = {} /\ Held(Visited)' = {} /\ Held(Visited \ warnings)' = {}
    BY <2>3 DEF Visited, Held
  <2>5. ToSet(resources') = {}
    BY <2>1 DEF ToSet
  <2>6. Searched'
    BY <2>1, <2>3, <2>4, <2>5 DEF Searched
  <2> QED
    BY <1>1, <2>1, <2>6 DEF ResourcesKept
<1>9. CASE Page
  <2>1. place = "visit" /\ UNCHANGED <<place, answer>>
    BY <1>9 DEF Page, Searching
  <2>2. Searched
    BY <2>1 DEF ResourcesKept
  <2> QED
    BY <1>1, <1>9, <2>1, <2>2, PageKeepsSearched DEF ResourcesKept
<1>10. CASE PageFails
  <2>1. UNCHANGED <<walk, contents, targets, resources, warnings>>
    BY <1>10 DEF PageFails, ToolStep, walkVars
  <2>2. place = "visit" /\ (UNCHANGED <<place, answer>> \/ Return(Error))
    BY <1>10 DEF PageFails, Searching
  <2> QED
    BY <1>1, <1>2, <1>3, <1>4, <2>1, <2>2 DEF ResourcesKept, Return
<1>11. CASE PageDenied
  <2>1. /\ place = "visit" /\ targets # << >> /\ targets' = Tail(targets)
        /\ warnings' = warnings \union {Head(targets)}
        /\ UNCHANGED <<place, answer, walk, contents, resources>>
    BY <1>11 DEF PageDenied, Searching, ToolStep, walkVars
  <2>2. Searched
    BY <2>1 DEF ResourcesKept
  <2>3. targets \in Seq(Ids) /\ IsInjective(targets)
    BY DEF ToolsTyped, TypeOK
  <2>4. Head(targets) \in ToSet(targets) /\ ToSet(targets') = ToSet(targets) \ {Head(targets)}
    BY <2>1, <2>3, RestOf
  <2>5. UNCHANGED <<Asked, HasTwice(Asked)>> /\ \A S : Held(S)' = Held(S)
    BY <2>1 DEF Asked, FoundIds, HasTwice, Held
  <2>6. /\ Visited' = Visited \union {Head(targets)} /\ ToSet(targets') \subseteq Asked
        /\ Visited' \ warnings' = Visited \ warnings /\ warnings' \subseteq Visited'
    BY <2>1, <2>2, <2>4, <2>5 DEF Visited, Searched
  <2>7. Held(Visited)' = Held(Visited') /\ Held(Visited \ warnings)' = Held(Visited \ warnings)
    BY <2>5, <2>6
  <2>8. Held(Visited) \subseteq Held(Visited')
    BY <2>6 DEF Held
  <2>9. Searched'
    BY <2>1, <2>2, <2>5, <2>6, <2>7, <2>8 DEF Searched
  <2> QED
    BY <1>1, <2>1, <2>9 DEF ResourcesKept
<1>12. CASE ListResources
  <2>1. /\ place = "visit" /\ UNCHANGED <<walk, contents, targets, resources, warnings>>
        /\ place' = "done" /\ answer' = Answer("success", ToSet(resources))
        /\ targets = << >> \/ Remaining <= 0
    BY <1>12 DEF ListResources, ToolStep, walkVars, Return
  <2>2. answer'.data = ToSet(resources)
    BY <2>1 DEF Answer
  <2>3. Remaining <= 0 => Len(resources) >= call.limit
    <3>1. Len(resources) \in Nat /\ call.limit \in Nat
      BY DEF ToolsTyped, TypeOK, CallType
    <3> QED
      BY <3>1 DEF Remaining
  <2> QED
    BY <1>2, <2>1, <2>2, <2>3 DEF ResourcesKept
<1>13. CASE Administrator \/ UNCHANGED vars
  <2>1. UNCHANGED <<walk, contents, targets, resources, warnings, place, answer>>
    BY <1>13 DEF Administrator, Move, toolVars, vars, walkVars
  <2> QED
    BY <1>2, <2>1 DEF ResourcesKept
<1> QED
  BY <1>5, <1>6, <1>7, <1>8, <1>9, <1>10, <1>11, <1>12, <1>13
  DEF Next, Tool, ListCompartments, VisitPolicies, ListPolicies, ResolvePolicy, GetPolicy, ResourcesKept

(* list_resources is complete unless it says otherwise: with fewer than    *)
(* limit resources it has returned all of every compartment but those it   *)
(* reported as not visible, or one resource was found twice.               *)
THEOREM NothingIsLeftUnsaid == Spec => []CompleteUnlessSaid
<1>1. Init => ResourcesKept
  BY DEF Init, ResourcesKept, Answer
<1>2. ToolsTyped /\ ResourcesKept /\ [Next]_vars => ResourcesKept'
  BY ResourcesStayKept
<1>3. ToolsTyped /\ ResourcesKept => CompleteUnlessSaid
  <2> SUFFICES ASSUME ToolsTyped, ResourcesKept, Succeeded("list_resources"),
                      Len(resources) < call.limit, ~HasTwice(Asked)
               PROVE  answer.data = Held(Asked \ warnings)
    BY DEF CompleteUnlessSaid, Held
  <2>1. Searched /\ answer.data = ToSet(resources) /\ (targets = << >> \/ Len(resources) >= call.limit)
    BY DEF ResourcesKept, Succeeded
  <2>2. Len(resources) \in Nat /\ call.limit \in Nat
    BY DEF ToolsTyped, TypeOK, CallType
  <2>3. targets = << >>
    BY <2>1, <2>2
  <2>4. Visited = Asked
    BY <2>3 DEF Visited, ToSet
  <2>5. ToSet(resources) = Held(Visited \ warnings)
    BY <2>1, <2>2 DEF Searched
  <2> QED
    BY <2>1, <2>4, <2>5
<1> QED
  BY <1>1, <1>2, <1>3, ToolsTypedHolds, PTL DEF Spec

-----------------------------------------------------------------------------
(*********************** the policy that was meant *************************)
Published(S) == UNION {ToSet(PoliciesOf(c)) : c \in S}

PoliciesKept ==
  call.tool = "get_policy" =>
    /\ place = "walk" => call.subtree /\ ~ById
    /\ place = "visit" => /\ ~ById
                          /\ ToSet(resources) \union Published(ToSet(targets)) = Read
    /\ place = "policy" => \/ resources = << >>
                           \/ /\ ToSet(resources) = Read
                              /\ Cardinality(Candidates(resources)) = 1
    /\ answer.status = "success" =>
         /\ answer.data = Candidates(resources)
         /\ \/ resources = << >>
            \/ ToSet(resources) = Read /\ Cardinality(Candidates(resources)) = 1

LEMMA PoliciesStayKept ==
  ASSUME ToolsTyped, PoliciesKept, [Next]_vars
  PROVE  PoliciesKept'
<1> SUFFICES ASSUME call.tool = "get_policy", call' = call PROVE PoliciesKept'
  <2>1. call' = call
    BY DEF Next, Tool, Administrator, Reject, Start, Walking, WalkFailed, ListCompartments, Target,
           Page, PageFails, PageUnavailable, PageDenied, ListResources, VisitPolicies, PoliciesFail,
           ListPolicies, ResolvePolicy, GetPolicy, vars, toolVars
  <2> QED
    BY <2>1 DEF PoliciesKept
<1>1. place = "done" <=> answer.status # "none"
  BY DEF ToolsTyped, TypeOK
<1>2. ById' = ById /\ \A s : Candidates(s)' = Candidates(s)
  BY DEF ById, Candidates
<1>3. ASSUME UNCHANGED walk PROVE Read' = Read
  BY <1>3 DEF Read
<1>4. ASSUME place' = "done", answer'.status # "success" PROVE PoliciesKept'
  BY <1>4 DEF PoliciesKept
<1>5. Error.status = "error"
  BY DEF Error, Answer
<1>6. CASE Reject \/ WalkFailed \/ PageUnavailable \/ PoliciesFail
  BY <1>4, <1>5, <1>6 DEF Reject, WalkFailed, PageUnavailable, PoliciesFail, Return
<1>7. CASE Start
  <2>1. /\ place = "start" /\ resources = << >> /\ answer' = answer /\ resources' = resources
    BY <1>7 DEF Start, ToolsTyped, NothingYet
  <2>2. CASE ById
    <3>1. place' = "policy"
      BY <1>7, <2>2 DEF Start, Walks, ById
    <3> QED
      BY <1>1, <2>1, <3>1 DEF PoliciesKept
  <2>3. CASE call.subtree /\ ~ById
    <3>1. place' = "walk"
      BY <1>7, <2>3 DEF Start, Walks
    <3> QED
      BY <1>1, <1>2, <2>1, <2>3, <3>1 DEF PoliciesKept
  <2>4. CASE ~call.subtree /\ ~ById
    <3>1. place' = "visit" /\ targets' = <<Root>>
      BY <1>7, <2>4 DEF Start, Walks
    <3>2. ToSet(targets') = {Root} /\ ToSet(resources') = {}
      BY <2>1, <3>1 DEF ToSet
    <3>3. Read' = Published({Root})
      BY <2>4 DEF Read, Published
    <3>4. Published(ToSet(targets))' = Published({Root})
      BY <3>2 DEF Published
    <3> QED
      BY <1>1, <1>2, <2>1, <2>4, <3>1, <3>2, <3>3, <3>4 DEF PoliciesKept
  <2> QED
    BY <2>2, <2>3, <2>4
<1>8. CASE Walking
  BY <1>1, <1>2, <1>8 DEF Walking, toolVars, PoliciesKept
<1>9. CASE Target
  <2>1. /\ place = "walk" /\ resources = << >> /\ answer' = answer /\ resources' = resources
        /\ place' = "visit" /\ walk' = walk /\ call.subtree /\ ~ById
    BY <1>9 DEF Target, ToolsTyped, NothingYet, ToolStep, walkVars, PoliciesKept
  <2>2. ToSet(targets') = {Root} \union {r.id : r \in Wanted}
    BY <1>9, TargetsChosen DEF ToolsTyped, TypeOK
  <2>3. Wanted = {q \in walk.found : q.active}
    BY DEF Wanted
  <2>4. Published(ToSet(targets))' = Read
    BY <2>1, <2>2, <2>3 DEF Published, Read
  <2>5. ToSet(resources') = {}
    BY <2>1 DEF ToSet
  <2> QED
    BY <1>1, <1>2, <1>3, <2>1, <2>4, <2>5 DEF PoliciesKept
<1>10. CASE VisitPolicies
  <2>1. /\ place = "visit" /\ targets # << >> /\ targets' = Tail(targets)
        /\ resources' = FoldLeft(AddNew, resources, PoliciesOf(Head(targets)))
        /\ UNCHANGED <<place, answer, walk>>
    BY <1>10 DEF VisitPolicies, ToolStep, walkVars
  <2>2. targets \in Seq(Ids) /\ IsInjective(targets) /\ resources \in Seq(Listed)
    BY DEF ToolsTyped, TypeOK
  <2>3. /\ Head(targets) \in Ids /\ Head(targets) \in ToSet(targets)
        /\ ToSet(targets') = ToSet(targets) \ {Head(targets)}
    BY <2>1, <2>2, RestOf
  <2>4. PoliciesOf(Head(targets)) \in Seq(Listed)
    BY <2>3, PoliciesTyped
  <2>5. ToSet(resources') = ToSet(resources) \union ToSet(PoliciesOf(Head(targets)))
    BY <2>1, <2>2, <2>4, Collects
  <2>6. ToSet(resources) \union Published(ToSet(targets)) = Read
    BY <2>1 DEF PoliciesKept
  <2>7. Published(ToSet(targets)) = ToSet(PoliciesOf(Head(targets))) \union Published(ToSet(targets'))
    BY <2>3 DEF Published
  <2>8. Published(ToSet(targets))' = Published(ToSet(targets'))
    BY DEF Published
  <2>9. (ToSet(resources) \union Published(ToSet(targets)))' = Read'
    BY <1>3, <2>1, <2>5, <2>6, <2>7, <2>8
  <2>10. ~ById
    BY <2>1 DEF PoliciesKept
  <2> QED
    BY <1>1, <1>2, <2>1, <2>9, <2>10 DEF PoliciesKept
<1>11. CASE ResolvePolicy
  <2>1. /\ place = "visit" /\ targets = << >> /\ UNCHANGED <<walk, resources>>
    BY <1>11 DEF ResolvePolicy, ToolStep, walkVars
  <2>2. ToSet(resources) = Read
    <3>1. ToSet(resources) \union Published(ToSet(targets)) = Read
      BY <2>1 DEF PoliciesKept
    <3>2. Published(ToSet(targets)) = {}
      BY <2>1 DEF Published, ToSet
    <3> QED
      BY <3>1, <3>2
  <2>3. CASE Cardinality(Candidates(resources)) = 1
    <3>1. place' = "policy" /\ answer' = answer
      BY <1>11, <2>3 DEF ResolvePolicy
    <3> QED
      BY <1>1, <1>2, <1>3, <2>1, <2>2, <2>3, <3>1 DEF PoliciesKept
  <2>4. CASE Cardinality(Candidates(resources)) # 1
    <3>1. place' = "done" /\ answer'.status # "success"
      BY <1>11, <2>4 DEF ResolvePolicy, Return, Error, Answer
    <3> QED
      BY <1>4, <3>1
  <2> QED
    BY <2>3, <2>4
<1>12. CASE GetPolicy
  <2>1. /\ place = "policy" /\ UNCHANGED <<walk, resources>> /\ place' = "done"
        /\ answer' = Answer("success", Candidates(resources))
    BY <1>12 DEF GetPolicy, ToolStep, walkVars, Return
  <2>2. answer'.data = Candidates(resources)
    BY <2>1 DEF Answer
  <2> QED
    BY <1>2, <1>3, <2>1, <2>2 DEF PoliciesKept
<1>13. CASE Administrator \/ UNCHANGED vars
  <2>1. UNCHANGED <<walk, targets, resources, place, answer>>
    BY <1>13 DEF Administrator, Move, toolVars, vars, walkVars
  <2>2. Published(ToSet(targets))' = Published(ToSet(targets))
    BY <2>1 DEF Published
  <2> QED
    BY <1>2, <1>3, <2>1, <2>2 DEF PoliciesKept
<1> QED
  BY <1>6, <1>7, <1>8, <1>9, <1>10, <1>11, <1>12, <1>13
  DEF Next, Tool, ListCompartments, Page, PageFails, PageDenied, Searching, ListResources, ListPolicies

(* A policy that is asked for by name is never picked among several.       *)
THEOREM TheOnlyPolicyIsGot == Spec => []PolicyNotPicked
<1>1. Init => PoliciesKept
  BY DEF Init, PoliciesKept, Answer
<1>2. ToolsTyped /\ PoliciesKept /\ [Next]_vars => PoliciesKept'
  BY PoliciesStayKept
<1>3. ToolsTyped /\ PoliciesKept => PolicyNotPicked
  <2> SUFFICES ASSUME ToolsTyped, PoliciesKept, Succeeded("get_policy"),
                      NEW p \in answer.data, NEW q \in Read
               PROVE  /\ q.name = call.name => q = p
                      /\ p.name # call.name /\ <<call.name, q.name>> \in PartOf => q = p
    BY DEF PolicyNotPicked
  <2>1. /\ p \in Candidates(resources)
        /\ \/ resources = << >>
           \/ ToSet(resources) = Read /\ Cardinality(Candidates(resources)) = 1
    BY DEF PoliciesKept, Succeeded
  <2>2. Candidates(resources) \subseteq ToSet(resources)
    BY DEF Candidates
  <2>3. ToSet(resources) = Read /\ Cardinality(Candidates(resources)) = 1
    <3>1. ToSet(<< >>) = {}
      BY DEF ToSet
    <3> QED
      BY <2>1, <2>2, <3>1
  <2>4. IsFiniteSet(Candidates(resources))
    BY <2>2, FS_Subset DEF ToolsTyped, Unique
  <2>5. Candidates(resources) = {p}
    <3> DEFINE S == Candidates(resources)
    <3>1. IsFiniteSet(S) /\ Cardinality(S) = 1 /\ p \in S
      BY <2>1, <2>3, <2>4
    <3> HIDE DEF S
    <3>2. \E x : S = {x}
      BY <3>1, FS_Singleton
    <3>3. S = {p}
      BY <3>1, <3>2
    <3> QED
      BY <3>3 DEF S
  <2>6. q \in ToSet(resources)
    BY <2>3
  <2>7. ASSUME q.name = call.name PROVE q = p
    BY <2>5, <2>6, <2>7 DEF Candidates
  <2>8. ASSUME p.name # call.name, <<call.name, q.name>> \in PartOf PROVE q = p
    <3>1. {r \in ToSet(resources) : r.name = call.name} = {}
      BY <2>5, <2>8 DEF Candidates
    <3> QED
      BY <2>5, <2>6, <2>8, <3>1 DEF Candidates
  <2> QED
    BY <2>7, <2>8
<1> QED
  BY <1>1, <1>2, <1>3, ToolsTypedHolds, PTL DEF Spec

-----------------------------------------------------------------------------
(************************** depths and paths *******************************)
LEMMA ChainTyped ==
  ASSUME NEW c, NEW a \in Chains(c)
  PROVE  /\ a \in Seq(Links) /\ Len(a) \in Nat /\ Len(a) >= 1
         /\ Link(c, a, 0) = c /\ \A i \in 1..Len(a) : Link(c, a, i) = a[i]
         /\ Link(c, a, Len(a)) = Root
         /\ \A i \in 0..(Len(a) - 1) : Link(c, a, i) \in Inner
<1>1. a \in Seq(Links) /\ a # << >> /\ Last(a) = Root /\ a \in Rising(c)
  BY DEF Chains, Rising
<1>2. Len(a) \in Nat /\ Len(a) >= 1
  BY <1>1
<1>3. Link(c, a, 0) = c /\ \A i \in 1..Len(a) : Link(c, a, i) = a[i]
  BY <1>2 DEF Link
<1>4. Link(c, a, Len(a)) = Root
  BY <1>1, <1>2 DEF Link, Last
<1>5. ASSUME NEW i \in 0..(Len(a) - 1) PROVE Link(c, a, i) \in Inner
  <2>1. i + 1 \in 1..Len(a) /\ (i + 1) - 1 = i
    BY <1>2
  <2>2. Link(c, a, (i + 1) - 1) \in Inner
    BY <1>1, <2>1 DEF Rising
  <2> QED
    BY <2>1, <2>2
<1> QED
  BY <1>1, <1>2, <1>3, <1>4, <1>5

(* Each link is the recorded parent of the last.                           *)
LEMMA LinkIsParent ==
  ASSUME TreeFound, NEW c, NEW a \in Chains(c), NEW i \in 0..(Len(a) - 1)
  PROVE  \E r \in walk.found : /\ r.id = Link(c, a, i) /\ r.parent = Link(c, a, i + 1)
                               /\ r = RecordOf(walk.found, Link(c, a, i))
<1>1. Len(a) \in Nat /\ Link(c, a, i) \in Inner
  BY ChainTyped
<1>2. PICK r \in walk.found : r.id = Link(c, a, i)
  BY <1>1 DEF Inner, FoundIds
<1>3. r = RecordOf(walk.found, Link(c, a, i))
  BY <1>2, RecordsAreFound DEF TreeFound
<1>4. i + 1 \in 1..Len(a) /\ (i + 1) - 1 = i
  BY <1>1
<1>5. a[i + 1] = RecordOf(walk.found, Link(c, a, (i + 1) - 1)).parent
  BY <1>4 DEF Chains, Rising
<1>6. Link(c, a, i + 1) = a[i + 1]
  BY <1>4, ChainTyped
<1> QED
  BY <1>2, <1>3, <1>4, <1>5, <1>6

(* What is left of a chain is the chain of the link it is left at.         *)
LEMMA RestOfChain ==
  ASSUME NEW c, NEW a \in Chains(c), NEW i \in 0..(Len(a) - 1)
  PROVE  /\ SubSeq(a, i + 1, Len(a)) \in Chains(Link(c, a, i))
         /\ Len(SubSeq(a, i + 1, Len(a))) = Len(a) - i
<1> DEFINE k == Len(a)
           b == SubSeq(a, i + 1, k)
           d == Link(c, a, i)
<1>1. /\ a \in Seq(Links) /\ k \in Nat /\ k >= 1 /\ a \in Rising(c)
      /\ \A j \in 1..k : Link(c, a, j) = a[j] /\ a[j] \in Links
      /\ Link(c, a, k) = Root
  <2>1. \A j \in 1..Len(a) : a[j] \in Links
    BY ChainTyped
  <2>2. a \in Rising(c)
    BY DEF Chains
  <2> QED
    BY <2>1, <2>2, ChainTyped
<1>2. /\ b \in Seq(Links) /\ Len(b) = k - i
      /\ \A j \in 1..(k - i) : b[j] = a[i + j]
  <2>1. /\ i + 1 \in Int /\ k \in Int /\ \A j \in (i + 1)..k : a[j] \in Links
        /\ i + 1 <= k /\ k - (i + 1) + 1 = k - i
    BY <1>1
  <2>2. /\ b \in Seq(Links) /\ Len(b) = k - (i + 1) + 1
        /\ \A j \in 1..(k - (i + 1) + 1) : b[j] = a[(i + 1) + j - 1]
    <3> HIDE DEF k
    <3> QED
      BY <2>1, SubSeqProperties
  <2>3. \A j \in 1..(k - i) : (i + 1) + j - 1 = i + j
    BY <1>1
  <2> QED
    BY <2>1, <2>2, <2>3
<1> HIDE DEF b, d, k
<1>3. ASSUME NEW j \in 0..(k - i) PROVE Link(d, b, j) = Link(c, a, i + j)
  <2>1. CASE j = 0
    BY <2>1 DEF Link, d
  <2>2. CASE j # 0
    <3>1. j \in 1..(k - i) /\ i + j \in 1..k
      BY <1>1, <2>2 DEF k
    <3>2. Link(d, b, j) = b[j]
      BY <2>2 DEF Link
    <3> QED
      BY <1>1, <1>2, <3>1, <3>2
  <2> QED
    BY <2>1, <2>2
<1>4. i \in Nat /\ k - i \in Nat /\ k - i >= 1
  BY <1>1 DEF k
<1>5. ASSUME NEW j \in 1..(k - i)
      PROVE  /\ Link(d, b, j - 1) \in Inner
             /\ b[j] = RecordOf(walk.found, Link(d, b, j - 1)).parent
  <2>1. /\ i + j \in 1..k /\ j - 1 \in 0..(k - i) /\ i + (j - 1) = (i + j) - 1
    BY <1>1, <1>4
  <2>2. Link(d, b, j - 1) = Link(c, a, (i + j) - 1)
    BY <1>3, <2>1
  <2>3. /\ Link(c, a, (i + j) - 1) \in Inner
        /\ a[i + j] = RecordOf(walk.found, Link(c, a, (i + j) - 1)).parent
    BY <1>1, <2>1 DEF Rising, k
  <2> QED
    BY <1>2, <2>2, <2>3
<1>6. b \in Rising(d)
  BY <1>2, <1>5 DEF Rising
<1>7. b # << >> /\ Last(b) = Root
  <2>1. k - i \in 1..(k - i) /\ i + (k - i) = k /\ k \in 1..k
    BY <1>1, <1>4
  <2>2. b[k - i] = Root
    BY <1>1, <1>2, <2>1
  <2> QED
    BY <1>2, <1>4, <2>2 DEF Last
<1> QED
  BY <1>2, <1>6, <1>7 DEF Chains, b, d, k

(* The first link of a chain: the root, or one from where it goes on.      *)
StartsChain(r, c, n) ==
  /\ r.id = c
  /\ r.parent = Root <=> n = 1
  /\ r.parent # Root => /\ r.parent \in Inner
                        /\ \E b \in Chains(r.parent) : Len(b) = n - 1

LEMMA FirstLink ==
  ASSUME TreeFound, NEW c, NEW a \in Chains(c)
  PROVE  \E r \in walk.found : StartsChain(r, c, Len(a))
<1>1. /\ Len(a) \in Nat /\ Len(a) >= 1 /\ Link(c, a, 0) = c /\ Link(c, a, Len(a)) = Root
      /\ \A i \in 0..(Len(a) - 1) : Link(c, a, i) \in Inner
  BY ChainTyped
<1>2. 0 \in 0..(Len(a) - 1) /\ 0 + 1 = 1
  BY <1>1
<1>3. PICK r \in walk.found : r.id = Link(c, a, 0) /\ r.parent = Link(c, a, 0 + 1)
  BY <1>2, LinkIsParent
<1>4. r.id = c /\ r.parent = Link(c, a, 1)
  BY <1>1, <1>2, <1>3
<1>5. CASE Len(a) = 1
  BY <1>1, <1>4, <1>5 DEF StartsChain
<1>6. CASE Len(a) # 1
  <2>1. 1 \in 0..(Len(a) - 1)
    <3>1. ASSUME NEW n \in Nat, n >= 1, n # 1 PROVE 1 \in 0..(n - 1)
      BY <3>1
    <3> QED
      BY <1>1, <1>6, <3>1
  <2>2. r.parent \in Inner
    BY <1>1, <1>4, <2>1
  <2>3. r.parent # Root
    BY <2>2 DEF Inner
  <2>4. /\ SubSeq(a, 1 + 1, Len(a)) \in Chains(r.parent)
        /\ Len(SubSeq(a, 1 + 1, Len(a))) = Len(a) - 1
    BY <1>4, <2>1, RestOfChain
  <2> QED
    BY <1>4, <1>6, <2>2, <2>3, <2>4 DEF StartsChain
<1> QED
  BY <1>5, <1>6

LEMMA ChainsAreAsLong ==
  ASSUME TreeFound
  PROVE  \A c, d : \A a \in Chains(c), b \in Chains(d) : c = d => Len(a) = Len(b)
<1> DEFINE S == {n \in Nat : \A c \in Inner : \A a, b \in Chains(c) : Len(a) = n => Len(b) = n}
<1>1. 0 \in S
  BY ChainTyped
<1>2. ASSUME NEW n \in Nat, n \in S PROVE n + 1 \in S
  <2> SUFFICES ASSUME NEW c \in Inner, NEW a \in Chains(c), NEW b \in Chains(c), Len(a) = n + 1
               PROVE  Len(b) = n + 1
    BY n + 1 \in Nat
  <2>1. PICK r \in walk.found : StartsChain(r, c, Len(a))
    BY FirstLink
  <2>2. PICK q \in walk.found : StartsChain(q, c, Len(b))
    BY FirstLink
  <2>3. q = r
    BY <2>1, <2>2 DEF TreeFound, OneRecordEach, StartsChain
  <2>4. Len(b) \in Nat
    BY ChainTyped
  <2>5. CASE r.parent = Root
    BY <2>1, <2>2, <2>3, <2>5 DEF StartsChain
  <2>6. CASE r.parent # Root
    <3>1. PICK e \in Chains(r.parent) : Len(e) = Len(a) - 1
      BY <2>1, <2>6 DEF StartsChain
    <3>2. PICK g \in Chains(r.parent) : Len(g) = Len(b) - 1
      BY <2>2, <2>3, <2>6 DEF StartsChain
    <3>3. Len(e) = n
      BY <3>1
    <3>4. Len(g) = n
      <4>1. r.parent \in Inner
        BY <2>1, <2>6 DEF StartsChain
      <4> QED
        BY <1>2, <3>3, <4>1
    <3> QED
      BY <2>4, <3>2, <3>4
  <2> QED
    BY <2>5, <2>6
<1>3. Nat \subseteq S
  <2> HIDE DEF S
  <2> QED
    BY <1>1, <1>2, Induction
<1> SUFFICES ASSUME NEW c, NEW a \in Chains(c), NEW b \in Chains(c) PROVE Len(a) = Len(b)
  OBVIOUS
<1>4. /\ Len(a) \in Nat /\ Len(a) >= 1 /\ Link(c, a, 0) = c
      /\ \A i \in 0..(Len(a) - 1) : Link(c, a, i) \in Inner
  BY ChainTyped
<1>5. c \in Inner
  <2>1. 0 \in 0..(Len(a) - 1)
    BY <1>4
  <2> QED
    BY <1>4, <2>1
<1> QED
  BY <1>3, <1>4, <1>5

(* No two links of a chain, c itself included, are the same.               *)
LEMMA LinksDiffer ==
  ASSUME TreeFound, NEW c, NEW a \in Chains(c), NEW i \in 0..Len(a), NEW j \in 0..Len(a),
         Link(c, a, i) = Link(c, a, j)
  PROVE  i = j
<1>1. /\ Len(a) \in Nat /\ Link(c, a, Len(a)) = Root
      /\ \A n \in 0..(Len(a) - 1) : Link(c, a, n) \in Inner
  BY ChainTyped
<1>2. CASE i = Len(a) \/ j = Len(a)
  <2>1. Link(c, a, i) = Root /\ Link(c, a, j) = Root /\ Root \notin Inner
    BY <1>1, <1>2 DEF Inner
  <2>2. i \notin 0..(Len(a) - 1) /\ j \notin 0..(Len(a) - 1)
    BY <1>1, <2>1
  <2> QED
    BY <1>1, <2>2
<1>3. CASE i # Len(a) /\ j # Len(a)
  <2>1. i \in 0..(Len(a) - 1) /\ j \in 0..(Len(a) - 1)
    BY <1>1, <1>3
  <2> DEFINE x == SubSeq(a, i + 1, Len(a))
             y == SubSeq(a, j + 1, Len(a))
  <2>2. x \in Chains(Link(c, a, i)) /\ Len(x) = Len(a) - i
    BY <2>1, RestOfChain
  <2>3. y \in Chains(Link(c, a, j)) /\ Len(y) = Len(a) - j
    BY <2>1, RestOfChain
  <2> HIDE DEF x, y
  <2>4. Len(x) = Len(y)
    BY <2>2, <2>3, ChainsAreAsLong
  <2> QED
    BY <1>1, <2>1, <2>2, <2>3, <2>4
<1> QED
  BY <1>2, <1>3

(* The layers of the breadth-first search.                                 *)
Wider(records, S) ==
  UNION {{c} \union {r.id : r \in {q \in records : q.parent = c}} : c \in S}

FirstLayer(records) == {Root} \intersect {r.id : r \in records}

LEMMA WithinSteps ==
  ASSUME NEW records
  PROVE  /\ Within(records)[0] = FirstLayer(records)
         /\ \A n \in Nat : Within(records)[n + 1] = Wider(records, Within(records)[n])
<1> DEFINE D == SUBSET {r.id : r \in records}
           G == [S \in D |-> Wider(records, S)]
           s == FirstLayer(records)
<1>1. s \in D /\ Maps(G, D)
  <2>1. ASSUME NEW S \in D PROVE Wider(records, S) \in D
    BY DEF Wider
  <2>2. G \in [D -> D]
    BY <2>1
  <2> QED
    BY <2>2 DEF Maps, FirstLayer
<1>2. PICK f : Iterates(f, G, s, D)
  <2> HIDE DEF D, G, s
  <2> QED
    BY <1>1, CanBeIterated
<1> DEFINE F(g) == g = [n \in Nat |-> IF n = 0 THEN FirstLayer(records)
                                      ELSE Wider(records, g[n - 1])]
<1>3. F(f)
  <2>1. f \in [Nat -> D] /\ f[0] = s /\ \A n \in Nat : f[n + 1] = G[f[n]]
    BY <1>2 DEF Iterates
  <2>2. ASSUME NEW n \in Nat PROVE f[n] = IF n = 0 THEN s ELSE Wider(records, f[n - 1])
    <3>1. CASE n = 0
      BY <2>1, <3>1
    <3>2. CASE n # 0
      <4>1. n - 1 \in Nat /\ (n - 1) + 1 = n
        BY <3>2
      <4>2. f[(n - 1) + 1] = G[f[n - 1]] /\ f[n - 1] \in D
        BY <2>1, <4>1
      <4> QED
        BY <3>2, <4>1, <4>2
    <3> QED
      BY <3>1, <3>2
  <2>3. f = [n \in Nat |-> f[n]]
    BY <2>1
  <2> HIDE DEF s, G, D
  <2>4. f = [n \in Nat |-> IF n = 0 THEN s ELSE Wider(records, f[n - 1])]
    BY <2>2, <2>3
  <2> QED
    BY <2>4 DEF s
<1> DEFINE w == CHOOSE g : F(g)
<1>4. F(w)
  <2> HIDE DEF F
  <2> QED
    BY <1>3
<1>5. Within(records) = w
  BY DEF Within, FirstLayer, Wider
<1>6. w[0] = FirstLayer(records)
  <2> HIDE DEF w
  <2> QED
    BY <1>4
<1>7. ASSUME NEW n \in Nat PROVE w[n + 1] = Wider(records, w[n])
  <2> HIDE DEF w
  <2>1. n + 1 \in Nat /\ n + 1 # 0 /\ (n + 1) - 1 = n
    OBVIOUS
  <2>2. w[n + 1] = IF n + 1 = 0 THEN FirstLayer(records) ELSE Wider(records, w[(n + 1) - 1])
    BY <1>4, <2>1
  <2> QED
    BY <2>1, <2>2
<1> QED
  BY <1>5, <1>6, <1>7

(* The search reaches no compartment before its chain is as long ...       *)
LEMMA NotReachedBefore ==
  ASSUME TreeFound, NEW n \in Nat, NEW c \in Within(walk.found)[n], NEW a \in Chains(c)
  PROVE  Len(a) <= n
<1> DEFINE W == Within(walk.found)
           S == {k \in Nat : \A d \in W[k] : \A b \in Chains(d) : Len(b) <= k}
<1>0. W[0] = FirstLayer(walk.found) /\ \A k \in Nat : W[k + 1] = Wider(walk.found, W[k])
  BY WithinSteps
<1> HIDE DEF W
<1>1. 0 \in S
  <2> SUFFICES ASSUME NEW d \in W[0], NEW b \in Chains(d) PROVE FALSE
    OBVIOUS
  <2>1. d = Root
    BY <1>0 DEF FirstLayer
  <2>2. /\ Len(b) \in Nat /\ Len(b) >= 1 /\ Link(d, b, 0) = d
        /\ \A i \in 0..(Len(b) - 1) : Link(d, b, i) \in Inner
    BY ChainTyped
  <2>3. 0 \in 0..(Len(b) - 1)
    BY <2>2
  <2>4. d \in Inner
    BY <2>2, <2>3
  <2> QED
    BY <2>1, <2>4 DEF Inner
<1>2. ASSUME NEW k \in Nat, k \in S PROVE k + 1 \in S
  <2> SUFFICES ASSUME NEW d \in W[k + 1], NEW b \in Chains(d) PROVE Len(b) <= k + 1
    BY k + 1 \in Nat
  <2>1. Len(b) \in Nat
    BY ChainTyped
  <2>2. CASE d \in W[k]
    <3>1. Len(b) <= k
      BY <1>2, <2>2
    <3> QED
      BY <2>1, <3>1
  <2>3. CASE d \notin W[k]
    <3>1. PICK q \in walk.found : q.parent \in W[k] /\ q.id = d
      BY <1>0, <2>3 DEF Wider
    <3>2. PICK r \in walk.found : StartsChain(r, d, Len(b))
      BY FirstLink
    <3>3. q = r
      BY <3>1, <3>2 DEF TreeFound, OneRecordEach, StartsChain
    <3>4. CASE r.parent = Root
      <4>1. Len(b) = 1
        BY <3>2, <3>4 DEF StartsChain
      <4> QED
        BY <4>1
    <3>5. CASE r.parent # Root
      <4>1. PICK e \in Chains(r.parent) : Len(e) = Len(b) - 1
        BY <3>2, <3>5 DEF StartsChain
      <4>2. Len(e) <= k
        BY <1>2, <3>1, <3>3
      <4> QED
        BY <2>1, <4>1, <4>2
    <3> QED
      BY <3>4, <3>5
  <2> QED
    BY <2>2, <2>3
<1>3. n \in S
  <2> HIDE DEF S
  <2> QED
    BY <1>1, <1>2, Induction
<1> QED
  BY <1>3 DEF W

(* ... and then it does, unless the root itself could not be read.         *)
LEMMA ReachedByThen ==
  ASSUME TreeFound, Root \in FoundIds, NEW c \in Inner, NEW a \in Chains(c)
  PROVE  c \in Within(walk.found)[Len(a)]
<1> DEFINE W == Within(walk.found)
           S == {k \in Nat : \A d \in Inner : \A b \in Chains(d) : Len(b) = k => d \in W[k]}
<1>0. W[0] = FirstLayer(walk.found) /\ \A k \in Nat : W[k + 1] = Wider(walk.found, W[k])
  BY WithinSteps
<1> HIDE DEF W
<1>1. 0 \in S
  BY ChainTyped
<1>2. ASSUME NEW k \in Nat, k \in S PROVE k + 1 \in S
  <2> SUFFICES ASSUME NEW d \in Inner, NEW b \in Chains(d), Len(b) = k + 1 PROVE d \in W[k + 1]
    BY k + 1 \in Nat
  <2>1. PICK r \in walk.found : StartsChain(r, d, Len(b))
    BY FirstLink
  <2>2. r.parent \in W[k]
    <3>1. CASE r.parent = Root
      <4>1. k = 0
        BY <2>1, <3>1 DEF StartsChain
      <4>2. Root \in W[0]
        BY <1>0 DEF FirstLayer, FoundIds
      <4> QED
        BY <3>1, <4>1, <4>2
    <3>2. CASE r.parent # Root
      <4>1. r.parent \in Inner
        BY <2>1, <3>2 DEF StartsChain
      <4>2. PICK e \in Chains(r.parent) : Len(e) = Len(b) - 1
        BY <2>1, <3>2 DEF StartsChain
      <4>3. Len(e) = k
        BY <4>2
      <4> QED
        BY <1>2, <4>1, <4>3
    <3> QED
      BY <3>1, <3>2
  <2>3. r.id = d
    BY <2>1 DEF StartsChain
  <2> QED
    BY <1>0, <2>2, <2>3 DEF Wider
<1>3. Nat \subseteq S
  <2> HIDE DEF S
  <2> QED
    BY <1>1, <1>2, Induction
<1>4. Len(a) \in Nat
  BY ChainTyped
<1> QED
  BY <1>3, <1>4 DEF W

LEMMA RecordsAreFinite ==
  ASSUME WalkTypeOK, TreeFound
  PROVE  IsFiniteSet(walk.found)
<1> DEFINE f == [i \in FoundIds |-> RecordOf(walk.found, i)]
<1>1. IsFiniteSet(FoundIds)
  BY FoundInIds, TenancyAssumption, FS_Subset
<1>2. \A r \in walk.found : r.id \in FoundIds /\ f[r.id] = r
  BY RecordsAreFound DEF TreeFound, FoundIds
<1>3. f \in Surjection(FoundIds, walk.found)
  <2>1. \A i \in FoundIds : \E r \in walk.found : r.id = i
    BY DEF FoundIds
  <2>2. \A i \in FoundIds : f[i] \in walk.found
    BY <1>2, <2>1
  <2>3. f \in [FoundIds -> walk.found]
    BY <2>2
  <2> HIDE DEF f
  <2> QED
    BY <1>2, <2>3 DEF Surjection
<1> HIDE DEF f
<1> QED
  BY <1>1, <1>3, FS_Surjection

LEMMA ChainsAreBounded ==
  ASSUME WalkTypeOK, TreeFound, NEW c, NEW a \in Chains(c)
  PROVE  Len(a) <= Cardinality(walk.found)
<1> DEFINE k == Len(a)
           I == 0..(k - 1)
           f == [i \in I |-> RecordOf(walk.found, Link(c, a, i))]
<1>1. k \in Nat /\ k >= 1
  BY ChainTyped
<1>2. ASSUME NEW i \in I
      PROVE  f[i] \in walk.found /\ f[i].id = Link(c, a, i)
  <2>1. PICK r \in walk.found : r.id = Link(c, a, i) /\ r = RecordOf(walk.found, Link(c, a, i))
    BY LinkIsParent
  <2> QED
    BY <2>1
<1>3. \A i \in I : i \in 0..k
  BY <1>1
<1> HIDE DEF k
<1>4. f \in Injection(I, walk.found)
  <2>1. f \in [I -> walk.found]
    <3>1. \A i \in I : f[i] \in walk.found
      BY <1>2
    <3> QED
      BY <3>1
  <2> HIDE DEF f
  <2>2. ASSUME NEW i \in I, NEW j \in I, f[i] = f[j] PROVE i = j
    <3>1. Link(c, a, i) = Link(c, a, j)
      BY <1>2, <2>2
    <3> HIDE DEF I
    <3> QED
      BY <1>3, <3>1, LinksDiffer DEF k
  <2>3. DOMAIN f = I
    BY <2>1
  <2> QED
    BY <2>1, <2>2, <2>3 DEF Injection, IsInjective
<1>5. Cardinality(I) <= Cardinality(walk.found)
  <2> HIDE DEF f, I
  <2> QED
    BY <1>4, RecordsAreFinite, FS_Injection
<1>6. Cardinality(I) = k
  <2>1. 0 \in Int /\ k - 1 \in Int /\ ~(0 > k - 1) /\ (k - 1) - 0 + 1 = k
    BY <1>1
  <2> QED
    BY <2>1, FS_Interval
<1> QED
  BY <1>5, <1>6 DEF k

(* The depth of a compartment is the length of its chain.                  *)
LEMMA DepthIsLength ==
  ASSUME WalkTypeOK, TreeFound, NEW c \in FoundIds, c \notin Doubtful
  PROVE  Depth(walk.found, c) = IF c = Root THEN 0 ELSE Len(ChainAbove(walk.found, c))
<1> DEFINE N == Cardinality(walk.found)
           W == Within(walk.found)
           reached == {n \in 0..N : c \in W[n]}
<1>0. N \in Nat
  BY RecordsAreFinite, FS_CardinalityType
<1>1. Depth(walk.found, c) = IF reached # {} THEN Min(reached) ELSE Len(ChainAbove(walk.found, c))
  BY DEF Depth
<1>2. W[0] = FirstLayer(walk.found) /\ \A k \in Nat : W[k + 1] = Wider(walk.found, W[k])
  BY WithinSteps
<1> HIDE DEF N, W
<1>3. ASSUME NEW m \in reached, \A n \in reached : m <= n PROVE Min(reached) = m
  <2>1. m \in 0..N /\ \A n \in reached : n \in 0..N
    OBVIOUS
  <2>2. ASSUME NEW x \in reached, \A n \in reached : x <= n PROVE x = m
    <3>1. x <= m /\ m <= x /\ x \in 0..N
      BY <1>3, <2>1, <2>2
    <3> QED
      BY <1>0, <2>1, <3>1
  <2> HIDE DEF reached
  <2> QED
    BY <1>3, <2>2 DEF Min
<1>4. CASE c = Root
  <2>1. c \in W[0]
    BY <1>2, <1>4 DEF FirstLayer, FoundIds
  <2>2. 0 \in reached /\ \A n \in reached : 0 <= n
    BY <1>0, <2>1
  <2>3. Min(reached) = 0
    BY <1>3, <2>2
  <2> QED
    BY <1>1, <1>4, <2>2, <2>3
<1>5. CASE c # Root
  <2> DEFINE a == ChainAbove(walk.found, c)
  <2>1. c \in Inner
    BY <1>5 DEF Inner
  <2>2. a \in Chains(c)
    BY <2>1, ChainsLeadToTheRoot
  <2> HIDE DEF a
  <2>3. Len(a) \in Nat /\ Len(a) <= N
    BY <2>2, ChainTyped, ChainsAreBounded DEF N
  <2>4. CASE Root \in FoundIds
    <3>1. c \in W[Len(a)]
      BY <2>1, <2>2, <2>4, ReachedByThen DEF W
    <3>2. Len(a) \in reached
      BY <1>0, <2>3, <3>1
    <3>3. ASSUME NEW n \in reached PROVE Len(a) <= n
      <4>1. n \in Nat /\ c \in W[n]
        BY <1>0
      <4> QED
        BY <2>2, <4>1, NotReachedBefore DEF W
    <3>4. Min(reached) = Len(a)
      BY <1>3, <3>2, <3>3
    <3> QED
      BY <1>1, <1>5, <3>2, <3>4 DEF a
  <2>5. CASE Root \notin FoundIds
    <3> DEFINE S == {n \in Nat : W[n] = {}}
    <3>1. 0 \in S
      BY <1>2, <2>5 DEF FirstLayer, FoundIds
    <3>2. ASSUME NEW n \in Nat, n \in S PROVE n + 1 \in S
      BY <1>2, <3>2, n + 1 \in Nat DEF Wider
    <3>3. Nat \subseteq S
      <4> HIDE DEF S
      <4> QED
        BY <3>1, <3>2, Induction
    <3>4. reached = {}
      <4>1. \A n \in 0..N : n \in Nat
        BY <1>0
      <4> QED
        BY <3>3, <4>1
    <3> QED
      BY <1>1, <1>5, <3>4
  <2> QED
    BY <2>4, <2>5
<1> QED
  BY <1>4, <1>5

(* The path of a compartment is climbed the other way round.               *)
Above(kept, path) == RecordOf(kept, path[1]).parent

Ends(kept, path) ==
  \/ ~Has(kept, path[1]) \/ path[1] = Root
  \/ Above(kept, path) \in {None} \union ToSet(path)

PathClimb(f, kept) ==
  f = [path \in Seq(Links) |->
         IF Ends(kept, path) THEN path ELSE f[<<Above(kept, path)>> \o path]]

LEMMA PathIsAClimb ==
  ASSUME NEW kept \in SUBSET Recorded, NEW c
  PROVE  \E f : PathClimb(f, kept) /\ Path(kept, c) = f[<<c>>]
<1> DEFINE stop == {p \in Seq(Links) : Ends(kept, p)}
           next == [p \in Seq(Links) |-> <<Above(kept, p)>> \o p]
<1>1. ASSUME NEW p \in Seq(Links) \ stop
      PROVE  /\ next[p] \in Seq(Links)
             /\ \E up \in Links \ ToSet(p) : ToSet(next[p]) = ToSet(p) \union {up}
  <2> DEFINE up == Above(kept, p)
             first == <<up>>
  <2>1. RecordOf(kept, p[1]) \in kept
    BY DEF Ends, Has, RecordOf
  <2>2. up \in Links /\ up \notin ToSet(p)
    BY <2>1 DEF Ends, Above, Recorded, Links
  <2> HIDE DEF up
  <2>3. first \in Seq(Links) /\ ToSet(first) = {up}
    BY <2>2 DEF ToSet
  <2>4. next[p] = first \o p
    BY DEF up
  <2> HIDE DEF first, next
  <2>5. ToSet(first \o p) = ToSet(first) \union ToSet(p)
    BY <2>3, ToSetOfConcat
  <2>6. first \o p \in Seq(Links)
    BY <2>3
  <2> QED
    BY <2>2, <2>3, <2>4, <2>5, <2>6
<1>2. Climbing(stop, next)
  <2> HIDE DEF stop, next
  <2> QED
    BY <1>1 DEF Climbing
<1>3. PICK f : f = [p \in Seq(Links) |-> IF p \in stop THEN p ELSE f[next[p]]]
  <2> HIDE DEF stop, next
  <2> QED
    BY <1>2, ClimbsAreDefined
<1>4. PathClimb(f, kept)
  BY <1>3 DEF PathClimb
<1> DEFINE g == CHOOSE h : PathClimb(h, kept)
<1>5. PathClimb(g, kept)
  BY <1>4
<1>6. Path(kept, c) = g[<<c>>]
  BY DEF Path, PathClimb, Ends, Above, Links
<1> QED
  BY <1>5, <1>6

LEMMA PathSteps ==
  ASSUME NEW f, NEW kept, PathClimb(f, kept), NEW p \in Seq(Links)
  PROVE  /\ Ends(kept, p) => f[p] = p
         /\ ~Ends(kept, p) => f[p] = f[<<Above(kept, p)>> \o p]
BY DEF PathClimb

LEMMA KeptRecords ==
  ASSUME TreeFound, NEW kept \in SUBSET walk.found, NEW r \in kept
  PROVE  Has(kept, r.id) /\ RecordOf(kept, r.id) = r
<1>1. \E q \in kept : q.id = r.id
  OBVIOUS
<1>2. RecordOf(kept, r.id) \in kept /\ RecordOf(kept, r.id).id = r.id
  BY <1>1 DEF RecordOf
<1> QED
  BY <1>1, <1>2 DEF TreeFound, OneRecordEach, Has

(* The first i links of a chain, from the last one back to c.              *)
Way(c, a, i) == [j \in 1..(i + 1) |-> Link(c, a, (i + 1) - j)]

LEMMA WayTyped ==
  ASSUME WalkTypeOK, TreeFound, NEW c, NEW a \in Chains(c), NEW i \in 0..Len(a)
  PROVE  /\ Way(c, a, i) \in Seq(Links) /\ Len(Way(c, a, i)) = i + 1
         /\ Way(c, a, i)[1] = Link(c, a, i)
         /\ ToSet(Way(c, a, i)) = {Link(c, a, j) : j \in 0..i}
<1> DEFINE w == Way(c, a, i)
<1>1. Len(a) \in Nat /\ i \in Nat
  BY ChainTyped
<1>2. \A j \in 0..i : Link(c, a, j) \in Links
  <2> SUFFICES ASSUME NEW j \in 0..i PROVE Link(c, a, j) \in Links
    OBVIOUS
  <2>1. j \in 0..(Len(a) - 1) \/ j = Len(a)
    BY <1>1
  <2>2. Link(c, a, j) \in Inner \/ Link(c, a, j) = Root
    BY <2>1, ChainTyped
  <2> QED
    BY <2>2, FoundInIds, TenancyAssumption DEF Inner, Links
<1>3. \A j \in 1..(i + 1) : (i + 1) - j \in 0..i
  BY <1>1
<1>4. w \in [1..(i + 1) -> Links]
  BY <1>2, <1>3 DEF Way
<1>5. i + 1 \in Nat /\ w \in Seq(Links) /\ Len(w) = i + 1 /\ DOMAIN w = 1..(i + 1)
  BY <1>1, <1>4
<1>6. w[1] = Link(c, a, i)
  <2>1. 1 \in 1..(i + 1) /\ (i + 1) - 1 = i
    BY <1>1
  <2> QED
    BY <2>1 DEF Way
<1>7. ToSet(w) \subseteq {Link(c, a, j) : j \in 0..i}
  <2>1. \A j \in 1..(i + 1) : w[j] = Link(c, a, (i + 1) - j)
    BY DEF Way
  <2> HIDE DEF w
  <2> QED
    BY <1>3, <1>5, <2>1 DEF ToSet
<1>8. {Link(c, a, j) : j \in 0..i} \subseteq ToSet(w)
  <2> SUFFICES ASSUME NEW j \in 0..i PROVE Link(c, a, j) \in ToSet(w)
    OBVIOUS
  <2>1. (i + 1) - j \in 1..(i + 1) /\ (i + 1) - ((i + 1) - j) = j
    BY <1>1
  <2>2. w[(i + 1) - j] = Link(c, a, j)
    BY <2>1 DEF Way
  <2> HIDE DEF w
  <2> QED
    BY <1>5, <2>1, <2>2 DEF ToSet
<1> QED
  BY <1>5, <1>6, <1>7, <1>8

LEMMA WayGoesOn ==
  ASSUME WalkTypeOK, TreeFound, NEW c, NEW a \in Chains(c), NEW i \in 0..(Len(a) - 1)
  PROVE  Way(c, a, i + 1) = <<Link(c, a, i + 1)>> \o Way(c, a, i)
<1>1. Len(a) \in Nat /\ i \in Nat /\ i \in 0..Len(a) /\ i + 1 \in 0..Len(a)
  BY ChainTyped
<1> DEFINE w == Way(c, a, i)
           v == Way(c, a, i + 1)
           up == Link(c, a, i + 1)
           first == <<up>>
<1>2. /\ w \in Seq(Links) /\ Len(w) = i + 1 /\ v \in Seq(Links) /\ Len(v) = (i + 1) + 1
      /\ v[1] = up
  BY <1>1, WayTyped
<1>3. up \in Links
  <2>1. 1 \in 1..Len(v)
    BY <1>1, <1>2
  <2> HIDE DEF v, up
  <2> QED
    BY <1>2, <2>1
<1>4. /\ first \o w \in Seq(Links) /\ Len(first \o w) = (i + 1) + 1
      /\ (first \o w)[1] = up /\ \A j \in 2..((i + 1) + 1) : (first \o w)[j] = w[j - 1]
  <2> HIDE DEF w, up
  <2> QED
    BY <1>1, <1>2, <1>3
<1>5. \A j \in 2..((i + 1) + 1) : v[j] = w[j - 1]
  <2> SUFFICES ASSUME NEW j \in 2..((i + 1) + 1) PROVE v[j] = w[j - 1]
    OBVIOUS
  <2>1. /\ j \in 1..((i + 1) + 1) /\ j - 1 \in 1..(i + 1)
        /\ ((i + 1) + 1) - j = (i + 1) - (j - 1)
    BY <1>1
  <2> QED
    BY <2>1 DEF Way
<1>6. \A j \in 1..((i + 1) + 1) : v[j] = (first \o w)[j]
  <2>1. \A j \in 1..((i + 1) + 1) : j = 1 \/ j \in 2..((i + 1) + 1)
    BY <1>1
  <2> HIDE DEF v, w, up, first
  <2> QED
    BY <1>2, <1>4, <1>5, <2>1
<1> HIDE DEF v, w, up, first
<1>7. v = first \o w
  BY <1>2, <1>4, <1>6, SeqEqual
<1> QED
  BY <1>7 DEF v, w, up, first

(* Where nothing above c was filtered out, its path has a name per level.  *)
LEMMA PathsLeadToTheRoot ==
  ASSUME WalkTypeOK, TreeFound, NEW kept \in SUBSET walk.found, NEW c, NEW a \in Chains(c),
         \A i \in 0..(Len(a) - 1) : Has(kept, Link(c, a, i))
  PROVE  Len(Path(kept, c)) = Len(a) + 1 /\ Path(kept, c)[1] = Root
<1> DEFINE k == Len(a)
<1>1. k \in Nat /\ Link(c, a, 0) = c /\ Link(c, a, k) = Root
  BY ChainTyped
<1>2. kept \in SUBSET Recorded
  BY DEF WalkTypeOK, WalkType
<1>3. PICK f : PathClimb(f, kept) /\ Path(kept, c) = f[<<c>>]
  BY <1>2, PathIsAClimb
<1>4. <<c>> = Way(c, a, 0)
  <2>1. /\ Way(c, a, 0) \in Seq(Links) /\ Len(Way(c, a, 0)) = 0 + 1
        /\ Way(c, a, 0)[1] = Link(c, a, 0)
    <3>1. 0 \in 0..Len(a)
      BY <1>1
    <3> QED
      BY <3>1, WayTyped
  <2> DEFINE w == Way(c, a, 0)
  <2> HIDE DEF w
  <2> QED
    BY <1>1, <2>1 DEF w
<1>5. ASSUME NEW i \in 0..(k - 1) PROVE f[Way(c, a, i)] = f[Way(c, a, i + 1)]
  <2> DEFINE w == Way(c, a, i)
  <2>1. i \in 0..k /\ i + 1 \in 0..k /\ i \in Nat /\ i + 1 \notin 0..i /\ \A j \in 0..i : j \in 0..k
    BY <1>1
  <2>2. /\ w \in Seq(Links) /\ w[1] = Link(c, a, i)
        /\ ToSet(w) = {Link(c, a, j) : j \in 0..i}
    BY <2>1, WayTyped
  <2>3. Link(c, a, i) \in Inner
    BY ChainTyped
  <2>4. PICK r \in walk.found : r.id = Link(c, a, i) /\ r.parent = Link(c, a, i + 1)
    BY LinkIsParent
  <2>5. PICK q \in kept : q.id = Link(c, a, i)
    BY DEF Has
  <2>6. q = r
    BY <2>4, <2>5 DEF TreeFound, OneRecordEach
  <2> HIDE DEF w
  <2>7. Has(kept, w[1]) /\ Above(kept, w) = Link(c, a, i + 1)
    BY <2>2, <2>4, <2>5, <2>6, KeptRecords DEF Above
  <2>8. Link(c, a, i + 1) \notin ToSet(w)
    BY <2>1, <2>2, LinksDiffer
  <2>9. Link(c, a, i + 1) # None
    <3>1. Link(c, a, i + 1) = Root \/ Link(c, a, i + 1) \in Inner
      <4>1. i + 1 = k \/ i + 1 \in 0..(k - 1)
        BY <1>1
      <4> QED
        BY <1>1, <4>1, ChainTyped
    <3> QED
      BY <3>1, FoundInIds, TenancyAssumption DEF Inner
  <2>10. ~Ends(kept, w)
    BY <2>2, <2>3, <2>7, <2>8, <2>9 DEF Ends, Inner
  <2>11. f[w] = f[<<Link(c, a, i + 1)>> \o w]
    BY <1>3, <2>2, <2>7, <2>10, PathSteps
  <2> QED
    BY <2>11, WayGoesOn DEF w
<1>6. f[Way(c, a, 0)] = f[Way(c, a, k)]
  <2> DEFINE S == {n \in Nat : n <= k => f[Way(c, a, 0)] = f[Way(c, a, n)]}
  <2> HIDE DEF k
  <2>1. 0 \in S
    OBVIOUS
  <2>2. ASSUME NEW n \in Nat, n \in S PROVE n + 1 \in S
    <3> SUFFICES ASSUME n + 1 <= k PROVE f[Way(c, a, 0)] = f[Way(c, a, n + 1)]
      BY n + 1 \in Nat
    <3>1. n \in 0..(k - 1) /\ n <= k
      BY <1>1
    <3> QED
      BY <1>5, <2>2, <3>1
  <2>3. k \in S
    <3> HIDE DEF S
    <3> QED
      BY <1>1, <2>1, <2>2, Induction
  <2> QED
    BY <1>1, <2>3
<1>7. f[Way(c, a, k)] = Way(c, a, k)
  <2>1. k \in 0..k
    BY <1>1
  <2>2. Way(c, a, k) \in Seq(Links) /\ Way(c, a, k)[1] = Root
    BY <1>1, <2>1, WayTyped
  <2>3. Ends(kept, Way(c, a, k))
    BY <2>2 DEF Ends
  <2> QED
    BY <1>3, <2>2, <2>3, PathSteps
<1>8. Path(kept, c) = Way(c, a, k)
  BY <1>3, <1>4, <1>6, <1>7
<1> QED
  <2>1. k \in 0..k
    BY <1>1
  <2> QED
    BY <1>1, <1>8, <2>1, WayTyped

ToList == Kept(walk.found, call.subtree, call.inactiveToo, call.maxDepth)

NodesKept ==
  call.tool = "list_compartments" =>
    /\ place # "policy"
    /\ answer.status = "success" => answer.data = Nodes(walk.found, ToList)

LEMMA NodesStayKept ==
  ASSUME ToolsTyped, NodesKept, [Next]_vars
  PROVE  NodesKept'
<1> SUFFICES ASSUME call.tool = "list_compartments", call' = call PROVE NodesKept'
  <2>1. call' = call
    BY DEF Next, Tool, Administrator, Reject, Start, Walking, WalkFailed, ListCompartments, Target,
           Page, PageFails, PageUnavailable, PageDenied, ListResources, VisitPolicies, PoliciesFail,
           ListPolicies, ResolvePolicy, GetPolicy, vars, toolVars
  <2> QED
    BY <2>1 DEF NodesKept
<1>1. place = "done" <=> answer.status # "none"
  BY DEF ToolsTyped, TypeOK
<1>2. Error.status = "error"
  BY DEF Error, Answer
<1>3. CASE Reject \/ WalkFailed \/ PageUnavailable \/ PoliciesFail
  BY <1>2, <1>3 DEF Reject, WalkFailed, PageUnavailable, PoliciesFail, Return, NodesKept
<1>4. CASE Start
  <2>1. place = "start" /\ place' = "walk" /\ answer' = answer
    BY <1>4 DEF Start, Walks
  <2> QED
    BY <1>1, <2>1 DEF NodesKept
<1>5. CASE Walking
  BY <1>1, <1>5 DEF Walking, toolVars, NodesKept
<1>6. CASE ListCompartments
  <2>1. /\ place' = "done" /\ UNCHANGED walk
        /\ answer' = Answer("success", Nodes(walk.found, ToList))
    BY <1>6 DEF ListCompartments, ToolStep, walkVars, Return, ToList
  <2>2. answer'.data = Nodes(walk.found, ToList)
    BY <2>1 DEF Answer
  <2>3. Nodes(walk.found, ToList)' = Nodes(walk.found, ToList)
    BY <2>1 DEF ToList
  <2> QED
    BY <2>1, <2>2, <2>3 DEF NodesKept
<1>7. CASE Administrator \/ UNCHANGED vars
  <2>1. UNCHANGED <<walk, place, answer>>
    BY <1>7 DEF Administrator, Move, toolVars, vars, walkVars
  <2>2. Nodes(walk.found, ToList)' = Nodes(walk.found, ToList)
    BY <2>1 DEF ToList
  <2> QED
    BY <2>1, <2>2 DEF NodesKept
<1> QED
  BY <1>3, <1>4, <1>5, <1>6, <1>7
  DEF Next, Tool, Target, Page, PageFails, PageDenied, Searching, ListResources, VisitPolicies,
      ListPolicies, ResolvePolicy, GetPolicy, NodesKept

(* A listed compartment that is not doubtful is as deep as its chain of    *)
(* parents is long, and its path names each of them unless one was         *)
(* filtered out.                                                           *)
THEOREM NodesAreWhereTheyBelong == Spec => []NodesPlaced
<1>1. Init => NodesKept
  BY DEF Init, NodesKept, Answer
<1>2. ToolsTyped /\ NodesKept /\ [Next]_vars => NodesKept'
  BY NodesStayKept
<1>3. WalkInv /\ NodesKept => NodesPlaced
  <2> SUFFICES ASSUME WalkInv, NodesKept, Succeeded("list_compartments"),
                      NEW n \in {m \in answer.data : m.id \notin Doubtful}
               PROVE  LET chain == ChainAbove(walk.found, n.id)
                          ids   == {m.id : m \in answer.data} IN
                      /\ n.depth = IF n.id = Root THEN 0 ELSE Len(chain)
                      /\ (n.id = Root \/ ToSet(Front(chain)) \subseteq ids) =>
                           Len(n.path) = n.depth + 1 /\ n.path[1] = Root
    BY DEF NodesPlaced
  <2> DEFINE chain == ChainAbove(walk.found, n.id)
             ids   == {m.id : m \in answer.data}
             kept  == ToList
  <2>0. WalkTypeOK /\ TreeFound
    BY DEF WalkInv
  <2>1. kept \in SUBSET walk.found
    BY DEF ToList, Kept
  <2>2. answer.data = Nodes(walk.found, kept)
    BY DEF NodesKept, Succeeded
  <2> HIDE DEF kept
  <2>3. PICK r \in kept : /\ n.id = r.id /\ n.depth = Depth(walk.found, r.id)
                          /\ n.path = Path(kept, r.id)
    BY <2>2 DEF Nodes
  <2>4. ids \subseteq {q.id : q \in kept}
    <3>1. \A m \in answer.data : \E q \in kept : m.id = q.id
      BY <2>2 DEF Nodes
    <3> QED
      BY <3>1
  <2>5. n.id \in FoundIds
    BY <2>1, <2>3 DEF FoundIds
  <2>6. n.depth = IF n.id = Root THEN 0 ELSE Len(chain)
    BY <2>0, <2>3, <2>5, DepthIsLength
  <2> HIDE DEF chain, ids
  <2>7. ASSUME n.id = Root PROVE Len(n.path) = n.depth + 1 /\ n.path[1] = Root
    <3>1. kept \in SUBSET Recorded
      BY <2>0, <2>1 DEF WalkTypeOK, WalkType
    <3>2. PICK f : PathClimb(f, kept) /\ Path(kept, Root) = f[<<Root>>]
      BY <3>1, PathIsAClimb
    <3>3. <<Root>> \in Seq(Links) /\ Ends(kept, <<Root>>)
      BY TenancyAssumption DEF Links, Ends
    <3>4. Path(kept, Root) = <<Root>>
      BY <3>2, <3>3, PathSteps
    <3> QED
      BY <2>3, <2>6, <2>7, <3>4
  <2>8. ASSUME n.id # Root, ToSet(Front(chain)) \subseteq ids
        PROVE  Len(n.path) = n.depth + 1 /\ n.path[1] = Root
    <3>1. n.id \in Inner
      BY <2>5, <2>8 DEF Inner
    <3>2. chain \in Chains(n.id)
      BY <2>0, <3>1, ChainsLeadToTheRoot DEF chain
    <3>3. /\ chain \in Seq(Links) /\ Len(chain) \in Nat /\ Len(chain) >= 1
          /\ Link(n.id, chain, 0) = n.id
          /\ \A i \in 1..Len(chain) : Link(n.id, chain, i) = chain[i]
      BY <3>2, ChainTyped
    <3>4. ASSUME NEW i \in 0..(Len(chain) - 1) PROVE Has(kept, Link(n.id, chain, i))
      <4>1. CASE i = 0
        BY <2>3, <3>3, <4>1 DEF Has
      <4>2. CASE i # 0
        <5> DEFINE front == SubSeq(chain, 1, Len(chain) - 1)
        <5>1. i \in 1..(Len(chain) - 1) /\ i \in 1..Len(chain) /\ 1 + i - 1 = i
          BY <3>3, <4>2
        <5>2. /\ front \in Seq(Links) /\ Len(front) = Len(chain) - 1
              /\ \A j \in 1..(Len(chain) - 1) : front[j] = chain[j]
          <6> DEFINE m == Len(chain) - 1
          <6>1. m \in Nat /\ 1 \in Int /\ \A j \in 1..m : chain[j] \in Links /\ 1 + j - 1 = j
            BY <3>3
          <6> HIDE DEF m
          <6>2. m \in Int /\ m - 1 + 1 = m /\ (1 <= m \/ m = 0)
            BY <6>1
          <6>3. /\ SubSeq(chain, 1, m) \in Seq(Links)
                /\ Len(SubSeq(chain, 1, m)) = IF 1 <= m THEN m - 1 + 1 ELSE 0
                /\ \A j \in 1..(m - 1 + 1) : SubSeq(chain, 1, m)[j] = chain[1 + j - 1]
            BY <6>1, <6>2, SubSeqProperties
          <6>4. /\ SubSeq(chain, 1, m) \in Seq(Links) /\ Len(SubSeq(chain, 1, m)) = m
                /\ \A j \in 1..m : SubSeq(chain, 1, m)[j] = chain[j]
            BY <6>1, <6>2, <6>3
          <6> QED
            BY <6>4 DEF m
        <5>3. front = Front(chain)
          BY DEF Front
        <5> HIDE DEF front
        <5>4. front[i] = chain[i] /\ front[i] \in ToSet(front)
          BY <5>1, <5>2 DEF ToSet
        <5>5. chain[i] \in {q.id : q \in kept}
          BY <2>4, <2>8, <5>3, <5>4
        <5>6. Link(n.id, chain, i) = chain[i]
          BY <3>3, <5>1
        <5> QED
          BY <5>5, <5>6 DEF Has
      <4> QED
        BY <4>1, <4>2
    <3>5. Len(Path(kept, n.id)) = Len(chain) + 1 /\ Path(kept, n.id)[1] = Root
      BY <2>0, <2>1, <3>2, <3>4, PathsLeadToTheRoot
    <3> QED
      BY <2>3, <2>6, <2>8, <3>5
  <2> QED
    BY <2>6, <2>7, <2>8 DEF chain, ids
<1> QED
  BY <1>1, <1>2, <1>3, ToolsTypedHolds, WalkInvHolds, PTL DEF Spec

=============================================================================
