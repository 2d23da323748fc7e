---------------------------- MODULE ColoringProofs ----------------------------
(***************************************************************************)
(* What a round of Color_Main guarantees for every number of registers and *)
(* temporaries, every interference graph and every set of moves: its       *)
(* types, where its nodes and its moves are, and what colours it gives.    *)
(***************************************************************************)
EXTENDS Coloring, FiniteSetTheorems, SequenceTheorems, WellFoundedInduction, TLAPS

(* A set of naturals that is not empty has a least element.                *)
LEMMA LeastElement ==
  ASSUME NEW S, S \subseteq Nat, S # {}
  PROVE  \E x \in S : \A y \in S : x <= y
<1>1. PICK x \in S : \A y \in S : ~(<<y, x>> \in OpToRel(<, Nat))
  BY WFMin, NatLessThanWellFounded, Zenon
<1>2. ASSUME NEW y \in S PROVE ~(y < x)
  <2>1. y < x => <<y, x>> \in OpToRel(<, Nat)
    BY Zenon DEF OpToRel
  <2> QED
    BY <2>1, <1>1
<1>3. \A y \in S : x \in Nat /\ y \in Nat
  OBVIOUS
<1> QED
  BY <1>2, <1>3

(* A set with 0 and, with each number, the next one has all of them.       *)
LEMMA InductiveSet ==
  ASSUME NEW S, 0 \in S, \A n \in Nat : n \in S => n + 1 \in S
  PROVE  Nat \subseteq S
<1> SUFFICES ASSUME Nat \ S # {} PROVE FALSE
  OBVIOUS
<1>1. PICK x \in Nat \ S : \A y \in Nat \ S : x <= y
  BY LeastElement
<1>2. x # 0 /\ x - 1 \in S
  BY <1>1
<1> QED
  BY <1>2

LEMMA NodesFinite ==
  /\ IsFiniteSet(Nodes)
  /\ \A S \in SUBSET Nodes : IsFiniteSet(S) /\ Cardinality(S) \in Nat
<1>1. IsFiniteSet(Nodes)
  BY KAssumption, NTempsAssumption, FS_Interval DEF Nodes
<1> QED
  BY <1>1, FS_Subset, FS_CardinalityType

LEMMA UpTo == \A n \in Nat : IsFiniteSet(1 .. n) /\ Cardinality(1 .. n) = n
BY FS_Interval

(* The moves a step makes wait again were active.                          *)
LEMMA EnabledAreActive ==
  ASSUME NEW nodes
  PROVE  Enabled(nodes) \subseteq activeMoves
BY DEF Enabled

LEMMA AdjacentAreNodes ==
  ASSUME NEW n \in Nodes
  PROVE  adjList(n) \subseteq Nodes /\ Adjacent(n) \subseteq Nodes
BY DEF Adjacent, adjList

-------------------------------------------------------------------------------
LEMMA InitTyped == Init => TypeOK
<1> SUFFICES ASSUME Init PROVE TypeOK
  OBVIOUS
<1>1. input \in Input
  BY InputsAssumption DEF Init
<1>2. MoveTypes
  BY DEF Init, MoveTypes
<1>3. GraphTypes
  <2>1. adjSet \subseteq Nodes \X Nodes
    BY <1>1 DEF Init, Input, Graphs
  <2>2. \A n \in Nodes : Cardinality(adjList(n)) \in Degrees
    BY NodesFinite, AdjacentAreNodes DEF Degrees
  <2> QED
    BY <2>1, <2>2 DEF Init, GraphTypes
<1>4. PlaceTypes /\ ColorTypes
  <2>1. precolored \subseteq Colors
    BY DEF precolored, Colors
  <2> QED
    BY <2>1 DEF Init, PlaceTypes, ColorTypes
<1> QED
  BY <1>1, <1>2, <1>3, <1>4 DEF Init, TypeOK

LEMMA MakeWorklistTyped ==
  ASSUME TypeOK, MakeWorklist
  PROVE  TypeOK'
<1>1. Temps \subseteq Nodes
  BY KAssumption, NTempsAssumption DEF Temps, Nodes
<1> QED
  BY <1>1 DEF MakeWorklist, TypeOK, MoveTypes, GraphTypes, PlaceTypes,
              ColorTypes, graph, moveSets, colors

LEMMA SimplifyTyped ==
  ASSUME TypeOK, NEW n \in Nodes, Simplify(n)
  PROVE  TypeOK'
<1> USE DEF TypeOK
<1>1. MoveTypes'
  BY EnabledAreActive DEF Simplify, MoveTypes
<1>2. GraphTypes'
  BY DEF Simplify, GraphTypes, Degrees
<1>3. PlaceTypes'
  BY AdjacentAreNodes DEF Simplify, PlaceTypes
<1>4. ColorTypes' /\ input' \in Input /\ phase' = phase
  BY DEF Simplify, ColorTypes, colors
<1> QED
  BY <1>1, <1>2, <1>3, <1>4

LEMMA CombineGraphTyped ==
  ASSUME TypeOK, NEW m, NEW u \in Nodes, NEW v \in Nodes, CoalesceCombine(m, u, v)
  PROVE  GraphTypes'
<1> USE DEF TypeOK
<1>1. Adjacent(v) \subseteq Nodes
  BY AdjacentAreNodes
<1>2. adjSet' \subseteq Nodes \X Nodes
  <2> DEFINE gained == {t \in Adjacent(v) : <<t, u>> \notin adjSet}
  <2>1. adjSet' = adjSet \union {<<t, u>> : t \in gained}
                         \union {<<u, t>> : t \in gained}
    BY DEF CoalesceCombine
  <2>2. gained \subseteq Nodes
    BY <1>1
  <2> HIDE DEF gained
  <2> QED
    BY <2>1, <2>2 DEF GraphTypes
<1>3. degree' \in [Nodes -> Degrees]
  <2> DEFINE gained == {t \in Adjacent(v) : <<t, u>> \notin adjSet}
             raised == [t \in Adjacent(v) |->
                          IF t \in gained \ precolored THEN degree[t] + 1
                                                       ELSE degree[t]]
             lowered == [n \in Nodes |->
                CASE n \in Adjacent(v) -> raised[n] - 1
                  [] n = u /\ u \notin precolored -> degree[u] + Cardinality(gained)
                  [] OTHER -> degree[n]]
  <2>1. Cardinality(gained) \in Nat
    BY <1>1, NodesFinite
  <2>2. degree' = lowered
    BY DEF CoalesceCombine
  <2>3. \A n \in Nodes : degree[n] \in Int
    BY DEF GraphTypes, Degrees
  <2>4. \A t \in Adjacent(v) : raised[t] \in Int
    BY <1>1, <2>3
  <2> HIDE DEF gained, raised
  <2>5. \A n \in Nodes : lowered[n] \in Int
    BY <2>1, <2>3, <2>4
  <2> QED
    BY <2>2, <2>5 DEF Degrees
<1>4. coalescedNodes' \subseteq Nodes /\ alias' \in [Nodes -> Nodes]
  BY DEF CoalesceCombine, GraphTypes
<1> QED
  BY <1>2, <1>3, <1>4 DEF GraphTypes

(* What the four branches of Coalesce write has the types it had.          *)
LEMMA CoalesceTyped ==
  ASSUME TypeOK, Coalesce
  PROVE  TypeOK'
<1> USE DEF TypeOK
<1>1. PICK m \in worklistMoves, u \in Nodes, v \in Nodes :
        \/ CoalesceSame(m, u, v)
        \/ CoalesceConstrained(m, u, v)
        \/ CoalesceCombine(m, u, v)
        \/ CoalesceLater(m, u, v)
  BY DEF Coalesce
<1>2. /\ input' \in Input /\ phase' = phase
      /\ selectStack' = selectStack /\ selected' = selected
      /\ ColorTypes'
  BY DEF Coalesce, ColorTypes, colors
<1>3. m \in Moves
  BY DEF MoveTypes
<1>4. CASE CoalesceSame(m, u, v)
  BY <1>2, <1>3, <1>4
    DEF CoalesceSame, Released, MoveTypes, GraphTypes, PlaceTypes, graph
<1>5. CASE CoalesceConstrained(m, u, v)
  BY <1>2, <1>3, <1>5
    DEF CoalesceConstrained, Released, MoveTypes, GraphTypes, PlaceTypes, graph
<1>6. CASE CoalesceCombine(m, u, v)
  <2>1. GraphTypes'
    BY <1>6, CombineGraphTyped
  <2>2. moveList' \in [Nodes -> SUBSET Moves]
    BY <1>6 DEF CoalesceCombine, MoveTypes
  <2>3. MoveTypes'
    BY <1>3, <1>6, <2>2 DEF CoalesceCombine, MoveTypes
  <2>4. PlaceTypes'
    BY <1>2, <1>6, AdjacentAreNodes DEF CoalesceCombine, Released, PlaceTypes
  <2> QED
    BY <1>2, <2>1, <2>3, <2>4
<1>7. CASE CoalesceLater(m, u, v)
  BY <1>2, <1>3, <1>7
    DEF CoalesceLater, MoveTypes, GraphTypes, PlaceTypes, graph, worklists
<1> QED
  BY <1>1, <1>4, <1>5, <1>6, <1>7

(* FreezeMoves neither invents moves nor nodes.                            *)
LEMMA FreezeMovesTyped ==
  ASSUME TypeOK, NEW u \in Nodes, FreezeMoves(u),
         moveList' = moveList, worklistMoves' = worklistMoves,
         coalescedMoves' = coalescedMoves, constrainedMoves' = constrainedMoves
  PROVE  /\ MoveTypes'
         /\ freezeWorklist' \subseteq Nodes
         /\ simplifyWorklist' \subseteq Nodes
<1>1. NodeMoves(u) \subseteq Moves
  BY DEF NodeMoves, TypeOK, MoveTypes
<1>2. MoveTypes'
  BY <1>1 DEF FreezeMoves, TypeOK, MoveTypes
<1> QED
  BY <1>2 DEF FreezeMoves, TypeOK, PlaceTypes

LEMMA FreezeTyped ==
  ASSUME TypeOK, NEW u \in Nodes, Freeze(u)
  PROVE  TypeOK'
<1>1. MoveTypes' /\ freezeWorklist' \subseteq Nodes /\ simplifyWorklist' \subseteq Nodes
  BY FreezeMovesTyped DEF Freeze, graph
<1> QED
  BY <1>1 DEF Freeze, TypeOK, GraphTypes, PlaceTypes, ColorTypes, graph, colors

LEMMA SelectSpillTyped ==
  ASSUME TypeOK, NEW n \in Nodes, SelectSpill(n)
  PROVE  TypeOK'
<1>1. MoveTypes' /\ freezeWorklist' \subseteq Nodes /\ simplifyWorklist' \subseteq Nodes
  BY FreezeMovesTyped DEF SelectSpill, graph
<1> QED
  BY <1>1 DEF SelectSpill, TypeOK, GraphTypes, PlaceTypes, ColorTypes, graph, colors

(* Popping shortens the stack; a colour given is one of the K.             *)
LEMMA AssignColorTyped ==
  ASSUME TypeOK, NEW n \in Nodes, AssignColor(n)
  PROVE  TypeOK'
<1>1. selectStack' \in Seq(Nodes)
  BY DEF AssignColor, TypeOK, PlaceTypes
<1>2. ColorTypes'
  BY DEF AssignColor, TypeOK, ColorTypes
<1>3. MoveTypes' /\ GraphTypes'
  BY DEF AssignColor, TypeOK, MoveTypes, GraphTypes, graph, moveSets
<1> QED
  BY <1>1, <1>2, <1>3 DEF AssignColor, TypeOK, PlaceTypes, worklists

LEMMA StepTyped ==
  ASSUME TypeOK, [Next]_vars
  PROVE  TypeOK'
<1>1. CASE MakeWorklist
  BY <1>1, MakeWorklistTyped
<1>2. CASE \E n \in Nodes : Simplify(n) \/ Freeze(n) \/ SelectSpill(n) \/ AssignColor(n)
  BY <1>2, SimplifyTyped, FreezeTyped, SelectSpillTyped, AssignColorTyped
<1>3. CASE Coalesce
  BY <1>3, CoalesceTyped
<1>4. CASE LeaveLoop
  BY <1>4 DEF LeaveLoop, TypeOK, MoveTypes, GraphTypes, PlaceTypes, ColorTypes,
              graph, moveSets, worklists, colors
<1>5. CASE ColorCoalesced
  BY <1>5 DEF ColorCoalesced, TypeOK, MoveTypes, GraphTypes, PlaceTypes, ColorTypes,
              graph, moveSets, worklists
<1>6. CASE UNCHANGED vars
  BY <1>6 DEF vars, TypeOK, MoveTypes, GraphTypes, PlaceTypes, ColorTypes,
              graph, moveSets, worklists, colors
<1> QED
  BY <1>1, <1>2, <1>3, <1>4, <1>5, <1>6 DEF Next, Terminating

(* Every reachable state of a round of Color_Main is well typed.           *)
THEOREM TypeCorrect == Spec => []TypeOK
BY InitTyped, StepTyped, PTL DEF Spec

-------------------------------------------------------------------------------
(* A move is never in two of the five sets at once and never in none of    *)
(* them.  Freeze and SelectSpill keep this only because they run when no   *)
(* move waits: the moves they freeze are then all taken from activeMoves.  *)
LEMMA FreezeMovesKeepsPartition ==
  ASSUME TypeOK, MovePartition, NEW u \in Nodes, FreezeMoves(u), worklistMoves = {},
         worklistMoves' = worklistMoves, coalescedMoves' = coalescedMoves,
         constrainedMoves' = constrainedMoves
  PROVE  MovePartition'
<1>1. NodeMoves(u) \subseteq activeMoves
  BY DEF NodeMoves
<1> QED
  BY <1>1 DEF FreezeMoves, MovePartition

LEMMA CoalesceKeepsPartition ==
  ASSUME TypeOK, MovePartition, Coalesce
  PROVE  MovePartition'
<1>1. PICK m \in worklistMoves, u \in Nodes, v \in Nodes :
        \/ CoalesceSame(m, u, v)
        \/ CoalesceConstrained(m, u, v)
        \/ CoalesceCombine(m, u, v)
        \/ CoalesceLater(m, u, v)
  BY DEF Coalesce
<1>2. CASE CoalesceSame(m, u, v)
  BY <1>2 DEF CoalesceSame, MovePartition
<1>3. CASE CoalesceConstrained(m, u, v)
  BY <1>3 DEF CoalesceConstrained, MovePartition
<1>4. CASE CoalesceCombine(m, u, v)
  <2>1. PICK enabled \in SUBSET activeMoves :
          /\ worklistMoves' = (worklistMoves \ {m}) \union enabled
          /\ activeMoves' = activeMoves \ enabled
    BY <1>4 DEF CoalesceCombine
  <2>2. /\ coalescedMoves' = coalescedMoves \union {m}
        /\ constrainedMoves' = constrainedMoves
        /\ frozenMoves' = frozenMoves
    BY <1>4 DEF CoalesceCombine
  <2> QED
    BY <2>1, <2>2 DEF MovePartition
<1>5. CASE CoalesceLater(m, u, v)
  BY <1>5 DEF CoalesceLater, MovePartition
<1> QED
  BY <1>1, <1>2, <1>3, <1>4, <1>5

LEMMA SimplifyKeepsPartition ==
  ASSUME MovePartition, NEW n \in Nodes, Simplify(n)
  PROVE  MovePartition'
<1>1. PICK nodes : /\ activeMoves' = activeMoves \ Enabled(nodes)
                   /\ worklistMoves' = worklistMoves \union Enabled(nodes)
  BY DEF Simplify
<1>2. /\ coalescedMoves' = coalescedMoves
      /\ constrainedMoves' = constrainedMoves
      /\ frozenMoves' = frozenMoves
  BY DEF Simplify
<1> QED
  BY <1>1, <1>2, EnabledAreActive DEF MovePartition

(* Every move instruction is in exactly one of the five move sets, for any *)
(* number of registers, temporaries and moves.                             *)
THEOREM MovesPartitioned == Spec => []MovePartition
<1>1. Init => MovePartition
  BY DEF Init, MovePartition
<1>2. TypeOK /\ MovePartition /\ [Next]_vars => MovePartition'
  <2> SUFFICES ASSUME TypeOK, MovePartition, [Next]_vars PROVE MovePartition'
    OBVIOUS
  <2>1. CASE \E n \in Nodes : Simplify(n)
    BY <2>1, SimplifyKeepsPartition
  <2>2. CASE Coalesce
    BY <2>2, CoalesceKeepsPartition
  <2>3. CASE \E n \in Nodes : Freeze(n) \/ SelectSpill(n)
    BY <2>3, FreezeMovesKeepsPartition DEF Freeze, SelectSpill
  <2>4. CASE UNCHANGED moveSets
    BY <2>4 DEF moveSets, MovePartition
  <2>5. CASE MakeWorklist \/ LeaveLoop \/ ColorCoalesced \/ Terminating
    BY <2>4, <2>5 DEF MakeWorklist, LeaveLoop, ColorCoalesced, Terminating, vars
  <2>6. CASE \E n \in Nodes : AssignColor(n)
    BY <2>4, <2>6 DEF AssignColor
  <2> QED
    BY <2>1, <2>2, <2>3, <2>4, <2>5, <2>6 DEF Next, vars
<1> QED
  BY <1>1, <1>2, TypeCorrect, PTL DEF Spec

-------------------------------------------------------------------------------
(* What GetAlias answers.  alias[] is followed while the node is           *)
(* coalesced; the facts below hold of every way to fill it in which no     *)
(* chain goes round, and say what one more coalescing changes.             *)

(* The chain from a node on, for coalesced nodes C and aliases al.         *)
IsFollow(f, C, al, N) ==
  f = [k \in 0 .. N |->
        [m \in Nodes |-> IF k = 0 \/ m \notin C THEN m ELSE f[k - 1][al[m]]]]

(* The number of nodes, at which GetAlias may stop.                        *)
Longest == K + NTemps

Follow(C, al) == CHOOSE f : IsFollow(f, C, al, Longest)

Representative(C, al, n) == Follow(C, al)[Longest][n]

LEMMA LongestType == Longest \in Nat /\ Longest # 0 /\ Cardinality(Nodes) = Longest
<1>1. Longest \in Nat /\ Longest # 0
  BY KAssumption, NTempsAssumption DEF Longest
<1> QED
  BY <1>1, FS_Interval DEF Nodes, Longest

LEMMA GetAliasIsRepresentative ==
  ASSUME NEW n
  PROVE  /\ GetAlias(n) = Representative(coalescedNodes, alias, n)
         /\ GetAlias(n)' = Representative(coalescedNodes', alias', n)
BY DEF GetAlias, Representative, Follow, IsFollow, Longest

(* The recursive function exists, by induction on its domain.              *)
LEMMA FollowExists ==
  ASSUME NEW C, NEW al, NEW N \in Nat
  PROVE  \E f : IsFollow(f, C, al, N)
<1> DEFINE S == {j \in Nat : \E f : IsFollow(f, C, al, j)}
<1>1. 0 \in S
  <2> DEFINE g == [k \in 0 .. 0 |-> [m \in Nodes |-> m]]
  <2>1. IsFollow(g, C, al, 0)
    BY DEF IsFollow
  <2> QED
    BY <2>1
<1>2. ASSUME NEW j \in Nat, j \in S PROVE j + 1 \in S
  <2>1. PICK f : IsFollow(f, C, al, j)
    BY <1>2
  <2> DEFINE g == [k \in 0 .. j + 1 |->
                    IF k = j + 1
                    THEN [m \in Nodes |-> IF m \notin C THEN m ELSE f[j][al[m]]]
                    ELSE f[k]]
             G(k) == [m \in Nodes |-> IF k = 0 \/ m \notin C THEN m ELSE g[k - 1][al[m]]]
  <2>2. \A k \in 0 .. j :
          f[k] = [m \in Nodes |-> IF k = 0 \/ m \notin C THEN m ELSE f[k - 1][al[m]]]
    BY <2>1 DEF IsFollow
  <2>3. \A k \in 0 .. j : g[k] = f[k]
    OBVIOUS
  <2>4. g[j + 1] = [m \in Nodes |-> IF m \notin C THEN m ELSE f[j][al[m]]]
    OBVIOUS
  <2>5. g = [k \in 0 .. j + 1 |-> g[k]]
    OBVIOUS
  <2> HIDE DEF g
  <2>6. ASSUME NEW k \in 0 .. j + 1 PROVE g[k] = G(k)
    <3>1. CASE k = j + 1
      <4>1. g[k - 1] = f[j]
        BY <3>1, <2>3
      <4> QED
        BY <3>1, <4>1, <2>4
    <3>2. CASE k = 0
      BY <2>2, <2>3, <3>2
    <3>3. CASE k \in 1 .. j
      <4>1. g[k - 1] = f[k - 1] /\ g[k] = f[k] /\ k # 0
        BY <3>3, <2>3
      <4> QED
        BY <2>2, <3>3, <4>1
    <3> QED
      BY <3>1, <3>2, <3>3
  <2>7. g = [k \in 0 .. j + 1 |-> G(k)]
    BY <2>5, <2>6
  <2> QED
    BY <2>7 DEF IsFollow
<1> QED
  BY <1>1, <1>2, InductiveSet

LEMMA FollowUnfolds ==
  ASSUME NEW C, NEW al
  PROVE  \A k \in 0 .. Longest, m \in Nodes :
           Follow(C, al)[k][m] =
             IF k = 0 \/ m \notin C THEN m ELSE Follow(C, al)[k - 1][al[m]]
<1>1. IsFollow(Follow(C, al), C, al, Longest)
  BY LongestType, FollowExists DEF Follow
<1> DEFINE F == Follow(C, al)
           G(k, m) == IF k = 0 \/ m \notin C THEN m ELSE F[k - 1][al[m]]
<1>2. \A k \in 0 .. Longest : F[k] = [m \in Nodes |-> G(k, m)]
  <2> HIDE DEF F
  <2> QED
    BY <1>1, LongestType DEF IsFollow, F
<1>3. \A k \in 0 .. Longest, m \in Nodes : F[k][m] = G(k, m)
  <2> HIDE DEF F, G
  <2> QED
    BY <1>2
<1> QED
  BY <1>3

(* The aliases of C lead out of C: something goes down along every chain,  *)
(* and has no more values than C has nodes.                                *)
Grounded(C, al) ==
  \E rank \in [Nodes -> 0 .. Cardinality(C)] : \A n \in C : rank[al[n]] < rank[n]

(* Once the chain has left C, following it longer changes nothing.         *)
LEMMA FollowSettles ==
  ASSUME NEW C \in SUBSET Nodes, NEW al \in [Nodes -> Nodes]
  PROVE  \A k \in Nat : k + 1 <= Longest =>
           \A n \in Nodes : Follow(C, al)[k][n] \notin C =>
                              Follow(C, al)[k + 1][n] = Follow(C, al)[k][n]
<1> DEFINE F == Follow(C, al)
           S == {k \in Nat : k + 1 <= Longest =>
                   \A n \in Nodes : F[k][n] \notin C => F[k + 1][n] = F[k][n]}
<1>1. \A k \in 0 .. Longest, m \in Nodes :
        F[k][m] = IF k = 0 \/ m \notin C THEN m ELSE F[k - 1][al[m]]
  BY FollowUnfolds
<1> HIDE DEF F
<1>2. 0 \in S
  <2>1. \A n \in Nodes : F[0][n] = n
    BY <1>1, LongestType
  <2>2. \A n \in Nodes : n \notin C => F[1][n] = n
    BY <1>1, LongestType
  <2> QED
    BY <2>1, <2>2
<1>3. ASSUME NEW k \in Nat, k \in S PROVE k + 1 \in S
  <2> SUFFICES ASSUME k + 2 <= Longest, NEW n \in Nodes, F[k + 1][n] \notin C
               PROVE  F[k + 2][n] = F[k + 1][n]
    OBVIOUS
  <2>1. CASE n \notin C
    BY <1>1, <2>1, LongestType
  <2>2. CASE n \in C
    <3>1. F[k + 1][n] = F[k][al[n]] /\ F[k + 2][n] = F[k + 1][al[n]]
      BY <1>1, <2>2, LongestType
    <3>2. F[k + 1][al[n]] = F[k][al[n]]
      BY <1>3, <3>1, LongestType
    <3> QED
      BY <3>1, <3>2
  <2> QED
    BY <2>1, <2>2
<1>4. \A k \in Nat : k \in S
  BY <1>2, <1>3, InductiveSet
<1> QED
  BY <1>4 DEF F

(* A chain has left C after as many steps as the rank of its node.         *)
LEMMA FollowArrives ==
  ASSUME NEW C \in SUBSET Nodes, NEW al \in [Nodes -> Nodes],
         NEW rank \in [Nodes -> Nat], \A n \in C : rank[al[n]] < rank[n]
  PROVE  \A k \in Nat : k <= Longest =>
           \A n \in Nodes : rank[n] <= k => Follow(C, al)[k][n] \in Nodes \ C
<1> DEFINE F == Follow(C, al)
           S == {k \in Nat : k <= Longest =>
                   \A n \in Nodes : rank[n] <= k => F[k][n] \in Nodes \ C}
<1>1. \A k \in 0 .. Longest, m \in Nodes :
        F[k][m] = IF k = 0 \/ m \notin C THEN m ELSE F[k - 1][al[m]]
  BY FollowUnfolds
<1> HIDE DEF F
<1>2. 0 \in S
  <2>1. \A n \in Nodes : rank[n] <= 0 => n \notin C
    OBVIOUS
  <2> QED
    BY <1>1, <2>1, LongestType
<1>3. ASSUME NEW k \in Nat, k \in S PROVE k + 1 \in S
  <2> SUFFICES ASSUME k + 1 <= Longest, NEW n \in Nodes, rank[n] <= k + 1
               PROVE  F[k + 1][n] \in Nodes \ C
    OBVIOUS
  <2>1. CASE n \notin C
    BY <1>1, <2>1, LongestType
  <2>2. CASE n \in C
    <3>1. F[k + 1][n] = F[k][al[n]] /\ rank[al[n]] <= k /\ al[n] \in Nodes
      BY <1>1, <2>2, LongestType
    <3> QED
      BY <3>1, <1>3, LongestType
  <2> QED
    BY <2>1, <2>2
<1>4. \A k \in Nat : k \in S
  BY <1>2, <1>3, InductiveSet
<1> QED
  BY <1>4 DEF F

(* The bound of GetAlias is large enough: it answers with a node that is   *)
(* not coalesced, the same for a node and for its alias.                   *)
LEMMA RepresentativeFacts ==
  ASSUME NEW C \in SUBSET Nodes, NEW al \in [Nodes -> Nodes], Grounded(C, al)
  PROVE  \A n \in Nodes :
           /\ Representative(C, al, n) \in Nodes \ C
           /\ n \notin C => Representative(C, al, n) = n
           /\ n \in C => Representative(C, al, n) = Representative(C, al, al[n])
<1> DEFINE F == Follow(C, al)
<1>1. PICK rank \in [Nodes -> 0 .. Cardinality(C)] : \A n \in C : rank[al[n]] < rank[n]
  BY DEF Grounded
<1>2. Cardinality(C) \in Nat /\ Cardinality(C) <= Longest
  BY LongestType, NodesFinite, FS_Subset
<1>3. \A k \in 0 .. Longest, m \in Nodes :
        F[k][m] = IF k = 0 \/ m \notin C THEN m ELSE F[k - 1][al[m]]
  BY FollowUnfolds
<1>4. \A n \in Nodes : rank[n] \in Nat /\ rank[n] <= Longest
  BY <1>2, LongestType
<1>5. \A k \in Nat : k <= Longest =>
        \A n \in Nodes : rank[n] <= k => F[k][n] \in Nodes \ C
  <2>1. rank \in [Nodes -> Nat]
    BY <1>4
  <2> QED
    BY <1>1, <2>1, FollowArrives
<1>6. \A k \in Nat : k + 1 <= Longest =>
        \A n \in Nodes : F[k][n] \notin C => F[k + 1][n] = F[k][n]
  BY FollowSettles
<1>7. \A n \in Nodes : Representative(C, al, n) = F[Longest][n]
  BY DEF Representative
<1> HIDE DEF F
<1>8. ASSUME NEW n \in C PROVE F[Longest][n] = F[Longest][al[n]]
  <2> DEFINE L == Longest - 1
  <2>1. L \in Nat /\ L + 1 = Longest
    BY LongestType
  <2>2. al[n] \in Nodes /\ rank[al[n]] <= L
    BY <1>1, <1>4, LongestType
  <2>3. F[Longest][n] = F[L][al[n]]
    BY <1>3, LongestType
  <2> HIDE DEF L
  <2>4. F[L][al[n]] \notin C
    BY <1>5, <2>1, <2>2, LongestType
  <2>5. F[L + 1][al[n]] = F[L][al[n]]
    BY <1>6, <2>1, <2>2, <2>4, LongestType
  <2> QED
    BY <2>1, <2>3, <2>5
<1>9. \A n \in Nodes : n \notin C => F[Longest][n] = n
  BY <1>3, LongestType
<1>10. \A n \in Nodes : F[Longest][n] \in Nodes \ C
  BY <1>4, <1>5, LongestType
<1> QED
  BY <1>7, <1>8, <1>9, <1>10

(* Coalescing v into u makes D and bl of C and al.                         *)
Merges(C, al, u, v, D, bl) ==
  /\ C \in SUBSET Nodes /\ al \in [Nodes -> Nodes] /\ Grounded(C, al)
  /\ u \in Nodes \ C /\ v \in Nodes \ C /\ u # v
  /\ D = C \union {v} /\ bl = [al EXCEPT ![v] = u]

(* What v stood for, u stands for now.                                     *)
LEMMA RepresentativeAfterMerge ==
  ASSUME NEW C, NEW al, NEW u, NEW v, NEW D, NEW bl, Merges(C, al, u, v, D, bl)
  PROVE  /\ Grounded(D, bl)
         /\ \A n \in Nodes : Representative(D, bl, n) =
              IF Representative(C, al, n) = v THEN u ELSE Representative(C, al, n)
<1> USE DEF Merges
<1>1. PICK rank \in [Nodes -> 0 .. Cardinality(C)] : \A n \in C : rank[al[n]] < rank[n]
  BY DEF Grounded
<1>19. Cardinality(C) \in Nat
  BY NodesFinite, FS_Subset, FS_CardinalityType
<1>20. \A n \in Nodes : rank[n] \in Nat /\ rank[n] <= Cardinality(C)
  <2> HIDE DEF Merges
  <2> DEFINE c == Cardinality(C)
  <2>1. \A n \in Nodes : rank[n] \in 0 .. c
    OBVIOUS
  <2>2. c \in Nat
    BY <1>19
  <2> HIDE DEF c
  <2>3. \A n \in Nodes : rank[n] \in Nat /\ rank[n] <= c
    BY <2>1, <2>2
  <2> QED
    BY <2>3 DEF c
<1> DEFINE next == [n \in Nodes |-> IF n = u THEN 0 ELSE rank[n] + 1]
<1>2. Cardinality(C) \in Nat /\ Cardinality(D) = Cardinality(C) + 1
  <2>1. IsFiniteSet(C)
    BY NodesFinite, FS_Subset
  <2> QED
    BY <2>1, FS_AddElement, FS_CardinalityType
<1>3. next \in [Nodes -> 0 .. Cardinality(D)]
  <2>1. \A n \in Nodes : (IF n = u THEN 0 ELSE rank[n] + 1) \in 0 .. Cardinality(D)
    BY <1>2, <1>20
  <2> QED
    BY <2>1
<1>4. D \in SUBSET Nodes /\ bl \in [Nodes -> Nodes]
  OBVIOUS
<1>5. \A n \in D : next[bl[n]] < next[n]
  <2>1. ASSUME NEW n \in C PROVE next[bl[n]] < next[n]
    <3>1. bl[n] = al[n] /\ al[n] \in Nodes /\ n # u /\ n \in Nodes
      OBVIOUS
    <3>2. next[n] = rank[n] + 1 /\ next[al[n]] \in {0, rank[al[n]] + 1}
      BY <3>1
    <3>3. rank[n] \in Nat /\ rank[al[n]] \in Nat /\ rank[al[n]] < rank[n]
      BY <1>1, <1>20, <3>1
    <3> QED
      BY <3>1, <3>2, <3>3
  <2>2. next[bl[v]] < next[v]
    <3>1. bl[v] = u /\ next[u] = 0 /\ next[v] = rank[v] + 1
      OBVIOUS
    <3> QED
      BY <1>20, <3>1
  <2> QED
    BY <2>1, <2>2
<1>6. Grounded(D, bl)
  BY <1>3, <1>5 DEF Grounded
<1> DEFINE R == [n \in Nodes |-> Representative(C, al, n)]
           Q == [n \in Nodes |-> Representative(D, bl, n)]
<1>7. \A n \in Nodes : /\ R[n] \in Nodes \ C
                       /\ n \notin C => R[n] = n
                       /\ n \in C => R[n] = R[al[n]]
  BY RepresentativeFacts
<1>8. \A n \in Nodes : /\ Q[n] \in Nodes \ D
                       /\ n \notin D => Q[n] = n
                       /\ n \in D => Q[n] = Q[bl[n]]
  <2>1. \A n \in Nodes :
          /\ Representative(D, bl, n) \in Nodes \ D
          /\ n \notin D => Representative(D, bl, n) = n
          /\ n \in D => Representative(D, bl, n) = Representative(D, bl, bl[n])
    <3> HIDE DEF Merges
    <3> QED
      BY <1>4, <1>6, RepresentativeFacts
  <2>2. \A n \in Nodes : bl[n] \in Nodes
    BY <1>4
  <2> QED
    BY <2>1, <2>2
<1>81. /\ bl[v] = u /\ \A n \in C : bl[n] = al[n] /\ n # v /\ n \in Nodes
       /\ \A n : n \in D <=> n \in C \/ n = v
  OBVIOUS
<1> DEFINE Bad == {n \in Nodes : Q[n] # IF R[n] = v THEN u ELSE R[n]}
<1>9. ASSUME NEW n \in C PROVE al[n] \in Bad <=> n \in Bad
  <2> HIDE DEF R, Q
  <2>1. R[n] = R[al[n]] /\ Q[n] = Q[al[n]] /\ n \in Nodes /\ al[n] \in Nodes
    BY <1>7, <1>8, <1>81
  <2> QED
    BY <2>1
<1>10. ASSUME NEW n \in Nodes \ C PROVE n \notin Bad
  <2> HIDE DEF R, Q
  <2>1. CASE n = v
    <3>1. Q[v] = Q[u] /\ Q[u] = u
      BY <1>8, <1>81
    <3> QED
      BY <1>7, <2>1, <3>1
  <2>2. CASE n # v
    <3>1. Q[n] = n /\ R[n] = n
      BY <1>7, <1>8, <1>81, <2>2
    <3> QED
      BY <2>2, <3>1
  <2> QED
    BY <2>1, <2>2
<1>11. Bad = {}
  <2> HIDE DEF R, Q, Bad
  <2> SUFFICES ASSUME Bad # {} PROVE FALSE
    OBVIOUS
  <2>1. Bad \subseteq Nodes
    BY DEF Bad
  <2> DEFINE ranks == {rank[n] : n \in Bad}
  <2>2. ranks \subseteq Nat /\ ranks # {}
    BY <1>20, <2>1
  <2>3. PICK r \in ranks : \A s \in ranks : r <= s
    BY <2>2, LeastElement
  <2>4. PICK n \in Bad : r = rank[n]
    BY <2>3
  <2>5. n \in C /\ al[n] \in Bad
    BY <1>9, <1>10, <2>1
  <2>6. rank[al[n]] \in ranks /\ rank[al[n]] < rank[n]
    BY <1>1, <2>5
  <2>7. rank[n] \in Nat /\ rank[al[n]] \in Nat /\ rank[n] <= rank[al[n]]
    BY <2>2, <2>3, <2>4, <2>6
  <2> QED
    BY <2>6, <2>7
<1> QED
  BY <1>6, <1>11

-------------------------------------------------------------------------------
(* Where the nodes and the moves of a round are.  The invariant Held is    *)
(* inductive: the worklists, the stack and the sets of coalesced, coloured *)
(* and spilled nodes keep apart, moveList[] names exactly the moves of the *)
(* nodes a representative stands for, and so no undecided move can belong  *)
(* to a node that has been put away.                                       *)

(* The nodes a move joins, once aliases are followed.                      *)
Reps(m) == {GetAlias(Src(m)), GetAlias(Dst(m))}

AliasesEnd == Grounded(coalescedNodes, alias)

GraphGrows == adjSet \in Graphs /\ input.edges \subseteq adjSet

MovesListed ==
  \A n \in Nodes \ coalescedNodes : moveList[n] = {m \in Moves : n \in Reps(m)}

(* An active move has an end that is not a register.                       *)
ActiveMovable == \A m \in activeMoves : ~(Reps(m) \subseteq precolored)

RegistersStay ==
  /\ precolored \intersect (freezeWorklist \union spillWorklist \union
                            coalescedNodes \union spilledNodes) = {}
  /\ \A r \in precolored : degree[r] <= 0

(* No node is in two places; no temporary is in none.                      *)
Apart ==
  /\ simplifyWorklist \intersect (freezeWorklist \union spillWorklist \union Stacked
       \union coalescedNodes \union coloredNodes \union spilledNodes) = {}
  /\ freezeWorklist \intersect (spillWorklist \union Stacked
       \union coalescedNodes \union coloredNodes \union spilledNodes) = {}
  /\ spillWorklist \intersect
       (Stacked \union coalescedNodes \union coloredNodes \union spilledNodes) = {}
  /\ Stacked \intersect (coalescedNodes \union coloredNodes \union spilledNodes) = {}
  /\ coalescedNodes \intersect (coloredNodes \union spilledNodes) = {}
  /\ coloredNodes \intersect spilledNodes = {}

Covered ==
  phase # "make" =>
    Temps \subseteq OnWorklist \union Stacked \union coalescedNodes
                      \union coloredNodes \union spilledNodes

StackedOnce ==
  \A i, j \in 1 .. Len(selectStack) : selectStack[i] = selectStack[j] => i = j

(* A node is simplified, and stays on the stack, with no move undecided.   *)
Quiet == \A n \in simplifyWorklist \union Stacked : ~MoveRelated(n)

(* What is empty in which phase.                                           *)
InPhase ==
  /\ phase = "make" => /\ OnWorklist = {} /\ selectStack = <<>>
                       /\ coalescedNodes = {} /\ activeMoves = {}
  /\ phase \in {"make", "loop"} => coloredNodes = {} /\ spilledNodes = {}
  /\ phase \in {"assign", "done"} => /\ OnWorklist = {}
                                     /\ worklistMoves = {} /\ activeMoves = {}
  /\ phase = "done" => selectStack = <<>>

GraphHeld == AliasesEnd /\ GraphGrows /\ MovesListed /\ ActiveMovable

PlacesHeld ==
  RegistersStay /\ Apart /\ Covered /\ StackedOnce /\ Quiet /\ InPhase

Held == TypeOK /\ MovePartition /\ GraphHeld /\ PlacesHeld /\ WorklistInvariant

-------------------------------------------------------------------------------
LEMMA NodeFacts ==
  /\ Nodes = Temps \union precolored /\ Temps \intersect precolored = {}
  /\ K \in Int /\ K > 0
BY KAssumption, NTempsAssumption DEF Nodes, Temps, precolored

(* What GetAlias answers in a state where the aliases end.                 *)
LEMMA GetAliasFacts ==
  ASSUME TypeOK, AliasesEnd
  PROVE  \A n \in Nodes : /\ GetAlias(n) \in Nodes \ coalescedNodes
                          /\ n \notin coalescedNodes => GetAlias(n) = n
BY GetAliasIsRepresentative, RepresentativeFacts DEF TypeOK, GraphTypes, AliasesEnd

LEMMA AliasUnchanged ==
  ASSUME coalescedNodes' = coalescedNodes, alias' = alias
  PROVE  /\ \A n : GetAlias(n)' = GetAlias(n)
         /\ AliasesEnd => AliasesEnd'
         /\ input' = input => \A m : Reps(m)' = Reps(m)
<1>1. \A n : GetAlias(n)' = GetAlias(n)
  BY GetAliasIsRepresentative
<1> QED
  BY <1>1 DEF AliasesEnd, Reps, Src, Dst

LEMMA RepsAreNodes ==
  ASSUME TypeOK, AliasesEnd
  PROVE  \A m \in Moves : Reps(m) \subseteq Nodes \ coalescedNodes
BY GetAliasFacts DEF Reps, Src, Dst, TypeOK, Input

(* A node with an undecided move is neither about to be simplified nor     *)
(* simplified: a temporary is then on one of the other two worklists.      *)
LEMMA MoveRelatedWaits ==
  ASSUME Held, phase = "loop", NEW n \in Nodes \ coalescedNodes, MoveRelated(n)
  PROVE  /\ n \notin simplifyWorklist \union Stacked
         /\ n \in Temps => n \in freezeWorklist \union spillWorklist
BY DEF Held, PlacesHeld, Quiet, Covered, InPhase, OnWorklist

LEMMA StackedAreNodes == TypeOK => Stacked \subseteq Nodes
BY DEF TypeOK, PlaceTypes, Stacked

LEMMA StackPush ==
  ASSUME TypeOK, NEW n \in Nodes, selectStack' = Append(selectStack, n)
  PROVE  /\ Stacked' = Stacked \union {n}
         /\ StackedOnce /\ n \notin Stacked => StackedOnce'
<1>1. /\ selectStack \in Seq(Nodes)
      /\ Len(selectStack') = Len(selectStack) + 1
      /\ \A i \in 1 .. Len(selectStack) : selectStack'[i] = selectStack[i]
      /\ selectStack'[Len(selectStack) + 1] = n
  BY DEF TypeOK, PlaceTypes
<1> QED
  BY <1>1 DEF Stacked, StackedOnce

LEMMA PopKeeps ==
  ASSUME TypeOK, selectStack # <<>>,
         selectStack' = SubSeq(selectStack, 1, Len(selectStack) - 1)
  PROVE  /\ Len(selectStack) \in Nat \ {0}
         /\ Len(selectStack') = Len(selectStack) - 1
         /\ \A i \in 1 .. Len(selectStack) - 1 : selectStack'[i] = selectStack[i]
<1>1. selectStack \in Seq(Nodes) /\ Len(selectStack) \in Nat \ {0}
  BY DEF TypeOK, PlaceTypes
<1> DEFINE k == Len(selectStack) - 1
<1>2. k \in Nat /\ k + 1 = Len(selectStack)
  BY <1>1
<1>3. \A i \in 1 .. k : selectStack[i] \in Nodes
  BY <1>1
<1>4. selectStack' = SubSeq(selectStack, 1, k)
  OBVIOUS
<1>5. Len(selectStack') = k /\ \A i \in 1 .. k : selectStack'[i] = selectStack[i]
  <2> HIDE DEF k
  <2>1. /\ Len(SubSeq(selectStack, 1, k)) = IF 1 <= k THEN k - 1 + 1 ELSE 0
        /\ \A i \in 1 .. k - 1 + 1 : SubSeq(selectStack, 1, k)[i] = selectStack[1 + i - 1]
    BY <1>2, <1>3, SubSeqProperties
  <2> QED
    BY <1>2, <1>4, <2>1
<1> QED
  BY <1>1, <1>5

LEMMA StackPop ==
  ASSUME TypeOK, StackedOnce, selectStack # <<>>, NEW n,
         n = selectStack[Len(selectStack)],
         selectStack' = SubSeq(selectStack, 1, Len(selectStack) - 1)
  PROVE  n \in Stacked /\ Stacked' = Stacked \ {n} /\ StackedOnce'
BY PopKeeps DEF Stacked, StackedOnce

-------------------------------------------------------------------------------
LEMMA InitHeld == Init => Held
<1> SUFFICES ASSUME Init PROVE Held
  OBVIOUS
<1>1. TypeOK
  BY InitTyped
<1>2. /\ phase = "make" /\ coalescedNodes = {} /\ activeMoves = {}
      /\ selectStack = <<>> /\ OnWorklist = {}
      /\ coloredNodes = {} /\ spilledNodes = {}
  BY DEF Init, OnWorklist
<1>3. Stacked = {}
  BY <1>2 DEF Stacked
<1>4. AliasesEnd
  <2> DEFINE rank == [n \in Nodes |-> 0]
  <2>1. rank \in [Nodes -> 0 .. Cardinality(coalescedNodes)]
    BY <1>2, FS_EmptySet
  <2> QED
    BY <1>2, <2>1 DEF AliasesEnd, Grounded
<1>5. GraphGrows
  BY <1>1 DEF Init, GraphGrows, TypeOK, Input
<1>6. MovesListed
  <2>1. \A n \in Nodes : GetAlias(n) = n
    BY <1>1, <1>2, <1>4, GetAliasFacts
  <2>2. \A m \in Moves : Src(m) \in Nodes /\ Dst(m) \in Nodes
    BY <1>1 DEF TypeOK, Input, Src, Dst
  <2>3. moveList = [n \in Nodes |-> {m \in Moves : n \in {Src(m), Dst(m)}}]
    BY DEF Init
  <2> QED
    BY <2>1, <2>2, <2>3 DEF MovesListed, Reps
<1>7. RegistersStay
  <2>1. ASSUME NEW r \in precolored PROVE degree[r] = 0
    <3>1. r \in Nodes /\ adjList(r) = {}
      BY NodeFacts DEF adjList
    <3> QED
      BY <3>1, FS_EmptySet DEF Init
  <2> QED
    BY <1>2, <2>1 DEF RegistersStay, OnWorklist
<1>8. MovePartition
  BY DEF Init, MovePartition
<1> QED
  BY <1>1, <1>2, <1>3, <1>4, <1>5, <1>6, <1>7, <1>8
    DEF Held, GraphHeld, ActiveMovable, PlacesHeld, Apart, Covered, StackedOnce,
        Quiet, InPhase, OnWorklist, WorklistInvariant

LEMMA MakeWorklistHeld ==
  ASSUME Held, MakeWorklist
  PROVE  Held'
<1>1. TypeOK' /\ MovePartition'
  BY MakeWorklistTyped DEF Held, MakeWorklist, MovePartition, moveSets
<1>2. /\ coalescedNodes' = coalescedNodes /\ alias' = alias /\ input' = input
      /\ adjSet' = adjSet /\ degree' = degree /\ moveList' = moveList
      /\ worklistMoves' = worklistMoves /\ activeMoves' = activeMoves
      /\ selectStack' = selectStack
      /\ coloredNodes' = coloredNodes /\ spilledNodes' = spilledNodes
  BY DEF MakeWorklist, graph, moveSets, colors
<1>3. GraphHeld'
  BY <1>2, AliasUnchanged
    DEF Held, GraphHeld, GraphGrows, MovesListed, ActiveMovable
<1>4. \A n : MoveRelated(n)' <=> MoveRelated(n)
  BY <1>2 DEF MoveRelated, NodeMoves
<1>5. phase = "make" /\ phase' = "loop" /\ Stacked' = {} /\ Stacked = {}
  BY <1>2 DEF Held, PlacesHeld, InPhase, MakeWorklist, Stacked
<1>6. /\ spillWorklist' = {n \in Temps : degree[n] >= K}
      /\ freezeWorklist' = {n \in Temps : degree[n] < K /\ MoveRelated(n)}
      /\ simplifyWorklist' = {n \in Temps : degree[n] < K /\ ~MoveRelated(n)}
  BY DEF MakeWorklist
<1>7. \A n \in Temps : degree[n] \in Int /\ n \in Nodes /\ n \notin precolored
  BY NodeFacts DEF Held, TypeOK, GraphTypes, Degrees
<1>8. coalescedNodes = {} /\ coloredNodes = {} /\ spilledNodes = {}
  BY <1>5 DEF Held, PlacesHeld, InPhase
<1>9. RegistersStay' /\ Apart' /\ Covered'
  BY <1>2, <1>5, <1>6, <1>7, <1>8, NodeFacts
    DEF RegistersStay, Apart, Covered, OnWorklist, Held, PlacesHeld
<1>10. StackedOnce' /\ Quiet' /\ InPhase'
  BY <1>2, <1>4, <1>5, <1>6, <1>8
    DEF StackedOnce, Quiet, InPhase, Held, PlacesHeld
<1>11. WorklistInvariant'
  BY <1>2, <1>4, <1>6 DEF WorklistInvariant
<1> QED
  BY <1>1, <1>3, <1>9, <1>10, <1>11 DEF Held, PlacesHeld

-------------------------------------------------------------------------------
(* The neighbours a decrement brings below K are temporaries on the spill  *)
(* worklist, or were selected already.                                     *)
LEMMA HitsWereSpillable ==
  ASSUME Held, phase = "loop", NEW n \in Nodes, NEW t \in Adjacent(n), degree[t] = K
  PROVE  /\ t \in Temps \ (Stacked \union coalescedNodes)
         /\ t \in spillWorklist \/ (t \in simplifyWorklist /\ ~MoveRelated(t))
<1>1. t \in Nodes \ (Stacked \union coalescedNodes)
  BY AdjacentAreNodes DEF Adjacent
<1>2. t \notin precolored
  BY NodeFacts DEF Held, PlacesHeld, RegistersStay
<1>3. t \in simplifyWorklist \union freezeWorklist \union spillWorklist
  BY <1>1, <1>2, NodeFacts DEF Held, PlacesHeld, Covered, InPhase, OnWorklist
<1>4. t \notin freezeWorklist
  BY NodeFacts DEF Held, WorklistInvariant
<1>5. t \in simplifyWorklist => ~MoveRelated(t)
  BY DEF Held, WorklistInvariant
<1> QED
  BY <1>1, <1>2, <1>3, <1>4, <1>5, NodeFacts

LEMMA SimplifyHeld ==
  ASSUME Held, NEW n \in Nodes, Simplify(n)
  PROVE  Held'
<1> DEFINE adj == Adjacent(n) \ {n}
           hits == {m \in adj : degree[m] = K}
           near == hits \union UNION {Adjacent(m) \ {n} : m \in hits}
<1>1. TypeOK' /\ MovePartition'
  BY SimplifyTyped, SimplifyKeepsPartition DEF Held
<1>2. /\ phase = "loop" /\ phase' = "loop" /\ n \in simplifyWorklist
      /\ coalescedNodes' = coalescedNodes /\ alias' = alias /\ input' = input
      /\ adjSet' = adjSet /\ moveList' = moveList /\ selected' = selected
      /\ coloredNodes' = coloredNodes /\ spilledNodes' = spilledNodes
      /\ selectStack' = Append(selectStack, n)
  BY DEF Simplify, IsLast, colors
<1>3. /\ degree' = [m \in Nodes |-> IF m \in adj THEN degree[m] - 1 ELSE degree[m]]
      /\ activeMoves' = activeMoves \ Enabled(near)
      /\ worklistMoves' = worklistMoves \union Enabled(near)
      /\ spillWorklist' = spillWorklist \ hits
      /\ freezeWorklist' = freezeWorklist \union {m \in hits : MoveRelated(m)}
      /\ simplifyWorklist' = (simplifyWorklist \ {n}) \union {m \in hits : ~MoveRelated(m)}
  BY DEF Simplify
<1>4. activeMoves' \union worklistMoves' = activeMoves \union worklistMoves
  BY <1>3, EnabledAreActive
<1>5. \A m : MoveRelated(m)' <=> MoveRelated(m)
  BY <1>2, <1>4 DEF MoveRelated, NodeMoves
<1>6. coloredNodes = {} /\ spilledNodes = {} /\ n \notin Stacked /\ ~MoveRelated(n)
  BY <1>2 DEF Held, PlacesHeld, InPhase, Apart, WorklistInvariant
<1>7. Stacked' = Stacked \union {n} /\ StackedOnce'
  BY <1>2, <1>6, StackPush DEF Held, PlacesHeld
<1>8. GraphHeld'
  BY <1>2, <1>3, AliasUnchanged
    DEF Held, GraphHeld, GraphGrows, MovesListed, ActiveMovable
<1>9. /\ \A t \in hits : /\ t \in Temps \ (Stacked \union coalescedNodes)
                         /\ t \in spillWorklist \/ (t \in simplifyWorklist /\ ~MoveRelated(t))
      /\ n \notin hits
  BY <1>2, HitsWereSpillable
<1>10. \A m \in Nodes : degree[m] \in Int
  BY DEF Held, TypeOK, GraphTypes, Degrees
<1>11. \A m \in Nodes : /\ degree'[m] \in Int /\ degree'[m] <= degree[m]
                        /\ m \in hits => degree'[m] < K
                        /\ m \notin hits /\ degree[m] >= K => degree'[m] >= K
  BY <1>3, <1>10, NodeFacts
<1> HIDE DEF adj, hits, near
<1>12. RegistersStay'
  BY <1>2, <1>3, <1>9, <1>10, <1>11, NodeFacts DEF Held, PlacesHeld, RegistersStay
<1>13. Apart'
  BY <1>2, <1>3, <1>6, <1>7, <1>9 DEF Held, PlacesHeld, Apart
<1>14. Covered'
  BY <1>2, <1>3, <1>6, <1>7, <1>9 DEF Held, PlacesHeld, Covered, OnWorklist
<1>15. Quiet' /\ InPhase'
  BY <1>2, <1>3, <1>5, <1>6, <1>7 DEF Held, PlacesHeld, Quiet, InPhase
<1>16. WorklistInvariant'
  <2>1. simplifyWorklist \subseteq Nodes /\ freezeWorklist \subseteq Nodes
        /\ spillWorklist \subseteq Nodes /\ hits \subseteq Nodes
    BY <1>9, NodeFacts DEF Held, TypeOK, PlaceTypes
  <2>2. ASSUME NEW u \in simplifyWorklist'
        PROVE  (degree'[u] < K \/ u \in selected') /\ ~MoveRelated(u)'
    <3>1. u \in hits \/ degree[u] < K \/ u \in selected
      BY <1>2, <1>3 DEF Held, WorklistInvariant
    <3>2. ~MoveRelated(u)
      BY <1>2, <1>3 DEF Held, WorklistInvariant
    <3>3. u \in Nodes
      BY <1>3, <2>1
    <3> QED
      BY <1>2, <1>5, <1>10, <1>11, <3>1, <3>2, <3>3, NodeFacts
  <2>3. ASSUME NEW u \in freezeWorklist'
        PROVE  degree'[u] < K /\ MoveRelated(u)'
    <3>1. (u \in hits \/ degree[u] < K) /\ MoveRelated(u)
      BY <1>2, <1>3 DEF Held, WorklistInvariant
    <3>2. u \in Nodes
      BY <1>3, <2>1
    <3> QED
      BY <1>5, <1>10, <1>11, <3>1, <3>2, NodeFacts
  <2>4. \A u \in spillWorklist' : degree'[u] >= K
    BY <1>2, <1>3, <1>11, <2>1 DEF Held, WorklistInvariant
  <2> QED
    BY <2>2, <2>3, <2>4 DEF WorklistInvariant
<1> QED
  BY <1>1, <1>7, <1>8, <1>12, <1>13, <1>14, <1>15, <1>16 DEF Held, PlacesHeld

-------------------------------------------------------------------------------
(* The far ends FreezeMoves(u) releases.                                   *)
Freed(u) == {v \in Nodes : /\ \E m \in NodeMoves(u) : FarEnd(m, u) = v
                           /\ NodeMoves(v)' = {}
                           /\ degree[v] < K}

LEMMA FreezeMovesFacts ==
  ASSUME Held, phase = "loop", NEW u \in freezeWorklist \union spillWorklist,
         FreezeMoves(u), worklistMoves = {}, worklistMoves' = worklistMoves,
         moveList' = moveList
  PROVE  /\ activeMoves' \subseteq activeMoves
         /\ freezeWorklist' = freezeWorklist \ ({u} \union Freed(u))
         /\ simplifyWorklist' = simplifyWorklist \union {u} \union Freed(u)
         /\ ~MoveRelated(u)'
         /\ \A n : MoveRelated(n)' => MoveRelated(n)
         /\ \A v \in Freed(u) :
              /\ v \in Nodes \ coalescedNodes /\ ~MoveRelated(v)' /\ degree[v] < K
              /\ v \notin simplifyWorklist \union Stacked
              /\ v \in freezeWorklist \union {u} \union precolored
         /\ \A n \in freezeWorklist \ ({u} \union Freed(u)) : MoveRelated(n)'
<1>1. /\ activeMoves' = activeMoves \ NodeMoves(u)
      /\ freezeWorklist' = freezeWorklist \ ({u} \union Freed(u))
      /\ simplifyWorklist' = simplifyWorklist \union {u} \union Freed(u)
  BY DEF FreezeMoves, Freed
<1>2. u \in Nodes \ coalescedNodes /\ u \in Temps
  BY NodeFacts DEF Held, TypeOK, PlaceTypes, PlacesHeld, Apart, RegistersStay
<1>3. \A n : NodeMoves(n)' = NodeMoves(n) \ NodeMoves(u)
  BY <1>1 DEF NodeMoves
<1>4. ~MoveRelated(u)' /\ \A n : MoveRelated(n)' => MoveRelated(n)
  BY <1>3 DEF MoveRelated
<1>5. \A m \in NodeMoves(u) : m \in Moves /\ u \in Reps(m) /\ Reps(m) \subseteq Nodes \ coalescedNodes
  BY <1>2, RepsAreNodes
    DEF NodeMoves, Held, GraphHeld, MovesListed, TypeOK, MoveTypes
<1>6. GetAlias(u) = u
  BY <1>2, GetAliasFacts DEF Held, GraphHeld
<1>7. \A m \in NodeMoves(u) : FarEnd(m, u) \in Reps(m) /\ Reps(m) = {u, FarEnd(m, u)}
  BY <1>5, <1>6 DEF FarEnd, Reps
<1>8. ASSUME NEW v \in Freed(u)
      PROVE  /\ v \in Nodes \ coalescedNodes /\ ~MoveRelated(v)' /\ degree[v] < K
             /\ v \notin simplifyWorklist \union Stacked
             /\ v \in freezeWorklist \union {u} \union precolored
  <2>1. PICK m \in NodeMoves(u) : FarEnd(m, u) = v
    BY DEF Freed
  <2>2. v \in Nodes \ coalescedNodes /\ v \in Reps(m) /\ m \in Moves
    BY <1>5, <1>7, <2>1
  <2>3. m \in NodeMoves(v)
    BY <2>1, <2>2 DEF NodeMoves, Held, GraphHeld, MovesListed
  <2>4. MoveRelated(v)
    BY <2>3 DEF MoveRelated
  <2>5. degree[v] < K /\ ~MoveRelated(v)'
    BY DEF Freed, MoveRelated
  <2>6. degree[v] \in Int
    BY <2>2 DEF Held, TypeOK, GraphTypes, Degrees
  <2>7. v \notin spillWorklist
    BY <2>5, <2>6, NodeFacts DEF Held, WorklistInvariant
  <2> QED
    BY <2>2, <2>4, <2>5, <2>7, MoveRelatedWaits, NodeFacts
<1>9. ASSUME NEW n \in freezeWorklist \ ({u} \union Freed(u))
      PROVE  MoveRelated(n)'
  <2>1. n \in Nodes \ coalescedNodes /\ degree[n] < K /\ MoveRelated(n)
    BY DEF Held, TypeOK, PlaceTypes, PlacesHeld, Apart, WorklistInvariant
  <2> SUFFICES ASSUME NodeMoves(n)' = {} PROVE FALSE
    BY DEF MoveRelated
  <2>2. PICK m \in NodeMoves(n) : m \in NodeMoves(u)
    BY <1>3, <2>1 DEF MoveRelated
  <2>3. n \in Reps(m)
    BY <2>1 DEF NodeMoves, Held, GraphHeld, MovesListed
  <2>4. FarEnd(m, u) = n
    BY <1>7, <2>2, <2>3
  <2> QED
    BY <2>1, <2>2, <2>4 DEF Freed
<1> QED
  BY <1>1, <1>4, <1>8, <1>9

LEMMA FreezeOrSelectHeld ==
  ASSUME Held, NEW u \in Nodes, Freeze(u) \/ SelectSpill(u)
  PROVE  Held'
<1>1. TypeOK' /\ MovePartition'
  BY FreezeTyped, SelectSpillTyped, FreezeMovesKeepsPartition
    DEF Held, Freeze, SelectSpill
<1>2. /\ phase = "loop" /\ phase' = "loop" /\ FreezeMoves(u)
      /\ coalescedNodes' = coalescedNodes /\ alias' = alias /\ input' = input
      /\ adjSet' = adjSet /\ moveList' = moveList /\ degree' = degree
      /\ coloredNodes' = coloredNodes /\ spilledNodes' = spilledNodes
      /\ worklistMoves' = worklistMoves /\ worklistMoves = {}
      /\ simplifyWorklist = {} /\ selectStack' = selectStack
  BY DEF Freeze, SelectSpill, graph, colors
<1>3. /\ u \in freezeWorklist \union spillWorklist
      /\ spillWorklist' = spillWorklist \ {u}
      /\ selected \subseteq selected' /\ (u \in spillWorklist => u \in selected')
  <2>1. CASE Freeze(u)
    BY <2>1 DEF Freeze, IsLast, Held, PlacesHeld, Apart
  <2>2. CASE SelectSpill(u)
    BY <2>2 DEF SelectSpill
  <2> QED
    BY <2>1, <2>2
<1>4. /\ activeMoves' \subseteq activeMoves
      /\ freezeWorklist' = freezeWorklist \ ({u} \union Freed(u))
      /\ simplifyWorklist' = simplifyWorklist \union {u} \union Freed(u)
      /\ ~MoveRelated(u)'
      /\ \A n : MoveRelated(n)' => MoveRelated(n)
      /\ \A v \in Freed(u) :
           /\ v \in Nodes \ coalescedNodes /\ ~MoveRelated(v)' /\ degree[v] < K
           /\ v \notin simplifyWorklist \union Stacked
           /\ v \in freezeWorklist \union {u} \union precolored
      /\ \A n \in freezeWorklist \ ({u} \union Freed(u)) : MoveRelated(n)'
  BY <1>2, <1>3, FreezeMovesFacts
<1>5. Stacked' = Stacked /\ StackedOnce'
  BY <1>2 DEF Stacked, StackedOnce, Held, PlacesHeld
<1>6. coloredNodes = {} /\ spilledNodes = {} /\ u \notin Stacked /\ u \notin coalescedNodes
  BY <1>2, <1>3 DEF Held, PlacesHeld, InPhase, Apart
<1>7. GraphHeld'
  BY <1>2, <1>4, AliasUnchanged
    DEF Held, GraphHeld, GraphGrows, MovesListed, ActiveMovable
<1>8. RegistersStay'
  BY <1>2, <1>3, <1>4 DEF Held, PlacesHeld, RegistersStay
<1>9. Apart'
  <2>1. \A v \in Freed(u) : v \notin spillWorklist'
    BY <1>3, <1>4 DEF Held, PlacesHeld, Apart, RegistersStay
  <2> QED
    BY <1>2, <1>3, <1>4, <1>5, <1>6, <2>1 DEF Held, PlacesHeld, Apart
<1>10. Covered'
  BY <1>2, <1>3, <1>4, <1>5 DEF Held, PlacesHeld, Covered, OnWorklist
<1>11. Quiet' /\ InPhase'
  BY <1>2, <1>4, <1>5, <1>6 DEF Held, PlacesHeld, Quiet, InPhase
<1>12. WorklistInvariant'
  <2>1. u \in spillWorklist \/ degree[u] < K
    BY <1>2, <1>3 DEF Held, WorklistInvariant
  <2> QED
    BY <1>2, <1>3, <1>4, <2>1 DEF Held, WorklistInvariant
<1> QED
  BY <1>1, <1>5, <1>7, <1>8, <1>9, <1>10, <1>11, <1>12 DEF Held, PlacesHeld

(* With nothing left on a worklist no move can still be active: one of its *)
(* ends is a temporary, which would have to be on a worklist.              *)
LEMMA LeaveLoopHeld ==
  ASSUME Held, LeaveLoop
  PROVE  Held'
<1>1. TypeOK' /\ Held
  BY StepTyped DEF Held, Next
<1>2. /\ phase = "loop" /\ phase' = "assign" /\ OnWorklist = {} /\ worklistMoves = {}
      /\ UNCHANGED <<input, graph, moveSets, worklists, selectStack, colors, selected>>
  BY DEF LeaveLoop, OnWorklist
<1>3. activeMoves = {}
  <2> SUFFICES ASSUME NEW m \in activeMoves PROVE FALSE
    OBVIOUS
  <2>1. m \in Moves /\ Reps(m) \subseteq Nodes \ coalescedNodes
    BY RepsAreNodes DEF Held, GraphHeld, TypeOK, MoveTypes
  <2>2. PICK n \in Reps(m) : n \in Temps
    BY <2>1, NodeFacts DEF Held, GraphHeld, ActiveMovable
  <2>3. m \in NodeMoves(n)
    BY <2>1, <2>2 DEF NodeMoves, Held, GraphHeld, MovesListed
  <2>4. MoveRelated(n)
    BY <2>3 DEF MoveRelated
  <2> QED
    BY <1>2, <2>1, <2>2, <2>4, MoveRelatedWaits DEF OnWorklist
<1>4. GraphHeld' /\ MovePartition'
  BY <1>2, AliasUnchanged
    DEF Held, GraphHeld, GraphGrows, MovesListed, ActiveMovable, MovePartition,
        graph, moveSets
<1>5. Stacked' = Stacked
  BY <1>2 DEF Stacked
<1>6. \A n : MoveRelated(n)' <=> MoveRelated(n)
  BY <1>2 DEF MoveRelated, NodeMoves, graph, moveSets
<1>7. RegistersStay' /\ Apart' /\ Covered' /\ StackedOnce'
  BY <1>2, <1>5 DEF Held, PlacesHeld, RegistersStay, Apart, Covered, StackedOnce,
                    OnWorklist, graph, worklists, colors
<1>8. Quiet' /\ InPhase' /\ WorklistInvariant'
  BY <1>2, <1>3, <1>5, <1>6
    DEF Held, PlacesHeld, Quiet, InPhase, WorklistInvariant, OnWorklist,
        moveSets, worklists, colors
<1> QED
  BY <1>1, <1>4, <1>7, <1>8 DEF Held, PlacesHeld

LEMMA AssignColorHeld ==
  ASSUME Held, NEW n \in Nodes, AssignColor(n)
  PROVE  Held'
<1>1. TypeOK'
  BY AssignColorTyped DEF Held
<1>2. /\ phase = "assign" /\ phase' = "assign"
      /\ UNCHANGED <<input, graph, moveSets, worklists, selected>>
  BY DEF AssignColor
<1>3. n \in Stacked /\ Stacked' = Stacked \ {n} /\ StackedOnce'
  BY StackPop DEF AssignColor, Held, PlacesHeld
<1>4. OnWorklist = {} /\ worklistMoves = {} /\ activeMoves = {}
  BY <1>2 DEF Held, PlacesHeld, InPhase
<1>5. \/ coloredNodes' = coloredNodes \union {n} /\ spilledNodes' = spilledNodes
      \/ /\ spilledNodes' = spilledNodes \union {n} /\ coloredNodes' = coloredNodes
         /\ Colors \subseteq Taken(n)
  BY DEF AssignColor
(* A register's adjacency list is empty, so it always finds a colour.      *)
<1>6. Colors \subseteq Taken(n) => n \notin precolored
  <2> SUFFICES ASSUME n \in precolored PROVE ~(Colors \subseteq Taken(n))
    OBVIOUS
  <2>1. Taken(n) = {}
    BY DEF Taken, adjList
  <2> QED
    BY <2>1, NodeFacts DEF Colors
<1>7. GraphHeld' /\ MovePartition'
  BY <1>2, AliasUnchanged
    DEF Held, GraphHeld, GraphGrows, MovesListed, ActiveMovable, MovePartition,
        graph, moveSets
<1>8. RegistersStay'
  BY <1>2, <1>5, <1>6 DEF Held, PlacesHeld, RegistersStay, graph, worklists
<1>9. Apart'
  BY <1>2, <1>3, <1>4, <1>5 DEF Held, PlacesHeld, Apart, OnWorklist, graph, worklists
<1>10. Covered'
  BY <1>2, <1>3, <1>5 DEF Held, PlacesHeld, Covered, OnWorklist, graph, worklists
<1>11. Quiet' /\ InPhase' /\ WorklistInvariant'
  BY <1>2, <1>4
    DEF Quiet, InPhase, WorklistInvariant, OnWorklist, MoveRelated, NodeMoves,
        moveSets, worklists, graph
<1> QED
  BY <1>1, <1>3, <1>7, <1>8, <1>9, <1>10, <1>11 DEF Held, PlacesHeld

LEMMA ColorCoalescedHeld ==
  ASSUME Held, ColorCoalesced
  PROVE  Held'
<1>1. TypeOK'
  BY StepTyped DEF Held, Next
<1>2. /\ phase = "assign" /\ phase' = "done" /\ selectStack = <<>>
      /\ UNCHANGED <<input, graph, moveSets, worklists, selectStack, coloredNodes,
                     spilledNodes, selected>>
  BY DEF ColorCoalesced
<1>3. GraphHeld' /\ MovePartition' /\ Stacked' = Stacked
  BY <1>2, AliasUnchanged
    DEF Held, GraphHeld, GraphGrows, MovesListed, ActiveMovable, MovePartition,
        graph, moveSets, Stacked
<1>4. PlacesHeld' /\ WorklistInvariant'
  BY <1>2, <1>3
    DEF Held, PlacesHeld, RegistersStay, Apart, Covered, StackedOnce, Quiet,
        InPhase, OnWorklist, WorklistInvariant, MoveRelated, NodeMoves,
        graph, moveSets, worklists
<1> QED
  BY <1>1, <1>3, <1>4 DEF Held

-------------------------------------------------------------------------------
(* The move Coalesce takes up, and the two nodes it joins.                 *)
Considers(m, u, v) ==
  /\ phase = "loop" /\ simplifyWorklist = {}
  /\ m \in worklistMoves /\ m \in Moves
  /\ u \in Nodes \ coalescedNodes /\ v \in Nodes \ coalescedNodes
  /\ Reps(m) = {u, v}
  /\ v \in precolored => u \in precolored

LEMMA CoalesceConsiders ==
  ASSUME Held, Coalesce
  PROVE  \E m, u, v : /\ Considers(m, u, v)
                      /\ \/ CoalesceSame(m, u, v)
                         \/ CoalesceConstrained(m, u, v)
                         \/ CoalesceCombine(m, u, v)
                         \/ CoalesceLater(m, u, v)
<1>1. PICK m \in worklistMoves : \E u, v \in Nodes \ coalescedNodes :
        /\ Ends(m) = <<u, v>>
        /\ \/ CoalesceSame(m, u, v)
           \/ CoalesceConstrained(m, u, v)
           \/ CoalesceCombine(m, u, v)
           \/ CoalesceLater(m, u, v)
  BY DEF Coalesce
<1>2. PICK u \in Nodes \ coalescedNodes, v \in Nodes \ coalescedNodes :
        /\ Ends(m) = <<u, v>>
        /\ \/ CoalesceSame(m, u, v)
           \/ CoalesceConstrained(m, u, v)
           \/ CoalesceCombine(m, u, v)
           \/ CoalesceLater(m, u, v)
  BY <1>1
<1>3. Reps(m) = {u, v} /\ (v \in precolored => u \in precolored)
  BY <1>2 DEF Ends, Reps
<1>4. Considers(m, u, v)
  BY <1>1, <1>2, <1>3 DEF Considers, Coalesce, Held, TypeOK, MoveTypes
<1> QED
  BY <1>2, <1>4

(* The move is listed at both of its ends and nowhere else, so both ends   *)
(* are move related: registers, or temporaries that wait.                  *)
LEMMA ConsideredEnds ==
  ASSUME Held, NEW m, NEW u, NEW v, Considers(m, u, v)
  PROVE  /\ \A n \in {u, v} :
              /\ m \in moveList[n] /\ MoveRelated(n)
              /\ n \notin simplifyWorklist \union Stacked
              /\ n \in Temps => n \in freezeWorklist \union spillWorklist
         /\ \A n \in Nodes \ coalescedNodes : n \notin {u, v} => m \notin moveList[n]
         /\ m \notin activeMoves
<1>1. \A n \in {u, v} : m \in moveList[n] /\ MoveRelated(n)
  BY DEF Considers, Held, GraphHeld, MovesListed, MoveRelated, NodeMoves
<1>2. \A n \in Nodes \ coalescedNodes : n \notin {u, v} => m \notin moveList[n]
  BY DEF Considers, Held, GraphHeld, MovesListed
<1>3. m \notin activeMoves
  BY DEF Considers, Held, MovePartition
<1>4. \A n \in {u, v} : n \in Nodes \ coalescedNodes
  BY DEF Considers
<1> QED
  BY <1>1, <1>2, <1>3, <1>4, MoveRelatedWaits DEF Considers

(* The branches that leave the graph alone: the move is settled, and its   *)
(* ends may have become simplifiable.                                      *)
LEMMA SettledHeld ==
  ASSUME Held, Coalesce, NEW m, NEW u, NEW v, Considers(m, u, v),
         CoalesceSame(m, u, v) \/ CoalesceConstrained(m, u, v)
  PROVE  Held'
<1>1. TypeOK' /\ MovePartition'
  BY CoalesceTyped, CoalesceKeepsPartition DEF Held
<1>2. /\ phase = "loop" /\ phase' = "loop" /\ simplifyWorklist = {}
      /\ coalescedNodes' = coalescedNodes /\ alias' = alias /\ input' = input
      /\ adjSet' = adjSet /\ moveList' = moveList /\ degree' = degree
      /\ activeMoves' = activeMoves /\ worklistMoves' = worklistMoves \ {m}
      /\ spillWorklist' = spillWorklist /\ selectStack' = selectStack
      /\ coloredNodes' = coloredNodes /\ spilledNodes' = spilledNodes
      /\ selected' = selected
      /\ freezeWorklist' = freezeWorklist \ Released({u, v})
      /\ simplifyWorklist' = simplifyWorklist \union Released({u, v})
  BY DEF Coalesce, Considers, CoalesceSame, CoalesceConstrained, graph, colors
<1>3. \A n : MoveRelated(n)' => MoveRelated(n)
  BY <1>2 DEF MoveRelated, NodeMoves
<1>4. \A n \in Nodes \ coalescedNodes : n \notin {u, v} => (MoveRelated(n)' <=> MoveRelated(n))
  BY <1>2, ConsideredEnds DEF MoveRelated, NodeMoves
<1>5. \A n \in {u, v} : degree[n] \in Int /\ n \in Nodes
  BY DEF Considers, Held, TypeOK, GraphTypes, Degrees
<1>6. \A n \in Released({u, v}) : n \in {u, v} /\ n \in Temps /\ ~MoveRelated(n)' /\ degree[n] < K
  BY <1>2, <1>5, NodeFacts DEF Released
<1>7. ASSUME NEW n \in Released({u, v}) PROVE n \in freezeWorklist
  <2>1. n \in freezeWorklist \union spillWorklist
    <3>1. \A x \in {u, v} : x \in Temps => x \in freezeWorklist \union spillWorklist
      BY ConsideredEnds
    <3> QED
      BY <1>6, <3>1
  <2>2. n \in spillWorklist => degree[n] >= K
    BY <1>2 DEF Held, WorklistInvariant
  <2> QED
    BY <1>5, <1>6, <2>1, <2>2, NodeFacts
<1>8. \A n \in {u, v} \ Released({u, v}) : n \in freezeWorklist => MoveRelated(n)'
  BY <1>2, <1>5, NodeFacts DEF Released, Held, WorklistInvariant, PlacesHeld, RegistersStay
<1>9. Stacked' = Stacked /\ StackedOnce'
  BY <1>2 DEF Stacked, StackedOnce, Held, PlacesHeld
<1>10. GraphHeld'
  BY <1>2, AliasUnchanged DEF Held, GraphHeld, GraphGrows, MovesListed, ActiveMovable
<1> HIDE DEF Considers
<1>11. RegistersStay' /\ Apart' /\ Covered'
  BY <1>2, <1>7, <1>9 DEF Held, PlacesHeld, RegistersStay, Apart, Covered, OnWorklist
<1>12. Quiet' /\ InPhase'
  BY <1>2, <1>3, <1>6, <1>9 DEF Held, PlacesHeld, Quiet, InPhase
<1>13. WorklistInvariant'
  <2>1. \A n \in freezeWorklist' : degree[n] < K /\ MoveRelated(n)'
    <3>1. freezeWorklist \subseteq Nodes \ coalescedNodes
      BY DEF Held, TypeOK, PlaceTypes, PlacesHeld, Apart
    <3> QED
      BY <1>2, <1>4, <1>8, <3>1 DEF Held, WorklistInvariant
  <2> QED
    BY <1>2, <1>6, <2>1 DEF Held, WorklistInvariant
<1> QED
  BY <1>1, <1>9, <1>10, <1>11, <1>12, <1>13 DEF Held, PlacesHeld

LEMMA LaterHeld ==
  ASSUME Held, Coalesce, NEW m, NEW u, NEW v, Considers(m, u, v), CoalesceLater(m, u, v)
  PROVE  Held'
<1>1. TypeOK' /\ MovePartition'
  BY CoalesceTyped, CoalesceKeepsPartition DEF Held
<1>2. /\ phase = "loop" /\ phase' = "loop"
      /\ coalescedNodes' = coalescedNodes /\ alias' = alias /\ input' = input
      /\ adjSet' = adjSet /\ moveList' = moveList /\ degree' = degree
      /\ activeMoves' = activeMoves \union {m} /\ worklistMoves' = worklistMoves \ {m}
      /\ selectStack' = selectStack /\ UNCHANGED worklists
      /\ coloredNodes' = coloredNodes /\ spilledNodes' = spilledNodes
      /\ selected' = selected /\ v \notin precolored
  BY DEF Coalesce, Considers, CoalesceLater, CannotCoalesce, graph, colors
<1>3. activeMoves' \union worklistMoves' = activeMoves \union worklistMoves
  BY <1>2 DEF Considers
<1>4. \A n : MoveRelated(n)' <=> MoveRelated(n)
  BY <1>2, <1>3 DEF MoveRelated, NodeMoves
<1>5. ~(Reps(m) \subseteq precolored)
  BY <1>2 DEF Considers
<1>6. GraphHeld'
  BY <1>2, <1>5, AliasUnchanged DEF Held, GraphHeld, GraphGrows, MovesListed, ActiveMovable
<1>7. Stacked' = Stacked /\ StackedOnce'
  BY <1>2 DEF Stacked, StackedOnce, Held, PlacesHeld
<1>8. RegistersStay' /\ Apart' /\ Covered' /\ Quiet' /\ InPhase' /\ WorklistInvariant'
  BY <1>2, <1>4, <1>7
    DEF Held, PlacesHeld, RegistersStay, Apart, Covered, Quiet, InPhase, OnWorklist,
        WorklistInvariant, worklists
<1> QED
  BY <1>1, <1>6, <1>7, <1>8 DEF Held, PlacesHeld

-------------------------------------------------------------------------------
(* Combine(u, v), with the neighbours of v that are left, those that gain  *)
(* an edge to u, and those whose degree drops below K.                     *)
Gained(u, v) == {t \in Adjacent(v) : <<t, u>> \notin adjSet}

Raised(t, u, v) ==
  IF t \in Gained(u, v) \ precolored THEN degree[t] + 1 ELSE degree[t]

Dropped(u, v) == {t \in Adjacent(v) : Raised(t, u, v) = K}

LEMMA CombineFacts ==
  ASSUME Held, Coalesce, NEW m, NEW u, NEW v, Considers(m, u, v),
         CoalesceCombine(m, u, v)
  PROVE  /\ phase = "loop" /\ phase' = "loop" /\ simplifyWorklist = {}
         /\ u # v /\ v \notin precolored /\ <<u, v>> \notin adjSet /\ <<v, u>> \notin adjSet
         /\ input' = input /\ selectStack' = selectStack /\ selected' = selected
         /\ coloredNodes' = coloredNodes /\ spilledNodes' = spilledNodes
         /\ coalescedNodes' = coalescedNodes \union {v}
         /\ alias' = [alias EXCEPT ![v] = u]
         /\ moveList' = [moveList EXCEPT ![u] = @ \union moveList[v]]
         /\ adjSet' = adjSet \union {<<t, u>> : t \in Gained(u, v)}
                             \union {<<u, t>> : t \in Gained(u, v)}
         /\ \A t \in Adjacent(v) : t \in Nodes \ (Stacked \union coalescedNodes) /\ t \notin {u, v}
<1>1. /\ phase = "loop" /\ phase' = "loop" /\ simplifyWorklist = {}
      /\ u # v /\ v \notin precolored /\ <<u, v>> \notin adjSet
      /\ input' = input /\ selectStack' = selectStack /\ selected' = selected
      /\ coloredNodes' = coloredNodes /\ spilledNodes' = spilledNodes
      /\ coalescedNodes' = coalescedNodes \union {v}
      /\ alias' = [alias EXCEPT ![v] = u]
      /\ moveList' = [moveList EXCEPT ![u] = @ \union moveList[v]]
      /\ u \in Nodes /\ v \in Nodes
  BY DEF Coalesce, Considers, CoalesceCombine, CannotCoalesce, colors
<1>2. adjSet' = adjSet \union {<<t, u>> : t \in Gained(u, v)}
                       \union {<<u, t>> : t \in Gained(u, v)}
  BY DEF CoalesceCombine, Gained
<1>3. <<v, u>> \notin adjSet
  BY <1>1 DEF Held, GraphHeld, GraphGrows, Graphs
<1>4. \A t \in Adjacent(v) : t \in Nodes \ (Stacked \union coalescedNodes) /\ t \notin {u, v}
  <2>1. <<v, v>> \notin adjSet
    BY DEF Held, GraphHeld, GraphGrows, Graphs
  <2> QED
    BY <1>1, <1>3, <2>1 DEF Adjacent, adjList
<1> QED
  BY <1>1, <1>2, <1>3, <1>4

LEMMA CombineAliases ==
  ASSUME Held, Coalesce, NEW m, NEW u, NEW v, Considers(m, u, v),
         CoalesceCombine(m, u, v)
  PROVE  /\ AliasesEnd'
         /\ \A n \in Nodes : GetAlias(n)' = IF GetAlias(n) = v THEN u ELSE GetAlias(n)
<1>1. /\ u \in Nodes /\ v \in Nodes /\ u # v
      /\ u \notin coalescedNodes /\ v \notin coalescedNodes
      /\ coalescedNodes' = coalescedNodes \union {v}
      /\ alias' = [alias EXCEPT ![v] = u]
  BY CombineFacts DEF Considers
<1>2. /\ coalescedNodes \in SUBSET Nodes /\ alias \in [Nodes -> Nodes]
      /\ Grounded(coalescedNodes, alias)
  BY DEF Held, TypeOK, GraphTypes, GraphHeld, AliasesEnd
<1>3. /\ Grounded(coalescedNodes', alias')
      /\ \A n \in Nodes : Representative(coalescedNodes', alias', n) =
           IF Representative(coalescedNodes, alias, n) = v
           THEN u ELSE Representative(coalescedNodes, alias, n)
  <2>1. Merges(coalescedNodes, alias, u, v, coalescedNodes', alias')
    BY <1>1, <1>2 DEF Merges
  <2> QED
    BY <2>1, RepresentativeAfterMerge
<1> QED
  BY <1>3, GetAliasIsRepresentative DEF AliasesEnd

(* What Combine does to the moves: only the one considered is settled, and *)
(* a move that names v has u for its end from now on.                      *)
LEMMA CombineMoves ==
  ASSUME Held, Coalesce, NEW m, NEW u, NEW v, Considers(m, u, v),
         CoalesceCombine(m, u, v)
  PROVE  /\ activeMoves' \union worklistMoves' = (activeMoves \union worklistMoves) \ {m}
         /\ \A a \in activeMoves' : a \in activeMoves /\ a \notin moveList[v]
         /\ coalescedMoves' = coalescedMoves \union {m}
         /\ \A n \in Nodes \ (coalescedNodes \union {u, v}) :
              MoveRelated(n)' <=> MoveRelated(n)
<1> DEFINE near == {v} \union Dropped(u, v)
                       \union UNION {Adjacent(t)' : t \in Dropped(u, v)}
           enabled == activeMoves \intersect UNION {moveList'[n] : n \in near}
<1>1. /\ worklistMoves' = (worklistMoves \ {m}) \union enabled
      /\ activeMoves' = activeMoves \ enabled
      /\ coalescedMoves' = coalescedMoves \union {m}
  <2> DEFINE adjV == Adjacent(v)
             gained == {t \in adjV : <<t, u>> \notin adjSet}
             raised == [t \in adjV |->
                          IF t \in gained \ precolored THEN degree[t] + 1 ELSE degree[t]]
             hits == {t \in adjV : raised[t] = K}
  <2>1. hits = Dropped(u, v)
    BY DEF Dropped, Raised, Gained
  <2>2. LET n2 == {v} \union hits \union UNION {Adjacent(t)' : t \in hits}
            e2 == activeMoves \intersect UNION {moveList'[n] : n \in n2}
        IN  /\ worklistMoves' = (worklistMoves \ {m}) \union e2
            /\ activeMoves' = activeMoves \ e2
            /\ coalescedMoves' = coalescedMoves \union {m}
    BY DEF CoalesceCombine
  <2> HIDE DEF hits
  <2> QED
    BY <2>1, <2>2
<1> HIDE DEF near
<1>2. v \in near
  BY DEF near
<1>3. m \notin activeMoves
  BY ConsideredEnds
<1>4. u # v /\ u \in Nodes /\ v \in Nodes
      /\ moveList' = [moveList EXCEPT ![u] = @ \union moveList[v]]
  BY CombineFacts DEF Considers
<1>5. moveList'[v] = moveList[v] /\ \A n \in Nodes \ {u} : moveList'[n] = moveList[n]
  BY <1>4 DEF Held, TypeOK, MoveTypes
<1>6. \A a \in activeMoves' : a \in activeMoves /\ a \notin moveList[v]
  BY <1>1, <1>2, <1>5
<1>7. activeMoves' \union worklistMoves' = (activeMoves \union worklistMoves) \ {m}
  BY <1>1, <1>3
<1>8. ASSUME NEW n \in Nodes \ (coalescedNodes \union {u, v})
      PROVE  MoveRelated(n)' <=> MoveRelated(n)
  <2>1. moveList'[n] = moveList[n] /\ m \notin moveList[n]
    BY <1>5, ConsideredEnds
  <2> QED
    BY <1>7, <2>1 DEF MoveRelated, NodeMoves
<1> QED
  BY <1>1, <1>6, <1>7, <1>8

LEMMA CombineGraphHeld ==
  ASSUME Held, Coalesce, NEW m, NEW u, NEW v, Considers(m, u, v),
         CoalesceCombine(m, u, v)
  PROVE  GraphHeld'
<1>1. /\ u # v /\ u \in Nodes /\ v \in Nodes /\ input' = input
      /\ coalescedNodes' = coalescedNodes \union {v}
      /\ moveList' = [moveList EXCEPT ![u] = @ \union moveList[v]]
      /\ adjSet' = adjSet \union {<<t, u>> : t \in Gained(u, v)}
                          \union {<<u, t>> : t \in Gained(u, v)}
      /\ \A t \in Gained(u, v) : t \in Nodes /\ t # u
  BY CombineFacts DEF Considers, Gained
<1>2. \A n \in Nodes : GetAlias(n)' = IF GetAlias(n) = v THEN u ELSE GetAlias(n)
  BY CombineAliases
<1>3. \A a \in Moves : /\ Src(a)' = Src(a) /\ Dst(a)' = Dst(a)
                       /\ Src(a) \in Nodes /\ Dst(a) \in Nodes
  BY <1>1 DEF Src, Dst, Held, TypeOK, Input
<1>4. ASSUME NEW a \in Moves
      PROVE  /\ v \notin Reps(a) => Reps(a)' = Reps(a)
             /\ \A n \in Nodes \ {u, v} : n \in Reps(a)' <=> n \in Reps(a)
             /\ u \in Reps(a)' <=> u \in Reps(a) \/ v \in Reps(a)
  BY <1>1, <1>2, <1>3 DEF Reps
<1>5. MovesListed'
  <2>1. ASSUME NEW n \in Nodes \ coalescedNodes'
        PROVE  moveList'[n] = {a \in Moves : n \in Reps(a)'}
    <3>1. CASE n = u
      <4>1. u \notin coalescedNodes /\ v \notin coalescedNodes
        BY DEF Considers
      <4>2. moveList[u] = {a \in Moves : u \in Reps(a)} /\ moveList[v] = {a \in Moves : v \in Reps(a)}
        BY <1>1, <4>1 DEF Held, GraphHeld, MovesListed
      <4>3. moveList'[u] = moveList[u] \union moveList[v]
        BY <1>1 DEF Held, TypeOK, MoveTypes
      <4> QED
        BY <1>4, <3>1, <4>2, <4>3
    <3>2. CASE n # u
      <4>1. n \in Nodes \ {u, v} /\ n \notin coalescedNodes
        BY <1>1, <3>2
      <4>2. moveList'[n] = moveList[n]
        BY <1>1, <4>1 DEF Held, TypeOK, MoveTypes
      <4>3. moveList[n] = {a \in Moves : n \in Reps(a)}
        BY <4>1 DEF Held, GraphHeld, MovesListed
      <4> QED
        BY <1>4, <4>1, <4>2, <4>3
    <3> QED
      BY <3>1, <3>2
  <2> QED
    BY <2>1 DEF MovesListed
<1>6. ActiveMovable'
  <2> SUFFICES ASSUME NEW a \in activeMoves' PROVE ~(Reps(a)' \subseteq precolored)
    BY DEF ActiveMovable
  <2>1. a \in activeMoves /\ a \notin moveList[v]
    BY CombineMoves
  <2>2. a \in Moves /\ v \notin Reps(a)
    BY <1>1, <2>1 DEF Held, TypeOK, MoveTypes, GraphHeld, MovesListed, Considers
  <2>3. Reps(a)' = Reps(a)
    BY <1>4, <2>2
  <2> QED
    BY <2>1, <2>3 DEF Held, GraphHeld, ActiveMovable
<1>7. GraphGrows'
  <2> DEFINE G == Gained(u, v)
  <2>1. /\ adjSet \subseteq Nodes \X Nodes /\ input.edges \subseteq adjSet
        /\ \A e \in adjSet : e[1] # e[2] /\ <<e[2], e[1]>> \in adjSet
    BY DEF Held, GraphHeld, GraphGrows, Graphs
  <2> HIDE DEF G
  <2>2. adjSet' = adjSet \union {<<t, u>> : t \in G} \union {<<u, t>> : t \in G}
    BY <1>1 DEF G
  <2>3. \A t \in G : t \in Nodes /\ t # u
    BY <1>1 DEF G
  <2>4. adjSet' \subseteq Nodes \X Nodes
    BY <1>1, <2>1, <2>2, <2>3
  <2>5. \A e \in adjSet' : e[1] # e[2] /\ <<e[2], e[1]>> \in adjSet'
    <3>1. \A a, b : <<a, b>> \in adjSet => a # b /\ <<b, a>> \in adjSet
      BY <2>1
    <3>2. \A a, b : <<a, b>> \in adjSet' <=>
            <<a, b>> \in adjSet \/ (a \in G /\ b = u) \/ (a = u /\ b \in G)
      BY <2>2
    <3>3. \A a, b : <<a, b>> \in adjSet' => a # b /\ <<b, a>> \in adjSet'
      BY <2>3, <3>1, <3>2
    <3> QED
      BY <2>4, <3>3
  <2> QED
    BY <1>1, <2>1, <2>2, <2>4, <2>5 DEF GraphGrows, Graphs
<1> QED
  BY <1>5, <1>6, <1>7, CombineAliases DEF GraphHeld

(* The degrees after Combine, one by one.                                  *)
LEMMA CombineRaises ==
  ASSUME Held, Coalesce, NEW m, NEW u, NEW v, Considers(m, u, v),
         CoalesceCombine(m, u, v)
  PROVE  /\ \A t \in Adjacent(v) : degree'[t] = Raised(t, u, v) - 1
         /\ u \notin precolored => degree'[u] = degree[u] + Cardinality(Gained(u, v))
         /\ \A n \in Nodes \ Adjacent(v) :
              n # u \/ n \in precolored => degree'[n] = degree[n]
<1>1. degree' = [n \in Nodes |->
        CASE n \in Adjacent(v) -> Raised(n, u, v) - 1
          [] n = u /\ u \notin precolored -> degree[u] + Cardinality(Gained(u, v))
          [] OTHER -> degree[n]]
  <2> DEFINE raised == [t \in Adjacent(v) |->
                          IF t \in Gained(u, v) \ precolored THEN degree[t] + 1
                                                             ELSE degree[t]]
  <2>1. degree' = [n \in Nodes |->
          CASE n \in Adjacent(v) -> raised[n] - 1
            [] n = u /\ u \notin precolored -> degree[u] + Cardinality(Gained(u, v))
            [] OTHER -> degree[n]]
    BY DEF CoalesceCombine, Gained
  <2>2. \A t \in Adjacent(v) : raised[t] = Raised(t, u, v)
    BY DEF Raised
  <2> QED
    BY <2>1, <2>2
<1>2. \A t \in Adjacent(v) : t \in Nodes /\ t # u /\ t # v
  BY CombineFacts
<1>3. u \in Nodes /\ v \in Nodes
  BY DEF Considers
<1> QED
  BY <1>1, <1>2, <1>3

(* The degrees Combine leaves: those of the neighbours of v move towards K *)
(* from above at most, and u's only grows.                                 *)
LEMMA CombineDegrees ==
  ASSUME Held, Coalesce, NEW m, NEW u, NEW v, Considers(m, u, v),
         CoalesceCombine(m, u, v)
  PROVE  /\ \A n \in Nodes : degree[n] \in Int /\ degree'[n] \in Int
         /\ \A n \in Nodes \ {u} :
              /\ degree[n] < K => degree'[n] < K
              /\ degree[n] >= K /\ n \notin Dropped(u, v) => degree'[n] >= K
         /\ u \in Temps => degree'[u] >= degree[u]
         /\ \A r \in precolored : degree'[r] <= degree[r]
         /\ \A t \in Dropped(u, v) : degree'[t] = K - 1
<1>1. \A n \in Nodes : degree[n] \in Int /\ degree'[n] \in Int
  BY CoalesceTyped DEF Held, TypeOK, GraphTypes, Degrees
<1>2. /\ \A t \in Adjacent(v) : t \in Nodes /\ t # u /\ t # v
      /\ \A t \in Adjacent(v) : degree'[t] = Raised(t, u, v) - 1
      /\ u \notin precolored => degree'[u] = degree[u] + Cardinality(Gained(u, v))
      /\ \A n \in Nodes \ Adjacent(v) : n # u \/ n \in precolored => degree'[n] = degree[n]
  <2>1. \A t \in Adjacent(v) : t \in Nodes /\ t # u /\ t # v
    BY CombineFacts
  <2> QED
    BY <2>1, CombineRaises
<1>3. \A t \in Adjacent(v) :
        /\ t \notin precolored => Raised(t, u, v) \in {degree[t], degree[t] + 1}
        /\ t \in precolored => Raised(t, u, v) = degree[t]
        /\ t \in Dropped(u, v) <=> Raised(t, u, v) = K
  BY DEF Raised, Dropped
<1>4. Dropped(u, v) \subseteq Adjacent(v)
  BY DEF Dropped
<1>5. u \in Temps => degree'[u] >= degree[u]
  <2>1. IsFiniteSet(Gained(u, v))
    <3>1. Gained(u, v) \subseteq Nodes
      BY <1>2 DEF Gained
    <3> QED
      BY <3>1, NodesFinite, FS_Subset
  <2>2. Cardinality(Gained(u, v)) \in Nat
    BY <2>1, FS_CardinalityType
  <2> QED
    BY <1>1, <1>2, <2>2, NodeFacts DEF Considers
<1>6. ASSUME NEW n \in Nodes \ {u}
      PROVE  /\ degree[n] < K => degree'[n] < K
             /\ degree[n] >= K /\ n \notin Dropped(u, v) => degree'[n] >= K
  <2>1. CASE n \in Adjacent(v)
    BY <1>1, <1>2, <1>3, <2>1, NodeFacts
  <2>2. CASE n \notin Adjacent(v)
    BY <1>1, <1>2, <2>2
  <2> QED
    BY <2>1, <2>2
<1>7. ASSUME NEW r \in precolored PROVE degree'[r] <= degree[r]
  BY <1>1, <1>2, <1>3, NodeFacts
<1> QED
  BY <1>1, <1>2, <1>3, <1>4, <1>5, <1>6, <1>7

(* Where Combine puts the nodes.                                           *)
LEMMA CombinePlaces ==
  ASSUME Held, Coalesce, NEW m, NEW u, NEW v, Considers(m, u, v),
         CoalesceCombine(m, u, v)
  PROVE  LET hits == Dropped(u, v)
             frozen == (freezeWorklist \ {v}) \union {t \in hits : MoveRelated(t)'}
             tooHigh == {n \in {u} \intersect frozen : degree'[n] >= K}
         IN  /\ spillWorklist' = (spillWorklist \ ({v} \union hits)) \union tooHigh
             /\ freezeWorklist' = frozen \ (tooHigh \union Released({u}))
             /\ simplifyWorklist' = {t \in hits : ~MoveRelated(t)'} \union Released({u})
<1> DEFINE adjV == Adjacent(v)
           gained == {t \in adjV : <<t, u>> \notin adjSet}
           raised == [t \in adjV |->
                        IF t \in gained \ precolored THEN degree[t] + 1 ELSE degree[t]]
           hits == {t \in adjV : raised[t] = K}
<1>1. hits = Dropped(u, v)
  BY DEF Dropped, Raised, Gained
<1>2. LET frozen == (freezeWorklist \ {v}) \union {t \in hits : MoveRelated(t)'}
          tooHigh == {n \in {u} \intersect frozen : degree'[n] >= K}
      IN  /\ spillWorklist' = (spillWorklist \ ({v} \union hits)) \union tooHigh
          /\ freezeWorklist' = frozen \ (tooHigh \union Released({u}))
          /\ simplifyWorklist' = simplifyWorklist
               \union {t \in hits : ~MoveRelated(t)'} \union Released({u})
  BY DEF CoalesceCombine
<1>3. simplifyWorklist = {}
  BY DEF Considers
<1> HIDE DEF hits
<1> QED
  BY <1>1, <1>2, <1>3

(* The neighbours that drop below K wait on a worklist, and those that     *)
(* some move waits for still wait.                                         *)
LEMMA DroppedWait ==
  ASSUME Held, Coalesce, NEW m, NEW u, NEW v, Considers(m, u, v),
         CoalesceCombine(m, u, v), NEW t \in Dropped(u, v)
  PROVE  /\ t \in Temps \ (Stacked \union coalescedNodes \union {u, v})
         /\ t \in freezeWorklist \union spillWorklist
         /\ t \in freezeWorklist => MoveRelated(t)'
         /\ degree'[t] < K
<1>1. t \in Nodes \ (Stacked \union coalescedNodes) /\ t \notin {u, v}
  BY CombineFacts DEF Dropped
<1>2. t \notin precolored
  <2> SUFFICES ASSUME t \in precolored PROVE FALSE
    OBVIOUS
  <2>1. degree[t] = K
    BY DEF Dropped, Raised
  <2>2. degree[t] <= 0
    BY DEF Held, PlacesHeld, RegistersStay
  <2> QED
    BY <2>1, <2>2, NodeFacts
<1>3. t \in freezeWorklist \union spillWorklist
  BY <1>1, <1>2, NodeFacts
    DEF Considers, Held, PlacesHeld, Covered, InPhase, OnWorklist
<1>4. t \in freezeWorklist => MoveRelated(t)
  BY DEF Considers, Held, WorklistInvariant
<1>5. MoveRelated(t)' <=> MoveRelated(t)
  BY <1>1, CombineMoves
<1>6. degree'[t] < K
  BY CombineDegrees, NodeFacts
<1> QED
  BY <1>1, <1>2, <1>3, <1>4, <1>5, <1>6, NodeFacts

LEMMA CombineHeld ==
  ASSUME Held, Coalesce, NEW m, NEW u, NEW v, Considers(m, u, v),
         CoalesceCombine(m, u, v)
  PROVE  Held'
<1>1. TypeOK' /\ MovePartition' /\ GraphHeld'
  BY CoalesceTyped, CoalesceKeepsPartition, CombineGraphHeld DEF Held
<1>2. /\ phase = "loop" /\ phase' = "loop" /\ simplifyWorklist = {}
      /\ u # v /\ v \notin precolored /\ v \in Nodes /\ u \in Nodes
      /\ selectStack' = selectStack /\ selected' = selected
      /\ coloredNodes' = coloredNodes /\ spilledNodes' = spilledNodes
      /\ coalescedNodes' = coalescedNodes \union {v}
      /\ coloredNodes = {} /\ spilledNodes = {}
  BY CombineFacts DEF Considers, Held, PlacesHeld, InPhase
<1>3. Stacked' = Stacked /\ StackedOnce'
  BY <1>2 DEF Stacked, StackedOnce, Held, PlacesHeld
<1> DEFINE hits == Dropped(u, v)
           frozen == (freezeWorklist \ {v}) \union {t \in hits : MoveRelated(t)'}
           tooHigh == {n \in {u} \intersect frozen : degree'[n] >= K}
           free == Released({u})
<1>4. /\ spillWorklist' = (spillWorklist \ ({v} \union hits)) \union tooHigh
      /\ freezeWorklist' = frozen \ (tooHigh \union free)
      /\ simplifyWorklist' = {t \in hits : ~MoveRelated(t)'} \union free
  BY CombinePlaces
<1>5. \A t \in hits : /\ t \in Temps \ (Stacked \union coalescedNodes \union {u, v})
                      /\ t \in freezeWorklist \union spillWorklist
                      /\ t \in freezeWorklist => MoveRelated(t)'
                      /\ degree'[t] < K
  BY DroppedWait
<1>6. /\ \A n \in {u, v} : /\ n \notin simplifyWorklist \union Stacked \union coalescedNodes
                           /\ n \in Temps => n \in freezeWorklist \union spillWorklist
      /\ v \in Temps
  <2>1. \A n \in {u, v} : /\ n \notin simplifyWorklist \union Stacked
                          /\ n \in Temps => n \in freezeWorklist \union spillWorklist
    BY ConsideredEnds
  <2> QED
    BY <1>2, <2>1, NodeFacts DEF Considers
<1>7. \A n \in free : n = u /\ u \in Temps /\ ~MoveRelated(u)' /\ degree'[u] < K
  BY <1>2, NodeFacts DEF Released
<1>8. u \in Temps /\ u \notin free => MoveRelated(u)' \/ ~(degree'[u] < K)
  BY NodeFacts DEF Released
<1>9. /\ \A n \in Nodes : degree[n] \in Int /\ degree'[n] \in Int
      /\ \A n \in Nodes \ {u} :
           /\ degree[n] < K => degree'[n] < K
           /\ degree[n] >= K /\ n \notin hits => degree'[n] >= K
      /\ u \in Temps => degree'[u] >= degree[u]
      /\ \A r \in precolored : degree'[r] <= degree[r]
  BY CombineDegrees
<1>10. \A n \in Nodes \ (coalescedNodes \union {u, v}) : MoveRelated(n)' <=> MoveRelated(n)
  BY CombineMoves
<1>11. /\ freezeWorklist \subseteq Temps /\ spillWorklist \subseteq Temps
       /\ freezeWorklist \intersect (spillWorklist \union Stacked \union coalescedNodes) = {}
       /\ spillWorklist \intersect (Stacked \union coalescedNodes) = {}
       /\ Stacked \intersect coalescedNodes = {} /\ Stacked \subseteq Nodes
       /\ coalescedNodes \intersect precolored = {}
  BY NodeFacts, StackedAreNodes
    DEF Held, TypeOK, PlaceTypes, PlacesHeld, Apart, RegistersStay
<1>12. /\ \A n \in freezeWorklist : degree[n] < K /\ MoveRelated(n)
       /\ \A n \in spillWorklist : degree[n] >= K
  BY <1>2 DEF Held, WorklistInvariant
<1> HIDE DEF hits, free
(* u goes nowhere when it is a register, and where its degree says if not. *)
<1>13. /\ u \in precolored => free = {} /\ tooHigh = {}
       /\ u \in freezeWorklist =>
            \/ tooHigh = {u} /\ free = {} /\ degree'[u] >= K
            \/ tooHigh = {} /\ free = {u}
            \/ tooHigh = {} /\ free = {} /\ degree'[u] < K /\ MoveRelated(u)'
       /\ u \in spillWorklist => tooHigh = {} /\ free = {} /\ degree'[u] >= K
  <2>1. u \notin hits
    BY <1>5
  <2>2. u \in precolored => u \notin freezeWorklist /\ u \notin Temps
    BY <1>11, NodeFacts
  <2>3. degree'[u] \in Int /\ degree[u] \in Int /\ K \in Int
    BY <1>2, <1>9, NodeFacts
  <2>4. tooHigh \subseteq {u} /\ free \subseteq {u}
    BY <1>7
  <2>5. u \in tooHigh <=> u \in freezeWorklist /\ degree'[u] >= K
    BY <1>2, <2>1
  <2>6. u \in free => u \in Temps /\ ~MoveRelated(u)' /\ degree'[u] < K
    BY <1>7
  <2>7. u \in spillWorklist => degree'[u] >= K /\ u \notin freezeWorklist
    BY <1>9, <1>11, <1>12, <2>3
  <2> HIDE DEF tooHigh
  <2> QED
    BY <1>8, <1>11, <2>2, <2>3, <2>4, <2>5, <2>6, <2>7
<1>14. RegistersStay'
  <2>1. \A r \in precolored : degree'[r] <= 0
    <3>1. \A r \in precolored : r \in Nodes /\ degree[r] <= 0
      BY NodeFacts DEF Held, PlacesHeld, RegistersStay
    <3> QED
      BY <1>9, <3>1
  <2> QED
    BY <1>2, <1>4, <1>5, <1>11, <2>1, NodeFacts DEF RegistersStay
<1>15. /\ \A n \in simplifyWorklist' : n \in hits \/ n = u
       /\ simplifyWorklist' \intersect (Stacked \union coalescedNodes \union {v}) = {}
  BY <1>2, <1>4, <1>5, <1>6, <1>7
<1>16. Apart'
  <2>1. u \notin hits /\ tooHigh \subseteq freezeWorklist /\ tooHigh \subseteq {u}
    BY <1>2, <1>5
  <2>2. u \in free => u \in Temps /\ u \in freezeWorklist \union spillWorklist
    BY <1>6, <1>7
  <2>3. u \in free => u \notin spillWorklist /\ tooHigh = {}
    BY <1>13, <2>2
  <2>4. free \subseteq {u}
    BY <1>7
  <2>5. \A t \in hits : t \notin Stacked /\ t \notin coalescedNodes /\ t # v /\ t # u
    BY <1>5
  <2>6. /\ u \notin Stacked /\ u \notin coalescedNodes /\ v \notin Stacked
        /\ v \notin coalescedNodes
    BY <1>6
  <2> HIDE DEF tooHigh
  <2>7. simplifyWorklist' \intersect (freezeWorklist' \union spillWorklist') = {}
    <3>1. \A t \in hits : ~MoveRelated(t)' => t \notin freezeWorklist
      BY <1>5
    <3> QED
      BY <1>4, <2>1, <2>2, <2>3, <2>4, <2>5, <3>1
  <2>8. freezeWorklist' \intersect spillWorklist' = {}
    BY <1>4, <1>11, <2>1, <2>5
  <2>9. /\ freezeWorklist' \intersect (Stacked \union coalescedNodes \union {v}) = {}
        /\ spillWorklist' \intersect (Stacked \union coalescedNodes \union {v}) = {}
    BY <1>2, <1>4, <1>11, <2>1, <2>5
  <2> QED
    BY <1>2, <1>3, <1>11, <1>15, <2>6, <2>7, <2>8, <2>9 DEF Apart
<1>17. Covered'
  <2> SUFFICES ASSUME NEW n \in Temps, n \notin Stacked, n \notin coalescedNodes, n # v
               PROVE  n \in simplifyWorklist' \union freezeWorklist' \union spillWorklist'
    BY <1>2, <1>3 DEF Covered, OnWorklist
  <2>1. n \in freezeWorklist \union spillWorklist
    BY <1>2, NodeFacts DEF Held, PlacesHeld, Covered, OnWorklist
  <2>2. CASE n \in tooHigh \union free
    BY <1>4, <2>2
  <2>3. CASE n \in hits /\ n \notin tooHigh \union free
    BY <1>4, <2>3
  <2>4. CASE n \notin hits /\ n \notin tooHigh \union free
    BY <1>4, <2>1, <2>4
  <2> QED
    BY <2>2, <2>3, <2>4
<1>18. Quiet'
  <2>1. \A n \in Stacked : ~MoveRelated(n)'
    BY <1>6, <1>10, <1>11 DEF Held, PlacesHeld, Quiet
  <2> QED
    BY <1>3, <1>4, <1>7, <2>1 DEF Quiet
<1>19. InPhase'
  BY <1>2 DEF InPhase
<1>20. WorklistInvariant'
  <2>1. ASSUME NEW n \in simplifyWorklist' PROVE degree'[n] < K /\ ~MoveRelated(n)'
    BY <1>4, <1>5, <1>7
  <2>2. ASSUME NEW n \in freezeWorklist' PROVE degree'[n] < K /\ MoveRelated(n)'
    <3>1. CASE n \in hits
      BY <1>4, <1>5, <3>1
    <3>2. CASE n = u
      <4>1. u \in freezeWorklist /\ u \notin tooHigh /\ u \notin free
        BY <1>4, <1>5, <3>2
      <4> HIDE DEF tooHigh
      <4> QED
        BY <1>13, <3>2, <4>1
    <3>3. CASE n \notin hits /\ n # u
      <4>1. n \in freezeWorklist /\ n # v
        BY <1>4, <3>3
      <4>2. n \in Nodes \ (coalescedNodes \union {u, v})
        BY <1>11, <3>3, <4>1, NodeFacts
      <4> QED
        BY <1>9, <1>10, <1>12, <3>3, <4>1, <4>2
    <3> QED
      BY <3>1, <3>2, <3>3
  <2>3. ASSUME NEW n \in spillWorklist' PROVE degree'[n] >= K
    <3>1. CASE n \in tooHigh
      BY <3>1
    <3>2. CASE n \notin tooHigh /\ n = u
      <4>1. u \in spillWorklist
        BY <1>4, <3>2
      <4> QED
        BY <1>13, <3>2, <4>1
    <3>3. CASE n \notin tooHigh /\ n # u
      <4>1. n \in spillWorklist /\ n \notin hits
        BY <1>4, <3>3
      <4>2. n \in Nodes \ {u}
        BY <1>11, <3>3, <4>1, NodeFacts
      <4> QED
        BY <1>9, <1>12, <4>1, <4>2
    <3> QED
      BY <3>1, <3>2, <3>3
  <2> QED
    BY <2>1, <2>2, <2>3 DEF WorklistInvariant
<1> QED
  BY <1>1, <1>3, <1>14, <1>16, <1>17, <1>18, <1>19, <1>20 DEF Held, PlacesHeld

-------------------------------------------------------------------------------
LEMMA CoalesceHeld ==
  ASSUME Held, Coalesce
  PROVE  Held'
<1>1. PICK m, u, v : /\ Considers(m, u, v)
                     /\ \/ CoalesceSame(m, u, v)
                        \/ CoalesceConstrained(m, u, v)
                        \/ CoalesceCombine(m, u, v)
                        \/ CoalesceLater(m, u, v)
  BY CoalesceConsiders
<1>2. CASE CoalesceSame(m, u, v) \/ CoalesceConstrained(m, u, v)
  BY <1>1, <1>2, SettledHeld
<1>3. CASE CoalesceCombine(m, u, v)
  BY <1>1, <1>3, CombineHeld
<1>4. CASE CoalesceLater(m, u, v)
  BY <1>1, <1>4, LaterHeld
<1> QED
  BY <1>1, <1>2, <1>3, <1>4

LEMMA StutterHeld ==
  ASSUME Held, UNCHANGED vars
  PROVE  Held'
<1>1. TypeOK'
  BY StepTyped DEF Held
<1>2. GraphHeld' /\ MovePartition' /\ Stacked' = Stacked
  BY AliasUnchanged
    DEF Held, GraphHeld, GraphGrows, MovesListed, ActiveMovable, MovePartition,
        vars, graph, moveSets, Stacked
<1>3. PlacesHeld' /\ WorklistInvariant'
  BY <1>2
    DEF Held, PlacesHeld, RegistersStay, Apart, Covered, StackedOnce, Quiet,
        InPhase, OnWorklist, WorklistInvariant, MoveRelated, NodeMoves,
        vars, graph, moveSets, worklists, colors
<1> QED
  BY <1>1, <1>2, <1>3 DEF Held

LEMMA StepHeld ==
  ASSUME Held, [Next]_vars
  PROVE  Held'
<1>1. CASE MakeWorklist
  BY <1>1, MakeWorklistHeld
<1>2. CASE \E n \in Nodes : Simplify(n) \/ Freeze(n) \/ SelectSpill(n) \/ AssignColor(n)
  BY <1>2, SimplifyHeld, FreezeOrSelectHeld, AssignColorHeld
<1>3. CASE Coalesce
  BY <1>3, CoalesceHeld
<1>4. CASE LeaveLoop
  BY <1>4, LeaveLoopHeld
<1>5. CASE ColorCoalesced
  BY <1>5, ColorCoalescedHeld
<1>6. CASE UNCHANGED vars
  BY <1>6, StutterHeld
<1> QED
  BY <1>1, <1>2, <1>3, <1>4, <1>5, <1>6 DEF Next, Terminating

(* The inductive invariant of a round.                                     *)
THEOREM HeldAlways == Spec => []Held
BY InitHeld, StepHeld, PTL DEF Spec

(* simplifyWorklist, freezeWorklist and spillWorklist hold the nodes the   *)
(* comment above checkInvariant says they hold, at every return to the     *)
(* head of the main loop.                                                  *)
THEOREM WorklistsAsStated == Spec => []WorklistInvariant
<1>1. Held => WorklistInvariant
  BY DEF Held
<1> QED
  BY <1>1, HeldAlways, PTL

-------------------------------------------------------------------------------
LEMMA OneSpot ==
  ASSUME Held, phase # "make", NEW n \in Temps
  PROVE  Cardinality({i \in DOMAIN Places : n \in Places[i]}) = 1
<1> DEFINE P == Places
           S == {i \in 1 .. 7 : n \in P[i]}
<1>1. DOMAIN Places = 1 .. 7
  BY DEF Places
<1>2. /\ P[1] = simplifyWorklist /\ P[2] = freezeWorklist /\ P[3] = spillWorklist
      /\ P[4] = Stacked /\ P[5] = coalescedNodes /\ P[6] = coloredNodes
      /\ P[7] = spilledNodes
  BY DEF Places
<1> HIDE DEF P
<1>3. \E i : S = {i}
  <2>1. \A i \in 1 .. 7 : i = 1 \/ i = 2 \/ i = 3 \/ i = 4 \/ i = 5 \/ i = 6 \/ i = 7
    OBVIOUS
  <2>2. CASE n \in simplifyWorklist
    <3>1. S = {1}
      BY <1>2, <2>1, <2>2 DEF Held, PlacesHeld, Apart
    <3> QED
      BY <3>1
  <2>3. CASE n \in freezeWorklist
    <3>1. S = {2}
      BY <1>2, <2>1, <2>3 DEF Held, PlacesHeld, Apart
    <3> QED
      BY <3>1
  <2>4. CASE n \in spillWorklist
    <3>1. S = {3}
      BY <1>2, <2>1, <2>4 DEF Held, PlacesHeld, Apart
    <3> QED
      BY <3>1
  <2>5. CASE n \in Stacked
    <3>1. S = {4}
      BY <1>2, <2>1, <2>5 DEF Held, PlacesHeld, Apart
    <3> QED
      BY <3>1
  <2>6. CASE n \in coalescedNodes
    <3>1. S = {5}
      BY <1>2, <2>1, <2>6 DEF Held, PlacesHeld, Apart
    <3> QED
      BY <3>1
  <2>7. CASE n \in coloredNodes
    <3>1. S = {6}
      BY <1>2, <2>1, <2>7 DEF Held, PlacesHeld, Apart
    <3> QED
      BY <3>1
  <2>8. CASE n \in spilledNodes
    <3>1. S = {7}
      BY <1>2, <2>1, <2>8 DEF Held, PlacesHeld, Apart
    <3> QED
      BY <3>1
  <2> QED
    BY <2>2, <2>3, <2>4, <2>5, <2>6, <2>7, <2>8
      DEF Held, PlacesHeld, Covered, OnWorklist
<1>4. Cardinality(S) = 1
  BY <1>3, FS_Singleton
<1> QED
  BY <1>1, <1>4 DEF P

LEMMA StackCounts ==
  ASSUME TypeOK, StackedOnce
  PROVE  Cardinality(Stacked) = Len(selectStack)
<1> DEFINE L == Len(selectStack)
           f == [i \in 1 .. L |-> selectStack[i]]
<1>1. L \in Nat
  BY DEF TypeOK, PlaceTypes
<1>2. f \in Bijection(1 .. L, Stacked)
  BY DEF Stacked, StackedOnce, Bijection, Injection, Surjection, IsInjective
<1>3. IsFiniteSet(1 .. L) /\ Cardinality(1 .. L) = L
  BY <1>1, UpTo
<1> QED
  BY <1>2, <1>3, FS_Bijection DEF ExistsBijection

(* Every temporary is in exactly one of the seven places from the moment   *)
(* MakeWorklist has distributed them, and never twice on the stack: none   *)
(* is forgotten by the coloring and none is colored twice.                 *)
THEOREM EveryTempInOnePlace == Spec => []OnePlacePerTemp
<1>1. Held => OnePlacePerTemp
  BY OneSpot, StackCounts DEF OnePlacePerTemp, Held, PlacesHeld
<1> QED
  BY <1>1, HeldAlways, PTL

-------------------------------------------------------------------------------
(* A move that counts as coalesced joins two names of one node.            *)
MergedMoves == \A m \in coalescedMoves : GetAlias(Src(m)) = GetAlias(Dst(m))

(* When all is done a node has the colour of the node it stands for.       *)
ColorsFollow == phase = "done" => \A n \in Nodes : color[n] = color[GetAlias(n)]

LEMMA MergedMovesKept ==
  ASSUME Held, MergedMoves, [Next]_vars
  PROVE  MergedMoves'
<1>1. CASE /\ coalescedNodes' = coalescedNodes /\ alias' = alias /\ input' = input
           /\ coalescedMoves' = coalescedMoves
  BY <1>1, AliasUnchanged DEF MergedMoves, Src, Dst
<1>2. CASE Coalesce
  <2>1. PICK m, u, v : /\ Considers(m, u, v)
                       /\ \/ CoalesceSame(m, u, v)
                          \/ CoalesceConstrained(m, u, v)
                          \/ CoalesceCombine(m, u, v)
                          \/ CoalesceLater(m, u, v)
    BY <1>2, CoalesceConsiders
  <2>2. input' = input /\ \A a : Src(a)' = Src(a) /\ Dst(a)' = Dst(a)
    BY <1>2 DEF Coalesce, Src, Dst
  <2>3. CASE CoalesceSame(m, u, v)
    <3>1. /\ coalescedNodes' = coalescedNodes /\ alias' = alias
          /\ coalescedMoves' = coalescedMoves \union {m}
      BY <2>3 DEF CoalesceSame, graph
    <3>2. GetAlias(Src(m)) = GetAlias(Dst(m))
      BY <2>1, <2>3 DEF CoalesceSame, Considers, Reps
    <3>3. \A a : GetAlias(Src(a))' = GetAlias(Src(a)) /\ GetAlias(Dst(a))' = GetAlias(Dst(a))
      BY <2>2, <3>1, AliasUnchanged
    <3> QED
      BY <3>1, <3>2, <3>3 DEF MergedMoves
  <2>4. CASE CoalesceCombine(m, u, v)
    <3>1. \A n \in Nodes : GetAlias(n)' = IF GetAlias(n) = v THEN u ELSE GetAlias(n)
      BY <1>2, <2>1, <2>4, CombineAliases
    <3>2. coalescedMoves' = coalescedMoves \union {m}
      BY <1>2, <2>1, <2>4, CombineMoves
    <3>3. \A a \in coalescedMoves' : Src(a) \in Nodes /\ Dst(a) \in Nodes
      BY <2>1, <3>2 DEF Src, Dst, Held, TypeOK, Input, MoveTypes, Considers
    <3>4. \A a \in coalescedMoves' :
            /\ GetAlias(Src(a))' = IF GetAlias(Src(a)) = v THEN u ELSE GetAlias(Src(a))
            /\ GetAlias(Dst(a))' = IF GetAlias(Dst(a)) = v THEN u ELSE GetAlias(Dst(a))
      BY <2>2, <3>1, <3>3
    <3>5. Reps(m) = {u, v}
      BY <2>1 DEF Considers
    <3>6. GetAlias(Src(m)) \in {u, v} /\ GetAlias(Dst(m)) \in {u, v}
      BY <3>5 DEF Reps
    <3> QED
      BY <3>2, <3>4, <3>6 DEF MergedMoves
  <2>5. CASE CoalesceConstrained(m, u, v) \/ CoalesceLater(m, u, v)
    BY <1>1, <2>2, <2>5 DEF CoalesceConstrained, CoalesceLater, graph
  <2> QED
    BY <2>1, <2>3, <2>4, <2>5
<1>3. CASE \E n \in Nodes : Simplify(n)
  BY <1>1, <1>3 DEF Simplify
<1>4. CASE \E n \in Nodes : Freeze(n) \/ SelectSpill(n) \/ AssignColor(n)
  BY <1>1, <1>4 DEF Freeze, SelectSpill, AssignColor, graph, moveSets
<1>5. CASE MakeWorklist \/ LeaveLoop \/ ColorCoalesced \/ UNCHANGED vars
  BY <1>1, <1>5 DEF MakeWorklist, LeaveLoop, ColorCoalesced, vars, graph, moveSets
<1> QED
  BY <1>2, <1>3, <1>4, <1>5 DEF Next, Terminating

LEMMA ColorsFollowKept ==
  ASSUME Held, ColorsFollow, [Next]_vars
  PROVE  ColorsFollow'
<1>1. CASE ColorCoalesced
  <2>1. /\ color' = [n \in Nodes |-> IF n \in coalescedNodes THEN color[GetAlias(n)]
                                                             ELSE color[n]]
        /\ coalescedNodes' = coalescedNodes /\ alias' = alias
    BY <1>1 DEF ColorCoalesced, graph
  <2>2. \A n \in Nodes : /\ GetAlias(n) \in Nodes \ coalescedNodes
                         /\ n \notin coalescedNodes => GetAlias(n) = n
                         /\ GetAlias(n)' = GetAlias(n)
    BY <2>1, GetAliasFacts, AliasUnchanged DEF Held, GraphHeld
  <2>3. \A n \in Nodes : color'[n] = color[GetAlias(n)] /\ color'[GetAlias(n)] = color[GetAlias(n)]
    BY <2>1, <2>2
  <2> QED
    BY <2>2, <2>3 DEF ColorsFollow
<1>2. CASE UNCHANGED vars
  BY <1>2, AliasUnchanged DEF ColorsFollow, vars, graph, colors
<1>3. CASE phase' # "done"
  BY <1>3 DEF ColorsFollow
<1>4. CASE MakeWorklist \/ LeaveLoop \/ Coalesce
            \/ \E n \in Nodes : Simplify(n) \/ Freeze(n) \/ SelectSpill(n) \/ AssignColor(n)
  BY <1>3, <1>4 DEF MakeWorklist, LeaveLoop, Coalesce, Simplify, Freeze, SelectSpill, AssignColor
<1> QED
  BY <1>1, <1>2, <1>4 DEF Next, Terminating

(* When the main loop ends no move is undecided, and in the end the two    *)
(* ends of a move that was coalesced have one register: the move can go.   *)
THEOREM MovesAllSettled == Spec => []MovesSettled
<1>1. Init => MergedMoves /\ ColorsFollow
  BY DEF Init, MergedMoves, ColorsFollow
<1>2. Held /\ MergedMoves /\ ColorsFollow /\ [Next]_vars => MergedMoves' /\ ColorsFollow'
  BY MergedMovesKept, ColorsFollowKept
<1>3. Held /\ MergedMoves /\ ColorsFollow => MovesSettled
  <2> SUFFICES ASSUME Held, MergedMoves, ColorsFollow PROVE MovesSettled
    OBVIOUS
  <2>1. phase \in {"assign", "done"} => worklistMoves = {} /\ activeMoves = {}
    BY DEF Held, PlacesHeld, InPhase
  <2>2. ASSUME phase = "done", NEW m \in coalescedMoves PROVE color[Src(m)] = color[Dst(m)]
    <3>1. Src(m) \in Nodes /\ Dst(m) \in Nodes
      BY DEF Src, Dst, Held, TypeOK, Input, MoveTypes
    <3> QED
      BY <2>2, <3>1 DEF MergedMoves, ColorsFollow
  <2> QED
    BY <2>1, <2>2 DEF MovesSettled
<1> QED
  BY <1>1, <1>2, <1>3, HeldAlways, PTL DEF Spec

-------------------------------------------------------------------------------
(***************************************************************************)
(* Why the coloring is right.  Combine gives the edges of v to u only at   *)
(* the neighbours that are still in the graph, so adjSet is not what a     *)
(* merged graph would be; Joined says what is left of it: an edge between  *)
(* two nodes is one between the nodes they stand for until one of these is *)
(* put on the stack, and the one that is coloured later still sees the     *)
(* other.  The rest follows: the degrees are those of the graph that is    *)
(* left, a node that was not selected finds a colour, and no two nodes of  *)
(* one edge find the same.                                                 *)
(***************************************************************************)

(* The node that each node stands for.                                     *)
Rep == [n \in Nodes |-> GetAlias(n)]

(* What is under the top of the stack, down from the i-th place.           *)
Below(i) == {selectStack[j] : j \in 1 .. i}

ClassesApart == \A a, b \in Nodes : <<a, b>> \in adjSet => Rep[a] # Rep[b]

RepsJoined ==
  phase \in {"make", "loop"} =>
    \A a, b \in Nodes :
      <<a, b>> \in adjSet /\ Rep[a] \notin Stacked /\ Rep[b] \notin Stacked
        => <<Rep[a], Rep[b]>> \in adjSet

NodesJoined ==
  phase \in {"make", "loop"} =>
    \A a \in Nodes \ (Stacked \union coalescedNodes), b \in Nodes :
      <<a, b>> \in adjSet => <<a, Rep[b]>> \in adjSet

StackJoined ==
  \A i \in 1 .. Len(selectStack) : \A a, b \in Nodes :
    <<a, b>> \in adjSet /\ Rep[a] = selectStack[i] /\ Rep[b] \notin Below(i)
      => \E c \in Nodes : <<selectStack[i], c>> \in adjSet /\ Rep[c] = Rep[b]

Joined == ClassesApart /\ RepsJoined /\ NodesJoined /\ StackJoined

-------------------------------------------------------------------------------
LEMMA RepFacts ==
  ASSUME Held
  PROVE  \A n \in Nodes : /\ Rep[n] \in Nodes \ coalescedNodes
                          /\ n \notin coalescedNodes => Rep[n] = n
                          /\ Rep[Rep[n]] = Rep[n]
                          /\ Rep[n] = GetAlias(n)
BY GetAliasFacts DEF Rep, Held, GraphHeld

LEMMA RepUnchanged ==
  ASSUME coalescedNodes' = coalescedNodes, alias' = alias
  PROVE  Rep' = Rep
BY AliasUnchanged DEF Rep

LEMMA Edges ==
  ASSUME Held
  PROVE  /\ \A a, b : <<a, b>> \in adjSet =>
              a \in Nodes /\ b \in Nodes /\ a # b /\ <<b, a>> \in adjSet
         /\ \A n \in Temps : adjList(n) = {w \in Nodes : <<n, w>> \in adjSet}
<1>1. /\ adjSet \subseteq Nodes \X Nodes
      /\ \A e \in adjSet : e[1] # e[2] /\ <<e[2], e[1]>> \in adjSet
  BY DEF Held, GraphHeld, GraphGrows, Graphs
<1>2. \A a, b : <<a, b>> \in adjSet =>
        a \in Nodes /\ b \in Nodes /\ a # b /\ <<b, a>> \in adjSet
  BY <1>1
<1>3. \A n \in Temps : adjList(n) = {w \in Nodes : <<n, w>> \in adjSet}
  BY NodeFacts DEF adjList
<1> QED
  BY <1>2, <1>3

(* Combine, as far as edges and representatives go.                        *)
LEMMA CombineEdges ==
  ASSUME Held, Coalesce, NEW m, NEW u, NEW v, Considers(m, u, v),
         CoalesceCombine(m, u, v)
  PROVE  /\ u \in Nodes /\ v \in Temps /\ v \in Nodes /\ u # v /\ <<u, v>> \notin adjSet
         /\ u \notin Stacked /\ u \notin coalescedNodes
         /\ v \notin Stacked /\ v \notin coalescedNodes
         /\ \A n \in Nodes : Rep'[n] = IF Rep[n] = v THEN u ELSE Rep[n]
         /\ \A t : t \in Adjacent(v) <=>
              t \in Nodes /\ <<v, t>> \in adjSet /\ t \notin Stacked /\ t \notin coalescedNodes
         /\ \A t : t \in Gained(u, v) <=> t \in Adjacent(v) /\ <<t, u>> \notin adjSet
         /\ \A a, b : <<a, b>> \in adjSet' <=> \/ <<a, b>> \in adjSet
                                               \/ a \in Gained(u, v) /\ b = u
                                               \/ a = u /\ b \in Gained(u, v)
         /\ Stacked' = Stacked /\ selectStack' = selectStack
         /\ coalescedNodes' = coalescedNodes \union {v}
         /\ phase = "loop" /\ phase' = "loop"
<1>1. /\ u \in Nodes /\ v \in Nodes /\ v \notin precolored
      /\ u \notin coalescedNodes /\ v \notin coalescedNodes
      /\ u # v /\ <<u, v>> \notin adjSet /\ selectStack' = selectStack
      /\ coalescedNodes' = coalescedNodes \union {v}
      /\ phase = "loop" /\ phase' = "loop"
      /\ adjSet' = adjSet \union {<<t, u>> : t \in Gained(u, v)}
                          \union {<<u, t>> : t \in Gained(u, v)}
  BY CombineFacts DEF Considers
<1>2. u \notin Stacked /\ v \notin Stacked
  BY ConsideredEnds
<1>3. \A n \in Nodes : Rep'[n] = IF Rep[n] = v THEN u ELSE Rep[n]
  BY CombineAliases DEF Rep
<1>4. v \in Temps
  BY <1>1, NodeFacts
<1>5. \A t : t \in Adjacent(v) <=>
        t \in Nodes /\ <<v, t>> \in adjSet /\ t \notin Stacked /\ t \notin coalescedNodes
  BY <1>4, Edges DEF Adjacent
<1>6. \A t : t \in Gained(u, v) <=> t \in Adjacent(v) /\ <<t, u>> \notin adjSet
  BY DEF Gained
<1>7. \A a, b : <<a, b>> \in adjSet' <=> \/ <<a, b>> \in adjSet
                                         \/ a \in Gained(u, v) /\ b = u
                                         \/ a = u /\ b \in Gained(u, v)
  <2> DEFINE G == Gained(u, v)
  <2> HIDE DEF G
  <2>1. adjSet' = adjSet \union {<<t, u>> : t \in G} \union {<<u, t>> : t \in G}
    BY <1>1 DEF G
  <2>2. \A a, b : <<a, b>> \in adjSet' <=> \/ <<a, b>> \in adjSet
                                           \/ a \in G /\ b = u
                                           \/ a = u /\ b \in G
    BY <2>1
  <2> QED
    BY <2>2 DEF G
<1>8. Stacked' = Stacked
  BY <1>1 DEF Stacked
<1> QED
  BY <1>1, <1>2, <1>3, <1>4, <1>5, <1>6, <1>7, <1>8

LEMMA CombineJoined ==
  ASSUME Held, Joined, Coalesce, NEW m, NEW u, NEW v, Considers(m, u, v),
         CoalesceCombine(m, u, v)
  PROVE  Joined'
<1> DEFINE G == Gained(u, v)
<1> HIDE DEF G
<1>1. /\ u \in Nodes /\ v \in Nodes /\ u # v /\ <<u, v>> \notin adjSet
      /\ u \notin Stacked /\ u \notin coalescedNodes
      /\ v \notin Stacked /\ v \notin coalescedNodes
      /\ Stacked' = Stacked /\ selectStack' = selectStack
      /\ coalescedNodes' = coalescedNodes \union {v}
      /\ phase = "loop" /\ phase' = "loop"
  BY CombineEdges
<1>2. \A n \in Nodes : Rep'[n] = IF Rep[n] = v THEN u ELSE Rep[n]
  BY CombineEdges
<1>3. \A t : t \in G <=> /\ t \in Nodes /\ <<v, t>> \in adjSet
                         /\ t \notin Stacked /\ t \notin coalescedNodes
                         /\ <<t, u>> \notin adjSet
  <2>1. \A t : t \in Adjacent(v) <=>
          t \in Nodes /\ <<v, t>> \in adjSet /\ t \notin Stacked /\ t \notin coalescedNodes
    BY CombineEdges
  <2>2. \A t : t \in Gained(u, v) <=> t \in Adjacent(v) /\ <<t, u>> \notin adjSet
    BY CombineEdges
  <2> QED
    BY <2>1, <2>2 DEF G
<1>4. \A a, b : <<a, b>> \in adjSet' <=> \/ <<a, b>> \in adjSet
                                         \/ a \in G /\ b = u
                                         \/ a = u /\ b \in G
  BY CombineEdges DEF G
<1>5. \A a, b : <<a, b>> \in adjSet =>
        a \in Nodes /\ b \in Nodes /\ a # b /\ <<b, a>> \in adjSet
  BY Edges
<1>6. \A n \in Nodes : /\ Rep[n] \in Nodes /\ Rep[n] \notin coalescedNodes
                       /\ n \notin coalescedNodes => Rep[n] = n
  BY RepFacts
<1>7. \A t \in G : t \in Nodes /\ t # u /\ t # v /\ Rep'[t] = t
  BY <1>1, <1>2, <1>3, <1>5, <1>6
<1>8. Rep'[u] = u
  BY <1>1, <1>2, <1>6
<1>9. /\ \A a, b \in Nodes : <<a, b>> \in adjSet => Rep[a] # Rep[b]
      /\ \A a, b \in Nodes :
           <<a, b>> \in adjSet /\ Rep[a] \notin Stacked /\ Rep[b] \notin Stacked
             => <<Rep[a], Rep[b]>> \in adjSet
      /\ \A a \in Nodes \ (Stacked \union coalescedNodes), b \in Nodes :
           <<a, b>> \in adjSet => <<a, Rep[b]>> \in adjSet
  BY <1>1 DEF Joined, ClassesApart, RepsJoined, NodesJoined
(* Neither is on the stack: were a node of u joined to one of v, then u    *)
(* would be joined to v.                                                   *)
<1>10. ClassesApart'
  <2> SUFFICES ASSUME NEW a \in Nodes, NEW b \in Nodes, <<a, b>> \in adjSet'
               PROVE  Rep'[a] # Rep'[b]
    BY DEF ClassesApart
  <2>1. CASE <<a, b>> \in adjSet
    <3>1. ~(Rep[a] = u /\ Rep[b] = v) /\ ~(Rep[a] = v /\ Rep[b] = u)
      <4>1. Rep[a] \notin Stacked /\ Rep[b] \notin Stacked => <<Rep[a], Rep[b]>> \in adjSet
        BY <1>9, <2>1
      <4>2. <<v, u>> \notin adjSet
        BY <1>1, <1>5
      <4> QED
        BY <1>1, <4>1, <4>2
    <3> QED
      BY <1>2, <1>9, <2>1, <3>1
  <2>2. CASE <<a, b>> \notin adjSet
    BY <1>4, <1>7, <1>8, <2>2
  <2> QED
    BY <2>1, <2>2
<1>11. RepsJoined'
  <2> SUFFICES ASSUME NEW a \in Nodes, NEW b \in Nodes, <<a, b>> \in adjSet',
                      Rep'[a] \notin Stacked, Rep'[b] \notin Stacked
               PROVE  <<Rep'[a], Rep'[b]>> \in adjSet'
    BY <1>1 DEF RepsJoined
  <2>1. CASE <<a, b>> \in adjSet
    <3> DEFINE x == Rep[a]
               y == Rep[b]
    <3>1. /\ x \notin Stacked /\ y \notin Stacked /\ x \in Nodes /\ y \in Nodes
          /\ x \notin coalescedNodes /\ y \notin coalescedNodes
      BY <1>1, <1>2, <1>6
    <3>2. <<x, y>> \in adjSet /\ <<y, x>> \in adjSet /\ x # y
      BY <1>5, <1>9, <2>1, <3>1
    <3>3. Rep'[a] = (IF x = v THEN u ELSE x) /\ Rep'[b] = (IF y = v THEN u ELSE y)
      BY <1>2
    <3> HIDE DEF x, y
    <3>4. CASE x = v
      <4>1. y \in G \/ <<y, u>> \in adjSet
        BY <1>3, <3>1, <3>2, <3>4
      <4>2. y # v
        BY <3>2, <3>4
      <4> QED
        BY <1>4, <1>5, <3>3, <3>4, <4>1, <4>2
    <3>5. CASE y = v
      <4>1. x \in G \/ <<x, u>> \in adjSet
        BY <1>3, <3>1, <3>2, <3>5
      <4>2. x # v
        BY <3>2, <3>5
      <4> QED
        BY <1>4, <1>5, <3>3, <3>5, <4>1, <4>2
    <3>6. CASE x # v /\ y # v
      BY <1>4, <3>2, <3>3, <3>6
    <3> QED
      BY <3>4, <3>5, <3>6
  <2>2. CASE <<a, b>> \notin adjSet
    BY <1>4, <1>7, <1>8, <2>2
  <2> QED
    BY <2>1, <2>2
<1>12. NodesJoined'
  <2> SUFFICES ASSUME NEW a \in Nodes \ (Stacked \union coalescedNodes), a # v,
                      NEW b \in Nodes, <<a, b>> \in adjSet'
               PROVE  <<a, Rep'[b]>> \in adjSet'
    BY <1>1 DEF NodesJoined
  <2>1. CASE <<a, b>> \in adjSet
    <3>1. <<a, Rep[b]>> \in adjSet
      BY <1>9, <2>1
    <3>2. CASE Rep[b] = v
      <4>1. <<v, a>> \in adjSet
        BY <1>5, <3>1, <3>2
      <4>2. a \in G \/ <<a, u>> \in adjSet
        BY <1>3, <4>1
      <4> QED
        BY <1>2, <1>4, <3>2, <4>2
    <3>3. CASE Rep[b] # v
      BY <1>2, <1>4, <3>1, <3>3
    <3> QED
      BY <3>2, <3>3
  <2>2. CASE <<a, b>> \notin adjSet
    BY <1>4, <1>7, <1>8, <2>2
  <2> QED
    BY <2>1, <2>2
<1>13. StackJoined'
  <2> SUFFICES ASSUME NEW i \in 1 .. Len(selectStack), NEW a \in Nodes, NEW b \in Nodes,
                      <<a, b>> \in adjSet', Rep'[a] = selectStack[i], Rep'[b] \notin Below(i)
               PROVE  \E c \in Nodes : <<selectStack[i], c>> \in adjSet' /\ Rep'[c] = Rep'[b]
    BY <1>1 DEF StackJoined, Below
  <2>1. selectStack[i] \in Stacked /\ Below(i) \subseteq Stacked
    BY DEF Stacked, Below, Held, TypeOK, PlaceTypes
  <2>2. Rep[a] = selectStack[i]
    BY <1>1, <1>2, <2>1
  <2>3. <<a, b>> \in adjSet
    BY <1>1, <1>3, <1>4, <1>7, <1>8, <2>1
  <2>4. Rep[b] \notin Below(i)
    BY <1>1, <1>2, <2>1
  <2>5. PICK c \in Nodes : <<selectStack[i], c>> \in adjSet /\ Rep[c] = Rep[b]
    BY <2>2, <2>3, <2>4 DEF Joined, StackJoined
  <2> QED
    BY <1>2, <1>4, <2>5
<1> QED
  BY <1>10, <1>11, <1>12, <1>13 DEF Joined

(* Pushing a node: it sees what is not on the stack yet.                   *)
LEMMA PushJoined ==
  ASSUME Held, Joined, NEW n \in Nodes, Simplify(n)
  PROVE  Joined'
<1>1. /\ phase = "loop" /\ phase' = "loop" /\ adjSet' = adjSet /\ Rep' = Rep
      /\ coalescedNodes' = coalescedNodes
      /\ selectStack' = Append(selectStack, n) /\ n \in simplifyWorklist
  BY RepUnchanged DEF Simplify, IsLast
<1>2. n \notin Stacked /\ n \notin coalescedNodes
  BY <1>1 DEF Held, PlacesHeld, Apart
<1>3. Stacked' = Stacked \union {n}
  BY <1>1, <1>2, StackPush DEF Held
<1>4. \A k \in Nodes : Rep[k] \in Nodes /\ Rep[Rep[k]] = Rep[k]
  BY RepFacts
<1> DEFINE L == Len(selectStack)
<1>5. /\ L \in Nat /\ Len(selectStack') = L + 1 /\ selectStack'[L + 1] = n
      /\ \A i \in 1 .. L : selectStack'[i] = selectStack[i]
  BY <1>1 DEF Held, TypeOK, PlaceTypes
<1>6. ClassesApart' /\ RepsJoined' /\ NodesJoined'
  BY <1>1, <1>3 DEF Joined, ClassesApart, RepsJoined, NodesJoined
<1>7. StackJoined'
  <2> HIDE DEF L
  <2> SUFFICES ASSUME NEW i \in 1 .. Len(selectStack'), NEW a \in Nodes, NEW b \in Nodes,
                      <<a, b>> \in adjSet', Rep'[a] = selectStack'[i], Rep'[b] \notin Below(i)'
               PROVE  \E c \in Nodes : <<selectStack'[i], c>> \in adjSet' /\ Rep'[c] = Rep'[b]
    BY DEF StackJoined
  <2>0. /\ <<a, b>> \in adjSet /\ Rep[a] = selectStack'[i] /\ Rep[b] \notin Below(i)'
        /\ i = L + 1 \/ i \in 1 .. L
    BY <1>1, <1>5
  <2>1. CASE i = L + 1
    <3>1. Below(i)' = Stacked'
      BY <1>5, <2>1 DEF Below, Stacked
    <3>2. Rep[a] = n /\ Rep[b] \notin Stacked
      BY <1>3, <1>5, <2>0, <2>1, <3>1
    <3>3. <<n, Rep[b]>> \in adjSet
      BY <1>1, <1>2, <2>0, <3>2 DEF Joined, RepsJoined
    <3>4. selectStack'[i] = n
      BY <1>5, <2>1
    <3> QED
      BY <1>1, <1>4, <3>3, <3>4
  <2>2. CASE i \in 1 .. L
    <3>1. selectStack'[i] = selectStack[i]
      BY <1>5, <2>2
    <3>2. \A j \in 1 .. i : selectStack'[j] = selectStack[j]
      BY <1>5, <2>2
    <3>3. Below(i)' = Below(i)
      BY <3>2 DEF Below
    <3>4. \E c \in Nodes : <<selectStack[i], c>> \in adjSet /\ Rep[c] = Rep[b]
      <4>1. i \in 1 .. Len(selectStack) /\ Rep[a] = selectStack[i]
        BY <2>0, <2>2, <3>1 DEF L
      <4>2. Rep[b] \notin Below(i)
        BY <2>0, <3>3
      <4> QED
        BY <2>0, <4>1, <4>2, Zenon DEF Joined, StackJoined
    <3> QED
      BY <1>1, <3>1, <3>4
  <2> QED
    BY <2>0, <2>1, <2>2
<1> QED
  BY <1>6, <1>7 DEF Joined

(* Popping one: those below it stay as they were.                          *)
LEMMA PopJoined ==
  ASSUME Held, Joined, NEW n \in Nodes, AssignColor(n)
  PROVE  Joined'
<1>1. /\ phase = "assign" /\ phase' = "assign" /\ adjSet' = adjSet /\ Rep' = Rep
      /\ selectStack' = SubSeq(selectStack, 1, Len(selectStack) - 1)
      /\ selectStack # <<>>
  BY RepUnchanged DEF AssignColor, graph
<1>2. /\ Len(selectStack) \in Nat \ {0} /\ Len(selectStack') = Len(selectStack) - 1
      /\ \A i \in 1 .. Len(selectStack) - 1 : selectStack'[i] = selectStack[i]
  BY <1>1, PopKeeps DEF Held
<1>3. ClassesApart' /\ RepsJoined' /\ NodesJoined'
  BY <1>1 DEF Joined, ClassesApart, RepsJoined, NodesJoined
<1>4. ASSUME NEW i \in 1 .. Len(selectStack')
      PROVE  /\ i \in 1 .. Len(selectStack) /\ selectStack'[i] = selectStack[i]
             /\ Below(i)' = Below(i)
  <2>1. i \in 1 .. Len(selectStack) /\ \A j \in 1 .. i : selectStack'[j] = selectStack[j]
    BY <1>2
  <2> QED
    BY <2>1, <1>2 DEF Below
<1>5. StackJoined'
  <2> SUFFICES ASSUME NEW i \in 1 .. Len(selectStack'), NEW a \in Nodes, NEW b \in Nodes,
                      <<a, b>> \in adjSet', Rep'[a] = selectStack'[i], Rep'[b] \notin Below(i)'
               PROVE  \E c \in Nodes : <<selectStack'[i], c>> \in adjSet' /\ Rep'[c] = Rep'[b]
    BY DEF StackJoined
  <2>0. i \in 1 .. Len(selectStack) /\ selectStack'[i] = selectStack[i] /\ Below(i)' = Below(i)
    BY <1>4
  <2>1. \E c \in Nodes : <<selectStack[i], c>> \in adjSet /\ Rep[c] = Rep[b]
    <3>1. <<a, b>> \in adjSet /\ Rep[a] = selectStack[i] /\ Rep[b] \notin Below(i)
      BY <1>1, <2>0
    <3> QED
      BY <2>0, <3>1 DEF Joined, StackJoined
  <2> QED
    BY <1>1, <1>4, <2>1
<1> QED
  BY <1>3, <1>5 DEF Joined

LEMMA SameJoined ==
  ASSUME Joined, coalescedNodes' = coalescedNodes, alias' = alias, adjSet' = adjSet,
         selectStack' = selectStack, phase' \in {"make", "loop"} => phase \in {"make", "loop"}
  PROVE  Joined'
<1>1. Rep' = Rep /\ Stacked' = Stacked /\ \A i : Below(i)' = Below(i)
  BY RepUnchanged DEF Stacked, Below
<1> QED
  BY <1>1 DEF Joined, ClassesApart, RepsJoined, NodesJoined, StackJoined

LEMMA InitJoined == Init => Joined
<1> SUFFICES ASSUME Init PROVE Joined
  OBVIOUS
<1>1. Held
  BY InitHeld
<1>2. \A n \in Nodes : Rep[n] = n
  BY <1>1, RepFacts DEF Init
<1>3. ClassesApart
  BY <1>1, <1>2, Edges DEF ClassesApart
<1> QED
  BY <1>2, <1>3 DEF Init, Joined, RepsJoined, NodesJoined, StackJoined

LEMMA StepJoined ==
  ASSUME Held, Joined, [Next]_vars
  PROVE  Joined'
<1>1. CASE \E n \in Nodes : Simplify(n)
  BY <1>1, PushJoined
<1>2. CASE \E n \in Nodes : AssignColor(n)
  BY <1>2, PopJoined
<1>3. CASE \E n \in Nodes : Freeze(n) \/ SelectSpill(n)
  BY <1>3, SameJoined DEF Freeze, SelectSpill, graph
<1>4. CASE Coalesce
  <2>1. PICK m, u, v : /\ Considers(m, u, v)
                       /\ \/ CoalesceSame(m, u, v)
                          \/ CoalesceConstrained(m, u, v)
                          \/ CoalesceCombine(m, u, v)
                          \/ CoalesceLater(m, u, v)
    BY <1>4, CoalesceConsiders
  <2>2. CASE CoalesceCombine(m, u, v)
    BY <1>4, <2>1, <2>2, CombineJoined
  <2>3. CASE ~CoalesceCombine(m, u, v)
    BY <1>4, <2>1, <2>3, SameJoined
      DEF Coalesce, CoalesceSame, CoalesceConstrained, CoalesceLater, graph
  <2> QED
    BY <2>2, <2>3
<1>5. CASE MakeWorklist \/ LeaveLoop \/ ColorCoalesced \/ UNCHANGED vars
  BY <1>5, SameJoined DEF MakeWorklist, LeaveLoop, ColorCoalesced, vars, graph
<1> QED
  BY <1>1, <1>2, <1>3, <1>4, <1>5 DEF Next, Terminating

(* Coalescing loses no interference that is still to be coloured.          *)
THEOREM JoinedAlways == Spec => []Joined
BY InitJoined, StepJoined, HeldAlways, PTL DEF Spec

-------------------------------------------------------------------------------
(* Who has a colour; a register that is not coloured like a temporary      *)
(* keeps its own; and while no register is, joined classes differ.         *)
HaveColor == coloredNodes \union precolored

ColorsGiven ==
  /\ \A n \in Nodes \ coalescedNodes : color[n] # NoColor <=> n \in HaveColor
  /\ \A r \in precolored \ coloredNodes : color[r] = r

ColorsDiffer ==
  precolored \intersect (Stacked \union coloredNodes) = {} =>
    \A a, b \in Nodes :
      <<a, b>> \in adjSet /\ Rep[a] \in HaveColor /\ Rep[b] \in HaveColor
        => color[Rep[a]] # color[Rep[b]]

(* What AssignColors does with the node it pops.                           *)
LEMMA AssignFacts ==
  ASSUME Held, NEW n \in Nodes, AssignColor(n)
  PROVE  /\ n = selectStack[Len(selectStack)] /\ Len(selectStack) \in Nat \ {0}
         /\ n \in Stacked /\ Stacked' = Stacked \ {n} /\ n \notin coalescedNodes
         /\ n \notin coloredNodes
         /\ adjSet' = adjSet /\ coalescedNodes' = coalescedNodes /\ Rep' = Rep
         /\ \/ /\ Colors \subseteq Taken(n) /\ n \notin precolored
               /\ coloredNodes' = coloredNodes /\ color' = color
               /\ spilledNodes' = spilledNodes \union {n}
            \/ /\ coloredNodes' = coloredNodes \union {n}
               /\ color'[n] \in Colors \ Taken(n)
               /\ \A k \in Nodes \ {n} : color'[k] = color[k]
               /\ spilledNodes' = spilledNodes
<1>1. /\ n = selectStack[Len(selectStack)] /\ selectStack # <<>>
      /\ selectStack' = SubSeq(selectStack, 1, Len(selectStack) - 1)
      /\ adjSet' = adjSet /\ coalescedNodes' = coalescedNodes /\ Rep' = Rep
  BY RepUnchanged DEF AssignColor, graph
<1>2. /\ n \in Stacked /\ Stacked' = Stacked \ {n} /\ Len(selectStack) \in Nat \ {0}
  BY <1>1, StackPop, PopKeeps DEF Held, PlacesHeld
<1>3. n \notin coalescedNodes /\ n \notin coloredNodes
  BY <1>2 DEF Held, PlacesHeld, Apart
<1>4. CASE /\ Colors \subseteq Taken(n)
           /\ spilledNodes' = spilledNodes \union {n}
           /\ UNCHANGED <<coloredNodes, color>>
  <2>1. n \notin precolored
    <3> SUFFICES ASSUME n \in precolored PROVE FALSE
      OBVIOUS
    <3>1. Taken(n) = {}
      BY DEF Taken, adjList
    <3> QED
      BY <1>4, <3>1, NodeFacts DEF Colors
  <2> QED
    BY <1>1, <1>2, <1>3, <1>4, <2>1
<1>5. CASE /\ coloredNodes' = coloredNodes \union {n}
           /\ \E c \in Colors : /\ IsLast(c, Colors \ Taken(n))
                                /\ color' = [color EXCEPT ![n] = c]
           /\ UNCHANGED spilledNodes
  <2>1. PICK c \in Colors : /\ c \in Colors \ Taken(n)
                            /\ color' = [color EXCEPT ![n] = c]
    BY <1>5 DEF IsLast
  <2>2. color'[n] = c /\ \A k \in Nodes \ {n} : color'[k] = color[k]
    BY <2>1 DEF Held, TypeOK, ColorTypes
  <2> QED
    BY <1>1, <1>2, <1>3, <1>5, <2>1, <2>2
<1> QED
  BY <1>4, <1>5 DEF AssignColor

LEMMA AssignDiffer ==
  ASSUME Held, Joined, ColorsGiven, ColorsDiffer, NEW n \in Nodes, AssignColor(n)
  PROVE  ColorsGiven' /\ ColorsDiffer'
<1>1. /\ n = selectStack[Len(selectStack)] /\ Len(selectStack) \in Nat \ {0}
      /\ n \in Stacked /\ Stacked' = Stacked \ {n} /\ n \notin coalescedNodes
      /\ n \notin coloredNodes
      /\ adjSet' = adjSet /\ coalescedNodes' = coalescedNodes /\ Rep' = Rep
  BY AssignFacts
<1>2. CASE /\ Colors \subseteq Taken(n) /\ n \notin precolored
           /\ coloredNodes' = coloredNodes /\ color' = color
  BY <1>1, <1>2 DEF ColorsGiven, ColorsDiffer, HaveColor
<1>3. CASE /\ coloredNodes' = coloredNodes \union {n}
           /\ color'[n] \in Colors \ Taken(n)
           /\ \A k \in Nodes \ {n} : color'[k] = color[k]
  <2>1. color'[n] # NoColor
    BY <1>3, NodeFacts DEF Colors, NoColor
  <2>2. ColorsGiven'
    BY <1>1, <1>3, <2>1, NodeFacts DEF ColorsGiven, HaveColor
  <2>3. ColorsDiffer'
    <3> SUFFICES ASSUME precolored \intersect (Stacked' \union coloredNodes') = {}
                 PROVE  \A a, b \in Nodes :
                          <<a, b>> \in adjSet /\ Rep[a] \in HaveColor' /\ Rep[b] \in HaveColor'
                            => color'[Rep[a]] # color'[Rep[b]]
      BY <1>1 DEF ColorsDiffer
    <3>1. /\ n \notin precolored /\ precolored \intersect (Stacked \union coloredNodes) = {}
          /\ n \in Temps
      BY <1>1, <1>3, NodeFacts
    (* The class of b has its colour already, and n has a neighbour in it.   *)
    <3>2. ASSUME NEW a \in Nodes, NEW b \in Nodes, <<a, b>> \in adjSet,
                 Rep[a] = n, Rep[b] \in HaveColor
          PROVE  color[Rep[b]] \in Taken(n)
      <4>1. Rep[b] \notin Stacked
        BY <3>1, <3>2 DEF HaveColor, Held, PlacesHeld, Apart
      <4>2. Below(Len(selectStack)) = Stacked
        BY DEF Below, Stacked
      <4>3. PICK c \in Nodes : <<n, c>> \in adjSet /\ Rep[c] = Rep[b]
        BY <1>1, <3>2, <4>1, <4>2 DEF Joined, StackJoined
      <4>4. c \in adjList(n)
        BY <3>1, <4>3, Edges
      <4>5. GetAlias(c) = Rep[b]
        BY <4>3, RepFacts
      <4> QED
        BY <3>2, <4>4, <4>5 DEF Taken, HaveColor
    <3>3. ASSUME NEW a \in Nodes, NEW b \in Nodes, <<a, b>> \in adjSet,
                 Rep[a] \in HaveColor', Rep[b] \in HaveColor'
          PROVE  color'[Rep[a]] # color'[Rep[b]]
      <4>1. Rep[a] # Rep[b] /\ <<b, a>> \in adjSet /\ Rep[a] \in Nodes /\ Rep[b] \in Nodes
        BY <3>3, Edges, RepFacts DEF Joined, ClassesApart
      <4>2. CASE Rep[a] = n
        <5>1. Rep[b] \in HaveColor /\ color'[Rep[b]] = color[Rep[b]]
          BY <1>3, <3>3, <4>1, <4>2 DEF HaveColor
        <5> QED
          BY <1>3, <3>2, <3>3, <4>2, <5>1
      <4>3. CASE Rep[b] = n
        <5>1. Rep[a] \in HaveColor /\ color'[Rep[a]] = color[Rep[a]]
          BY <1>3, <3>3, <4>1, <4>3 DEF HaveColor
        <5> QED
          BY <1>3, <3>2, <4>1, <4>3, <5>1
      <4>4. CASE Rep[a] # n /\ Rep[b] # n
        <5>1. /\ Rep[a] \in HaveColor /\ color'[Rep[a]] = color[Rep[a]]
              /\ Rep[b] \in HaveColor /\ color'[Rep[b]] = color[Rep[b]]
          BY <1>3, <3>3, <4>1, <4>4 DEF HaveColor
        <5> QED
          BY <3>1, <3>3, <5>1 DEF ColorsDiffer
      <4> QED
        BY <4>2, <4>3, <4>4
    <3> QED
      BY <3>3
  <2> QED
    BY <2>2, <2>3
<1> QED
  BY <1>2, <1>3, AssignFacts

(* Before AssignColors only the registers have colours, all different.     *)
LEMMA LoopDiffer ==
  ASSUME Held, Held', Joined', ColorsGiven, coloredNodes = {}, coloredNodes' = {},
         color' = color, coalescedNodes \subseteq coalescedNodes'
  PROVE  ColorsGiven' /\ ColorsDiffer'
<1>1. ColorsGiven'
  BY DEF ColorsGiven, HaveColor
<1>2. \A a, b \in Nodes : <<a, b>> \in adjSet' => Rep'[a] # Rep'[b]
  BY DEF Joined, ClassesApart
<1>3. \A r \in precolored : color'[r] = r
  BY DEF ColorsGiven
<1> QED
  BY <1>1, <1>2, <1>3 DEF ColorsDiffer, HaveColor

LEMMA StepDiffer ==
  ASSUME Held, Held', Joined, Joined', ColorsGiven, ColorsDiffer, [Next]_vars
  PROVE  ColorsGiven' /\ ColorsDiffer'
<1>1. CASE /\ phase \in {"make", "loop"} /\ coloredNodes' = coloredNodes /\ color' = color
           /\ coalescedNodes \subseteq coalescedNodes'
  BY <1>1, LoopDiffer DEF Held, PlacesHeld, InPhase
<1>2. CASE MakeWorklist \/ LeaveLoop
  BY <1>1, <1>2 DEF MakeWorklist, LeaveLoop, graph, colors
<1>3. CASE \E n \in Nodes : Simplify(n) \/ Freeze(n) \/ SelectSpill(n)
  BY <1>1, <1>3 DEF Simplify, Freeze, SelectSpill, graph, colors
<1>4. CASE Coalesce
  <2>1. coalescedNodes \subseteq coalescedNodes'
    BY <1>4 DEF Coalesce, CoalesceSame, CoalesceConstrained, CoalesceCombine,
                CoalesceLater, graph
  <2> QED
    BY <1>1, <1>4, <2>1 DEF Coalesce, colors
<1>5. CASE \E n \in Nodes : AssignColor(n)
  BY <1>5, AssignDiffer
<1>6. CASE ColorCoalesced
  <2>1. /\ color' = [n \in Nodes |-> IF n \in coalescedNodes THEN color[GetAlias(n)]
                                                             ELSE color[n]]
        /\ coalescedNodes' = coalescedNodes /\ alias' = alias /\ adjSet' = adjSet
        /\ coloredNodes' = coloredNodes /\ selectStack' = selectStack
    BY <1>6 DEF ColorCoalesced, graph
  <2>2. \A n \in Nodes \ coalescedNodes : color'[n] = color[n]
    BY <2>1
  <2>3. Rep' = Rep /\ Stacked' = Stacked /\ HaveColor' = HaveColor
    BY <2>1, RepUnchanged DEF Stacked, HaveColor
  <2>4. precolored \subseteq Nodes \ coalescedNodes
    BY NodeFacts DEF Held, PlacesHeld, RegistersStay
  <2>5. \A a \in Nodes : Rep[a] \in Nodes \ coalescedNodes
    BY RepFacts
  <2> QED
    BY <2>1, <2>2, <2>3, <2>4, <2>5 DEF ColorsGiven, ColorsDiffer
<1>7. CASE UNCHANGED vars
  <2>1. Rep' = Rep /\ Stacked' = Stacked
    BY <1>7, RepUnchanged DEF vars, graph, Stacked
  <2> QED
    BY <1>7, <2>1 DEF vars, graph, colors, ColorsGiven, ColorsDiffer, HaveColor
<1> QED
  BY <1>2, <1>3, <1>4, <1>5, <1>6, <1>7 DEF Next, Terminating

LEMMA InitDiffer == Init => ColorsGiven /\ ColorsDiffer
<1> SUFFICES ASSUME Init PROVE ColorsGiven /\ ColorsDiffer
  OBVIOUS
<1>1. Held /\ Joined
  BY InitHeld, InitJoined
<1>2. /\ coloredNodes = {}
      /\ color = [n \in Nodes |-> IF n \in precolored THEN n ELSE NoColor]
  BY DEF Init
<1>3. \A r \in precolored : r \in Nodes /\ color[r] = r /\ r # NoColor
  BY <1>2, NodeFacts DEF precolored, NoColor
<1>4. ColorsGiven
  BY <1>2, <1>3, NodeFacts DEF ColorsGiven, HaveColor
<1>5. \A a, b \in Nodes : <<a, b>> \in adjSet => Rep[a] # Rep[b]
  BY <1>1 DEF Joined, ClassesApart
<1> QED
  BY <1>2, <1>3, <1>4, <1>5 DEF ColorsDiffer, HaveColor

LEMMA DifferAlways == Spec => [](Held /\ Joined /\ ColorsGiven /\ ColorsDiffer /\ ColorsFollow)
<1>1. Init => ColorsFollow
  BY DEF Init, ColorsFollow
<1> QED
  BY <1>1, InitDiffer, StepDiffer, ColorsFollowKept, HeldAlways, JoinedAlways, PTL DEF Spec

LEMMA DoneProper ==
  ASSUME Held, Joined, ColorsGiven, ColorsDiffer, ColorsFollow, phase = "done",
         precolored \intersect coloredNodes = {}
  PROVE  Proper
<1>1. Stacked = {}
  <2>1. selectStack = <<>>
    BY DEF Held, PlacesHeld, InPhase
  <2> QED
    BY <2>1 DEF Stacked
<1>2. \A n \in Nodes : /\ color[n] = color[Rep[n]] /\ Rep[n] \in Nodes \ coalescedNodes
  BY RepFacts DEF ColorsFollow
<1>3. \A n \in Nodes : color[n] # NoColor => Rep[n] \in HaveColor
  BY <1>2 DEF ColorsGiven
<1>4. ASSUME NEW e \in input.edges, color[e[1]] # NoColor
      PROVE  color[e[1]] # color[e[2]]
  <2>1. e \in adjSet /\ adjSet \subseteq Nodes \X Nodes
    BY DEF Held, GraphHeld, GraphGrows, Graphs
  <2>2. e[1] \in Nodes /\ e[2] \in Nodes /\ <<e[1], e[2]>> \in adjSet
    BY <2>1
  <2>3. CASE color[e[2]] = NoColor
    BY <1>4, <2>3
  <2>4. CASE color[e[2]] # NoColor
    BY <1>1, <1>2, <1>3, <1>4, <2>2, <2>4 DEF ColorsDiffer
  <2> QED
    BY <2>3, <2>4
<1>5. \A r \in precolored : color[r] = r
  BY DEF ColorsGiven
<1> QED
  BY <1>4, <1>5 DEF Proper

(* Two nodes that interfere never hold the same register in the end, the   *)
(* coalesced ones included, unless the loop simplified a machine register  *)
(* and AssignColors gave it a colour.                                      *)
THEOREM ColoringProper == Spec => []ProperUnlessRegisterSimplified
<1>1. Held /\ Joined /\ ColorsGiven /\ ColorsDiffer /\ ColorsFollow
        => ProperUnlessRegisterSimplified
  BY DoneProper DEF ProperUnlessRegisterSimplified
<1> QED
  BY <1>1, DifferAlways, PTL

-------------------------------------------------------------------------------
(* FreezeMoves has let no machine register into simplifyWorklist.          *)
NoRegisterListed == precolored \intersect simplifyWorklist = {}

(* No machine register is on the stack or was coloured from it.            *)
RegistersLeft == precolored \intersect (Stacked \union coloredNodes) = {}

(* Simplify pushes nodes of simplifyWorklist only, and AssignColors        *)
(* colours nodes of the stack only.                                        *)
LEMMA StepRegistersLeft ==
  ASSUME Held, NoRegisterListed, RegistersLeft, [Next]_vars
  PROVE  RegistersLeft'
<1>1. ASSUME NEW n \in Nodes, Simplify(n) PROVE RegistersLeft'
  <2>1. n \in simplifyWorklist /\ coloredNodes' = coloredNodes
    BY <1>1 DEF Simplify, IsLast, colors
  <2>2. Stacked' = Stacked \union {n}
    BY <1>1, StackPush DEF Simplify, Held
  <2> QED
    BY <2>1, <2>2 DEF RegistersLeft, NoRegisterListed
<1>2. ASSUME NEW n \in Nodes, AssignColor(n) PROVE RegistersLeft'
  <2>1. /\ n \in Stacked /\ Stacked' = Stacked \ {n}
        /\ coloredNodes' = coloredNodes \/ coloredNodes' = coloredNodes \union {n}
    BY <1>2, AssignFacts
  <2> QED
    BY <2>1 DEF RegistersLeft
<1>3. ASSUME NEW n \in Nodes, Freeze(n) \/ SelectSpill(n) PROVE RegistersLeft'
  BY <1>3 DEF Freeze, SelectSpill, colors, Stacked, RegistersLeft
<1>4. CASE MakeWorklist \/ Coalesce \/ LeaveLoop \/ ColorCoalesced \/ UNCHANGED vars
  BY <1>4 DEF MakeWorklist, Coalesce, LeaveLoop, ColorCoalesced, vars, worklists, colors,
              RegistersLeft, Stacked
<1> QED
  BY <1>1, <1>2, <1>3, <1>4 DEF Next, Terminating

(* The exception of ProperUnlessRegisterSimplified has one cause: a round  *)
(* in which FreezeMoves never lets a register into simplifyWorklist        *)
(* (color.c:643-648) ends with different colours for any two nodes that    *)
(* interfere, whatever registers the moves name.                           *)
THEOREM ProperWhileNoneListed == Spec /\ []NoRegisterListed => []ProperColoring
<1>1. Init => RegistersLeft
  BY DEF Init, Stacked, RegistersLeft
<1>2. Held /\ NoRegisterListed /\ RegistersLeft /\ [Next]_vars => RegistersLeft'
  BY StepRegistersLeft
<1>3. RegistersLeft /\ ProperUnlessRegisterSimplified => ProperColoring
  BY DEF RegistersLeft, ProperUnlessRegisterSimplified, ProperColoring
<1> QED
  BY <1>1, <1>2, <1>3, HeldAlways, ColoringProper, PTL DEF Spec

-------------------------------------------------------------------------------
(* The graph that is left: temporaries neither merged nor pushed, and the  *)
(* registers.                                                              *)
Live == Temps \ (Stacked \union coalescedNodes)

(* The neighbours of u among the nodes of S and the registers.             *)
Near(u, S) == adjList(u) \intersect (precolored \union S)

(* A temporary's degree counts its neighbours in the graph that is left.   *)
DegreesCount ==
  phase \in {"make", "loop"} => \A u \in Live : degree[u] = Cardinality(Near(u, Live))

LEMMA NearFinite ==
  ASSUME NEW u, NEW S
  PROVE  IsFiniteSet(Near(u, S)) /\ Cardinality(Near(u, S)) \in Nat
<1>1. Near(u, S) \subseteq Nodes
  BY AdjacentAreNodes DEF Near, adjList
<1> QED
  BY <1>1, NodesFinite, FS_Subset, FS_CardinalityType

LEMMA InitDegrees ==
  ASSUME Init
  PROVE  DegreesCount
<1>1. Stacked = {} /\ coalescedNodes = {}
  BY DEF Init, Stacked
<1>2. \A u \in Live : Near(u, Live) = adjList(u) /\ u \in Nodes
  BY <1>1, NodeFacts DEF Live, Near, adjList
<1> QED
  BY <1>2 DEF Init, DegreesCount

LEMMA SimplifyDegrees ==
  ASSUME Held, DegreesCount, NEW n \in Nodes, Simplify(n)
  PROVE  DegreesCount'
<1>1. /\ phase = "loop" /\ n \in simplifyWorklist /\ adjSet' = adjSet
      /\ coalescedNodes' = coalescedNodes
      /\ degree' = [k \in Nodes |-> IF k \in Adjacent(n) \ {n} THEN degree[k] - 1 ELSE degree[k]]
  BY DEF Simplify, IsLast
<1>2. n \notin Stacked /\ n \notin coalescedNodes
  BY <1>1 DEF Held, PlacesHeld, Apart
<1>3. Stacked' = Stacked \union {n}
  BY StackPush DEF Simplify, Held
<1>4. Live' = Live \ {n}
  BY <1>1, <1>3 DEF Live
<1>5. \A u : adjList(u)' = adjList(u)
  BY <1>1 DEF adjList
<1> SUFFICES ASSUME NEW u \in Live' PROVE degree'[u] = Cardinality(Near(u, Live)')
  BY DEF DegreesCount
<1>6. /\ u \in Live /\ u # n /\ u \in Temps /\ u \in Nodes
      /\ u \notin Stacked /\ u \notin coalescedNodes
  BY <1>4, NodeFacts DEF Live
<1>7. degree[u] = Cardinality(Near(u, Live))
  BY <1>1, <1>6 DEF DegreesCount
<1>8. CASE n \in precolored
  <2>1. Adjacent(n) = {} /\ Live' = Live
    BY <1>4, <1>8, NodeFacts DEF Adjacent, adjList, Live
  <2> QED
    BY <1>1, <1>5, <1>6, <1>7, <2>1 DEF Near
<1>9. CASE n \notin precolored
  <2>1. Near(u, Live)' = Near(u, Live) \ {n}
    BY <1>4, <1>5, <1>9 DEF Near
  <2>2. u \in Adjacent(n) <=> <<n, u>> \in adjSet
    BY <1>6, <1>9 DEF Adjacent, adjList
  <2>3. n \in Near(u, Live) <=> <<u, n>> \in adjSet
    BY <1>2, <1>6, <1>9, NodeFacts DEF Near, adjList, Live
  <2>4. <<u, n>> \in adjSet <=> <<n, u>> \in adjSet
    BY Edges
  <2>5. Cardinality(Near(u, Live) \ {n}) =
          IF n \in Near(u, Live) THEN Cardinality(Near(u, Live)) - 1
                                 ELSE Cardinality(Near(u, Live))
    BY NearFinite, FS_RemoveElement
  <2> QED
    BY <1>1, <1>6, <1>7, <2>1, <2>2, <2>3, <2>4, <2>5
<1> QED
  BY <1>8, <1>9

(* What Combine changes in the lists: u and the neighbours it gains.       *)
LEMMA CombineNear ==
  ASSUME Held, Coalesce, NEW m, NEW u, NEW v, Considers(m, u, v),
         CoalesceCombine(m, u, v)
  PROVE  /\ Live' = Live \ {v} /\ v \in Live /\ (u \in Live \/ u \in precolored)
         /\ u \in Temps => adjList(u)' = adjList(u) \union Gained(u, v)
         /\ \A n \in Temps \ {u} :
              adjList(n)' = IF n \in Gained(u, v) THEN adjList(n) \union {u} ELSE adjList(n)
         /\ \A n \in Live : v \in adjList(n) <=> n \in Adjacent(v)
         /\ \A n \in Temps : u \in adjList(n) <=> <<n, u>> \in adjSet
         /\ Gained(u, v) \subseteq (precolored \union Live) \ {u, v}
<1>1. /\ u \in Nodes /\ v \in Temps /\ v \in Nodes /\ u # v /\ <<u, v>> \notin adjSet
      /\ u \notin Stacked /\ u \notin coalescedNodes
      /\ v \notin Stacked /\ v \notin coalescedNodes
      /\ Stacked' = Stacked /\ coalescedNodes' = coalescedNodes \union {v}
  BY CombineEdges
<1>2. \A t : t \in Adjacent(v) <=>
        t \in Nodes /\ <<v, t>> \in adjSet /\ t \notin Stacked /\ t \notin coalescedNodes
  BY CombineEdges
<1>3. \A t : t \in Gained(u, v) <=> t \in Adjacent(v) /\ <<t, u>> \notin adjSet
  BY CombineEdges
<1>4. \A a, b : <<a, b>> \in adjSet' <=> \/ <<a, b>> \in adjSet
                                         \/ a \in Gained(u, v) /\ b = u
                                         \/ a = u /\ b \in Gained(u, v)
  BY CombineEdges
<1>5. /\ \A a, b : <<a, b>> \in adjSet =>
            a \in Nodes /\ b \in Nodes /\ a # b /\ <<b, a>> \in adjSet
      /\ \A n \in Temps : adjList(n) = {w \in Nodes : <<n, w>> \in adjSet}
  BY Edges
<1>6. \A n \in Temps : adjList(n)' = {w \in Nodes : <<n, w>> \in adjSet'}
  BY NodeFacts DEF adjList
<1>7. Live' = Live \ {v} /\ v \in Live /\ (u \in Live \/ u \in precolored)
  BY <1>1, NodeFacts DEF Live
<1>8. u \notin Gained(u, v) /\ v \notin Gained(u, v) /\ Gained(u, v) \subseteq Nodes
  BY <1>1, <1>2, <1>3, <1>5
<1>9. u \in Temps => adjList(u)' = adjList(u) \union Gained(u, v)
  <2> SUFFICES ASSUME u \in Temps PROVE adjList(u)' = adjList(u) \union Gained(u, v)
    OBVIOUS
  <2>1. /\ adjList(u)' = {w \in Nodes : <<u, w>> \in adjSet'}
        /\ adjList(u) = {w \in Nodes : <<u, w>> \in adjSet}
    BY <1>5, <1>6
  <2>2. \A w : <<u, w>> \in adjSet' <=> <<u, w>> \in adjSet \/ w \in Gained(u, v)
    BY <1>4, <1>8
  <2> QED
    BY <1>8, <2>1, <2>2
<1>10. ASSUME NEW n \in Temps \ {u}
       PROVE  adjList(n)' = IF n \in Gained(u, v) THEN adjList(n) \union {u} ELSE adjList(n)
  <2>1. /\ adjList(n)' = {w \in Nodes : <<n, w>> \in adjSet'}
        /\ adjList(n) = {w \in Nodes : <<n, w>> \in adjSet}
    BY <1>5, <1>6
  <2>2. \A w : <<n, w>> \in adjSet' <=>
                 <<n, w>> \in adjSet \/ (n \in Gained(u, v) /\ w = u)
    BY <1>4
  <2> QED
    BY <1>1, <2>1, <2>2
<1>11. ASSUME NEW n \in Live PROVE v \in adjList(n) <=> n \in Adjacent(v)
  BY <1>1, <1>2, <1>5, NodeFacts DEF Live
<1>12. \A n \in Temps : u \in adjList(n) <=> <<n, u>> \in adjSet
  BY <1>1, <1>5
<1>13. Gained(u, v) \subseteq (precolored \union Live) \ {u, v}
  BY <1>2, <1>3, <1>8, NodeFacts DEF Live
<1> QED
  BY <1>7, <1>9, <1>10, <1>11, <1>12, <1>13

LEMMA CombineDegreesCount ==
  ASSUME Held, DegreesCount, Coalesce, NEW m, NEW u, NEW v, Considers(m, u, v),
         CoalesceCombine(m, u, v)
  PROVE  DegreesCount'
<1> DEFINE G == Gained(u, v)
<1>1. /\ Live' = Live \ {v} /\ v \in Live /\ (u \in Live \/ u \in precolored)
      /\ u \in Temps => adjList(u)' = adjList(u) \union G
      /\ \A n \in Temps \ {u} :
           adjList(n)' = IF n \in G THEN adjList(n) \union {u} ELSE adjList(n)
      /\ \A n \in Live : v \in adjList(n) <=> n \in Adjacent(v)
      /\ \A n \in Temps : u \in adjList(n) <=> <<n, u>> \in adjSet
      /\ G \subseteq (precolored \union Live) \ {u, v}
  BY CombineNear
<1>2. /\ \A t \in Adjacent(v) : degree'[t] = Raised(t, u, v) - 1
      /\ u \notin precolored => degree'[u] = degree[u] + Cardinality(G)
      /\ \A n \in Nodes \ Adjacent(v) :
           n # u \/ n \in precolored => degree'[n] = degree[n]
  BY CombineRaises
<1>3. /\ phase = "loop" /\ u \in Nodes /\ v \in Nodes /\ u # v /\ <<u, v>> \notin adjSet
      /\ v \notin precolored
  BY CombineFacts DEF Considers
<1>4. \A n \in Live : n \in Temps /\ n \in Nodes /\ n \notin precolored
  BY NodeFacts DEF Live
<1>5. \A n \in Live : degree[n] = Cardinality(Near(n, Live))
  BY <1>3 DEF DegreesCount
<1>6. \A t : t \in G <=> t \in Adjacent(v) /\ <<t, u>> \notin adjSet
  BY DEF Gained
<1>7. \A n \in Live : IsFiniteSet(Near(n, Live)) /\ Cardinality(Near(n, Live)) \in Nat
  BY NearFinite
<1>8. IsFiniteSet(G) /\ Cardinality(G) \in Nat
  <2>1. G \subseteq Nodes
    BY <1>1, NodeFacts DEF Live
  <2> QED
    BY <2>1, NodesFinite, FS_Subset, FS_CardinalityType
<1> HIDE DEF G
<1> SUFFICES ASSUME NEW n \in Live' PROVE degree'[n] = Cardinality(Near(n, Live)')
  BY DEF DegreesCount
<1>9. n \in Live /\ n # v /\ n \in Temps /\ n \in Nodes /\ n \notin precolored
  BY <1>1, <1>4
<1> DEFINE N == Near(n, Live)
<1>10. CASE n = u
  <2>1. v \notin adjList(u)
    BY <1>3, <1>9, <1>10, Edges
  <2>2. Near(n, Live)' = N \union G
    BY <1>1, <1>9, <1>10, <2>1 DEF Near
  <2>3. N \intersect G = {}
    <3>1. \A t \in adjList(u) : <<t, u>> \in adjSet
      BY <1>9, <1>10, Edges
    <3> QED
      BY <1>6, <1>10, <3>1 DEF Near
  <2>4. Cardinality(N \union G) = Cardinality(N) + Cardinality(G)
    <3>1. Cardinality(N \union G) = Cardinality(N) + Cardinality(G) - Cardinality(N \intersect G)
      BY <1>7, <1>8, <1>9, FS_Union
    <3>2. Cardinality(N \intersect G) = 0
      BY <2>3, FS_EmptySet
    <3>3. Cardinality(N) \in Nat
      BY <1>7, <1>9
    <3> HIDE DEF N
    <3> QED
      BY <1>8, <3>1, <3>2, <3>3
  <2> QED
    BY <1>2, <1>5, <1>9, <1>10, <2>2, <2>4
<1>11. CASE n # u /\ n \in G
  <2>1. n \in Adjacent(v) /\ u \notin adjList(n) /\ v \in adjList(n)
    BY <1>1, <1>6, <1>9, <1>11
  <2>2. Near(n, Live)' = (N \ {v}) \union {u}
    BY <1>1, <1>3, <1>9, <1>11 DEF Near
  <2>3. v \in N /\ u \notin N
    BY <1>1, <2>1 DEF Near
  <2>4. IsFiniteSet(N) /\ Cardinality(N) \in Nat
    BY <1>7, <1>9
  <2>5. degree'[n] = Raised(n, u, v) - 1 /\ Raised(n, u, v) = degree[n] + 1
    BY <1>2, <1>9, <1>11, <2>1 DEF Raised, G
  <2>6. degree[n] = Cardinality(N)
    BY <1>5, <1>9
  <2> HIDE DEF N
  <2>7. IsFiniteSet(N \ {v}) /\ Cardinality(N \ {v}) = Cardinality(N) - 1
    BY <2>3, <2>4, FS_RemoveElement
  <2>8. Cardinality((N \ {v}) \union {u}) = Cardinality(N) - 1 + 1
    BY <2>3, <2>7, FS_AddElement
  <2> QED
    BY <2>2, <2>4, <2>5, <2>6, <2>8
<1>12. CASE n # u /\ n \notin G
  <2>1. Near(n, Live)' = N \ {v}
    BY <1>1, <1>3, <1>9, <1>12 DEF Near
  <2>2. v \in N <=> n \in Adjacent(v)
    BY <1>1, <1>9 DEF Near
  <2>3. IsFiniteSet(N) /\ Cardinality(N) \in Nat /\ degree[n] = Cardinality(N)
    BY <1>5, <1>7, <1>9
  <2>4. degree'[n] = IF n \in Adjacent(v) THEN degree[n] - 1 ELSE degree[n]
    BY <1>2, <1>9, <1>12 DEF Raised, G
  <2> HIDE DEF N
  <2>5. Cardinality(N \ {v}) = IF v \in N THEN Cardinality(N) - 1 ELSE Cardinality(N)
    BY <2>3, FS_RemoveElement
  <2> QED
    BY <2>1, <2>2, <2>3, <2>4, <2>5
<1> QED
  BY <1>10, <1>11, <1>12

LEMMA StepDegrees ==
  ASSUME Held, DegreesCount, [Next]_vars
  PROVE  DegreesCount'
<1>1. CASE /\ coalescedNodes' = coalescedNodes /\ adjSet' = adjSet /\ degree' = degree
           /\ selectStack' = selectStack
           /\ phase' \in {"make", "loop"} => phase \in {"make", "loop"}
  <2>1. Live' = Live
    BY <1>1 DEF Live, Stacked
  <2>2. \A n : Near(n, Live)' = Near(n, Live)
    BY <1>1, <2>1 DEF Near, adjList
  <2> QED
    BY <1>1, <2>1, <2>2 DEF DegreesCount
<1>2. CASE \E n \in Nodes : Simplify(n)
  BY <1>2, SimplifyDegrees
<1>3. CASE \E n \in Nodes : Freeze(n) \/ SelectSpill(n)
  BY <1>1, <1>3 DEF Freeze, SelectSpill, graph
<1>4. CASE \E n \in Nodes : AssignColor(n)
  BY <1>4 DEF AssignColor, DegreesCount
<1>5. CASE Coalesce
  <2>1. PICK m, u, v : /\ Considers(m, u, v)
                       /\ \/ CoalesceSame(m, u, v)
                          \/ CoalesceConstrained(m, u, v)
                          \/ CoalesceCombine(m, u, v)
                          \/ CoalesceLater(m, u, v)
    BY <1>5, CoalesceConsiders
  <2>2. CASE CoalesceCombine(m, u, v)
    BY <1>5, <2>1, <2>2, CombineDegreesCount
  <2>3. CASE ~CoalesceCombine(m, u, v)
    BY <1>1, <1>5, <2>1, <2>3
      DEF Coalesce, CoalesceSame, CoalesceConstrained, CoalesceLater, graph
  <2> QED
    BY <2>2, <2>3
<1>6. CASE MakeWorklist \/ LeaveLoop \/ ColorCoalesced \/ UNCHANGED vars
  BY <1>1, <1>6 DEF MakeWorklist, LeaveLoop, ColorCoalesced, vars, graph
<1> QED
  BY <1>2, <1>3, <1>4, <1>5, <1>6 DEF Next, Terminating

LEMMA DegreesAlways == Spec => []DegreesCount
BY InitDegrees, StepDegrees, HeldAlways, PTL DEF Spec

(* The worklists hold what is left of the temporaries, and maybe registers. *)
LEMMA LiveOnWorklists ==
  ASSUME Held, phase = "loop"
  PROVE  precolored \union Live = precolored \union OnWorklist
<1>1. /\ Temps \subseteq OnWorklist \union Stacked \union coalescedNodes
      /\ OnWorklist \intersect (Stacked \union coalescedNodes) = {}
      /\ OnWorklist \subseteq Nodes
  BY DEF Held, TypeOK, PlaceTypes, PlacesHeld, Covered, InPhase, Apart, OnWorklist
<1> QED
  BY <1>1, NodeFacts DEF Live

(* The degree invariant of the comment above checkInvariant, at every      *)
(* return to the head of the main loop, for every temporary, whatever      *)
(* registers the moves name and FreezeMoves lets into a worklist.          *)
THEOREM DegreesAsStated == Spec => []DegreesOfTemps
<1>1. Held /\ DegreesCount => DegreesOfTemps
  <2> SUFFICES ASSUME Held, DegreesCount, phase = "loop", NEW u \in OnWorklist \ precolored
               PROVE  degree[u] =
                        Cardinality(adjList(u) \intersect (precolored \union OnWorklist))
    BY DEF DegreesOfTemps
  <2>1. u \in Live
    BY LiveOnWorklists
  <2>2. degree[u] = Cardinality(Near(u, Live))
    BY <2>1 DEF DegreesCount
  <2> QED
    BY <2>2, LiveOnWorklists DEF Near
<1> QED
  BY <1>1, DegreesAlways, HeldAlways, PTL

(* As the comment has it, for all nodes of the worklists, the invariant    *)
(* fails only while FreezeMoves has a register in simplifyWorklist: its    *)
(* list is empty, and its degree below 0.                                  *)
THEOREM MiscountsRegistersOnly == Spec => [](NoRegisterListed => DegreeInvariant)
<1>1. Held /\ NoRegisterListed => OnWorklist \intersect precolored = {}
  BY DEF OnWorklist, NoRegisterListed, Held, PlacesHeld, RegistersStay
<1>2. Held /\ NoRegisterListed /\ DegreesOfTemps => DegreeInvariant
  BY <1>1 DEF DegreesOfTemps, DegreeInvariant
<1> QED
  BY <1>2, DegreesAsStated, HeldAlways, PTL

-------------------------------------------------------------------------------
(* The nodes whose colours the i-th node of the stack may find taken when  *)
(* it is popped: what its neighbours stand for, without the temporaries    *)
(* that are popped later.                                                  *)
Seen(i) == {Rep[a] : a \in adjList(selectStack[i])} \ (Below(i) \ precolored)

(* A node that was not selected found room when it was pushed, and has     *)
(* room still: coalescing only makes its neighbours fewer.                 *)
RoomLeft ==
  \A i \in 1 .. Len(selectStack) :
    selectStack[i] \notin precolored \union selected => Cardinality(Seen(i)) < K

SpilledSelected == spilledNodes \subseteq selected

LEMMA SeenFinite ==
  ASSUME Held, NEW i
  PROVE  IsFiniteSet(Seen(i)) /\ Cardinality(Seen(i)) \in Nat
<1>1. \A a \in adjList(selectStack[i]) : Rep[a] \in Nodes
  BY RepFacts DEF adjList
<1>2. Seen(i) \subseteq Nodes
  BY <1>1 DEF Seen
<1> QED
  BY <1>2, NodesFinite, FS_Subset, FS_CardinalityType

LEMMA PushRoom ==
  ASSUME Held, Joined, DegreesCount, RoomLeft, NEW n \in Nodes, Simplify(n)
  PROVE  RoomLeft'
<1>1. /\ phase = "loop" /\ adjSet' = adjSet /\ Rep' = Rep /\ selected' = selected
      /\ selectStack' = Append(selectStack, n) /\ n \in simplifyWorklist
  BY RepUnchanged DEF Simplify, IsLast
<1>2. n \notin Stacked /\ n \notin coalescedNodes
  BY <1>1 DEF Held, PlacesHeld, Apart
<1>3. Stacked' = Stacked \union {n}
  BY <1>1, StackPush DEF Held
<1> DEFINE L == Len(selectStack)
<1>4. /\ L \in Nat /\ Len(selectStack') = L + 1 /\ selectStack'[L + 1] = n
      /\ \A i \in 1 .. L : selectStack'[i] = selectStack[i]
  BY <1>1 DEF Held, TypeOK, PlaceTypes
<1>5. \A k : adjList(k)' = adjList(k)
  BY <1>1 DEF adjList
<1> HIDE DEF L
<1> SUFFICES ASSUME NEW i \in 1 .. Len(selectStack'),
                    selectStack'[i] \notin precolored \union selected'
             PROVE  Cardinality(Seen(i)') < K
  BY DEF RoomLeft
<1>6. CASE i = L + 1
  <2>1. n \notin precolored /\ n \notin selected /\ n \in Temps /\ Below(i)' = Stacked'
    BY <1>1, <1>4, <1>6, NodeFacts DEF Below, Stacked
  <2>2. n \in Live
    BY <1>2, <2>1 DEF Live
  <2>3. degree[n] < K /\ degree[n] = Cardinality(Near(n, Live))
    BY <1>1, <2>1, <2>2 DEF Held, WorklistInvariant, DegreesCount
  <2>4. adjList(selectStack[i])' = adjList(n)
    BY <1>1, <1>4, <1>6 DEF adjList
  <2>5. Seen(i)' = {Rep[a] : a \in adjList(n)} \ (Stacked' \ precolored)
    BY <1>1, <2>1, <2>4 DEF Seen
  <2>6. ASSUME NEW a \in adjList(n), Rep[a] \notin Stacked' \ precolored
        PROVE  Rep[a] \in Near(n, Live)
    <3>1. a \in Nodes /\ <<n, a>> \in adjSet
      BY <2>1, Edges
    <3>2. <<n, Rep[a]>> \in adjSet
      BY <1>1, <1>2, <3>1 DEF Joined, NodesJoined
    <3>3. Rep[a] \in Nodes /\ Rep[a] \notin coalescedNodes
      BY <3>1, RepFacts
    <3>4. Rep[a] \in adjList(n)
      BY <2>1, <3>2, <3>3, Edges
    <3> QED
      BY <1>3, <2>6, <3>3, <3>4, NodeFacts DEF Near, Live
  <2>7. Seen(i)' \subseteq Near(n, Live)
    BY <2>5, <2>6
  <2>8. Cardinality(Seen(i)') <= Cardinality(Near(n, Live)) /\ IsFiniteSet(Seen(i)')
    BY <2>7, NearFinite, FS_Subset
  <2>9. Cardinality(Seen(i)') \in Nat /\ Cardinality(Near(n, Live)) \in Nat
    BY <2>8, NearFinite, FS_CardinalityType
  <2> QED
    BY <2>3, <2>8, <2>9, NodeFacts
<1>7. CASE i \in 1 .. L
  <2>1. selectStack'[i] = selectStack[i] /\ \A j \in 1 .. i : selectStack'[j] = selectStack[j]
    BY <1>4, <1>7
  <2>2. Below(i)' = Below(i)
    BY <2>1 DEF Below
  <2>3. adjList(selectStack[i])' = adjList(selectStack[i])
    BY <1>1, <2>1 DEF adjList
  <2>4. Seen(i)' = Seen(i)
    BY <1>1, <2>2, <2>3 DEF Seen
  <2> QED
    BY <1>1, <1>7, <2>1, <2>4 DEF RoomLeft, L
<1> QED
  BY <1>4, <1>6, <1>7

LEMMA CombineRoom ==
  ASSUME Held, RoomLeft, Coalesce, NEW m, NEW u, NEW v, Considers(m, u, v),
         CoalesceCombine(m, u, v)
  PROVE  RoomLeft'
<1>1. /\ u \in Nodes /\ v \in Nodes /\ u # v /\ u \notin Stacked /\ v \notin Stacked
      /\ selectStack' = selectStack
  BY CombineEdges
<1>2. \A n \in Nodes : Rep'[n] = IF Rep[n] = v THEN u ELSE Rep[n]
  BY CombineEdges
<1>3. selected' = selected
  BY CombineFacts
<1> SUFFICES ASSUME NEW i \in 1 .. Len(selectStack),
                    selectStack[i] \notin precolored \union selected
             PROVE  Cardinality(Seen(i)') < K
  BY <1>1, <1>3 DEF RoomLeft
<1> DEFINE n == selectStack[i]
<1>4. n \in Stacked /\ n \in Nodes /\ n \in Temps
  BY NodeFacts DEF Stacked, Held, TypeOK, PlaceTypes
<1>5. n # u /\ n \notin Gained(u, v)
  <2>1. \A t : t \in Gained(u, v) => t \notin Stacked
    BY CombineEdges
  <2> QED
    BY <1>1, <1>4, <2>1
<1>6. adjList(n)' = adjList(n)
  <2>1. \A k \in Temps \ {u} :
          adjList(k)' = IF k \in Gained(u, v) THEN adjList(k) \union {u} ELSE adjList(k)
    BY CombineNear
  <2>2. \A k : k = n => adjList(k)' = adjList(k)
    BY <1>4, <1>5, <2>1
  <2> QED
    BY <1>1, <2>2
<1>7. Below(i)' = Below(i) /\ Below(i) \subseteq Stacked
  BY <1>1 DEF Below, Stacked, Held, TypeOK, PlaceTypes
<1>8. \A a \in adjList(n) : a \in Nodes
  BY DEF adjList
<1> DEFINE S == Seen(i)
           T == IF v \in S THEN (S \ {v}) \union {u} ELSE S
<1>9. S = {Rep[a] : a \in adjList(n)} \ (Below(i) \ precolored)
  BY DEF Seen
<1>10. Seen(i)' = {Rep'[a] : a \in adjList(n)} \ (Below(i) \ precolored)
  BY <1>1, <1>6, <1>7 DEF Seen
<1>11. v \notin Below(i)
  BY <1>1, <1>7
<1>12. IsFiniteSet(S) /\ Cardinality(S) \in Nat
  BY SeenFinite
<1>13. Cardinality(S) < K
  BY DEF RoomLeft
<1> HIDE DEF S, n
<1>14. Seen(i)' \subseteq T
  <2> SUFFICES ASSUME NEW a \in adjList(n), Rep'[a] \notin Below(i) \ precolored
               PROVE  Rep'[a] \in T
    BY <1>10
  <2>1. CASE Rep[a] = v
    BY <1>2, <1>8, <1>9, <1>11, <2>1
  <2>2. CASE Rep[a] # v
    <3>1. Rep'[a] = Rep[a] /\ Rep[a] \in S
      BY <1>2, <1>8, <1>9, <2>2
    <3> QED
      BY <2>2, <3>1
  <2> QED
    BY <2>1, <2>2
<1>15. IsFiniteSet(T) /\ Cardinality(T) \in Nat /\ Cardinality(T) <= Cardinality(S)
  <2>1. CASE v \in S
    <3>1. IsFiniteSet(S \ {v}) /\ Cardinality(S \ {v}) = Cardinality(S) - 1
      BY <1>12, <2>1, FS_RemoveElement
    <3>2. /\ IsFiniteSet((S \ {v}) \union {u})
          /\ Cardinality((S \ {v}) \union {u}) \in {Cardinality(S) - 1, Cardinality(S) - 1 + 1}
      BY <3>1, FS_AddElement
    <3>3. T = (S \ {v}) \union {u}
      BY <2>1
    <3> HIDE DEF T
    <3> QED
      BY <1>12, <3>2, <3>3, FS_CardinalityType
  <2>2. CASE v \notin S
    BY <1>12, <2>2
  <2> QED
    BY <2>1, <2>2
<1> HIDE DEF T
<1>16. IsFiniteSet(Seen(i)') /\ Cardinality(Seen(i)') <= Cardinality(T)
  BY <1>14, <1>15, FS_Subset
<1>17. Cardinality(Seen(i)') \in Nat
  BY <1>16, FS_CardinalityType
<1> QED
  BY <1>12, <1>13, <1>15, <1>16, <1>17, NodeFacts

(* A node with room left finds a colour: there are K of them.              *)
LEMMA RoomColors ==
  ASSUME Held, RoomLeft, NEW n \in Nodes, AssignColor(n), Colors \subseteq Taken(n)
  PROVE  n \in selected
<1> DEFINE L == Len(selectStack)
           W == {GetAlias(a) : a \in adjList(n)} \intersect (coloredNodes \union precolored)
<1>1. /\ n = selectStack[L] /\ L \in 1 .. Len(selectStack)
      /\ n \in Stacked /\ n \notin coloredNodes
  BY AssignFacts
<1>2. n \notin precolored
  <2> SUFFICES ASSUME n \in precolored PROVE FALSE
    OBVIOUS
  <2>1. Taken(n) = {}
    BY DEF Taken, adjList
  <2> QED
    BY <2>1, NodeFacts DEF Colors
<1> SUFFICES ASSUME n \notin selected PROVE FALSE
  OBVIOUS
<1>3. Cardinality(Seen(L)) < K
  BY <1>1, <1>2 DEF RoomLeft
<1>4. Below(L) = Stacked
  BY DEF Below, Stacked
<1>5. W \subseteq Seen(L)
  <2>1. \A a \in adjList(n) : GetAlias(a) = Rep[a]
    BY RepFacts DEF adjList
  <2>2. \A w \in coloredNodes \union precolored : w \notin Stacked \ precolored
    BY DEF Held, PlacesHeld, Apart
  <2> QED
    BY <1>1, <1>4, <2>1, <2>2 DEF Seen
<1>6. IsFiniteSet(W) /\ Cardinality(W) <= Cardinality(Seen(L))
  BY <1>5, SeenFinite, FS_Subset
<1> DEFINE f == [w \in W |-> color[w]]
<1>7. Taken(n) = {color[w] : w \in W}
  BY DEF Taken
<1> HIDE DEF W
<1>8. f \in Surjection(W, Taken(n))
  BY <1>7 DEF Surjection
<1>9. IsFiniteSet(Taken(n)) /\ Cardinality(Taken(n)) <= Cardinality(W)
  BY <1>6, <1>8, FS_Surjection
<1>10. Cardinality(Colors) <= Cardinality(Taken(n)) /\ Cardinality(Colors) = K
  <2>1. Cardinality(Colors) = K
    BY NodeFacts, FS_Interval DEF Colors
  <2> QED
    BY <1>9, <2>1, FS_Subset
<1>11. /\ Cardinality(W) \in Nat /\ Cardinality(Seen(L)) \in Nat
       /\ Cardinality(Taken(n)) \in Nat
  BY <1>6, <1>9, SeenFinite, FS_CardinalityType
<1> QED
  BY <1>3, <1>6, <1>9, <1>10, <1>11, NodeFacts

LEMMA PopRoom ==
  ASSUME Held, RoomLeft, SpilledSelected, NEW n \in Nodes, AssignColor(n)
  PROVE  RoomLeft' /\ SpilledSelected'
<1>1. /\ adjSet' = adjSet /\ Rep' = Rep /\ selected' = selected
      /\ selectStack' = SubSeq(selectStack, 1, Len(selectStack) - 1)
      /\ selectStack # <<>>
  BY RepUnchanged DEF AssignColor, graph
<1>2. /\ Len(selectStack) \in Nat \ {0} /\ Len(selectStack') = Len(selectStack) - 1
      /\ \A i \in 1 .. Len(selectStack) - 1 : selectStack'[i] = selectStack[i]
  BY <1>1, PopKeeps DEF Held
<1>3. RoomLeft'
  <2> SUFFICES ASSUME NEW i \in 1 .. Len(selectStack'),
                      selectStack'[i] \notin precolored \union selected'
               PROVE  Cardinality(Seen(i)') < K
    BY DEF RoomLeft
  <2>1. /\ i \in 1 .. Len(selectStack) /\ selectStack'[i] = selectStack[i]
        /\ \A j \in 1 .. i : selectStack'[j] = selectStack[j]
    BY <1>2
  <2>2. Below(i)' = Below(i) /\ adjList(selectStack[i])' = adjList(selectStack[i])
    BY <1>1, <2>1 DEF Below, adjList
  <2>3. Seen(i)' = Seen(i)
    BY <1>1, <2>1, <2>2 DEF Seen
  <2> QED
    BY <1>1, <2>1, <2>3 DEF RoomLeft
<1>4. SpilledSelected'
  <2>1. \/ spilledNodes' = spilledNodes
        \/ spilledNodes' = spilledNodes \union {n} /\ Colors \subseteq Taken(n)
    BY AssignFacts
  <2> QED
    BY <1>1, <2>1, RoomColors DEF SpilledSelected
<1> QED
  BY <1>3, <1>4

LEMMA SameRoom ==
  ASSUME RoomLeft, SpilledSelected, coalescedNodes' = coalescedNodes, alias' = alias,
         adjSet' = adjSet, selectStack' = selectStack, spilledNodes' = spilledNodes,
         selected \subseteq selected'
  PROVE  RoomLeft' /\ SpilledSelected'
<1>1. Rep' = Rep
  BY RepUnchanged
<1>2. \A i : Seen(i)' = Seen(i)
  BY <1>1 DEF Seen, Below, adjList
<1> QED
  BY <1>2 DEF RoomLeft, SpilledSelected

LEMMA StepRoom ==
  ASSUME Held, Joined, DegreesCount, RoomLeft, SpilledSelected, [Next]_vars
  PROVE  RoomLeft' /\ SpilledSelected'
<1>1. CASE \E n \in Nodes : Simplify(n)
  BY <1>1, PushRoom DEF Simplify, colors, SpilledSelected
<1>2. CASE \E n \in Nodes : AssignColor(n)
  BY <1>2, PopRoom
<1>3. CASE \E n \in Nodes : Freeze(n) \/ SelectSpill(n)
  BY <1>3, SameRoom DEF Freeze, SelectSpill, graph, colors
<1>4. CASE Coalesce
  <2>1. PICK m, u, v : /\ Considers(m, u, v)
                       /\ \/ CoalesceSame(m, u, v)
                          \/ CoalesceConstrained(m, u, v)
                          \/ CoalesceCombine(m, u, v)
                          \/ CoalesceLater(m, u, v)
    BY <1>4, CoalesceConsiders
  <2>2. CASE CoalesceCombine(m, u, v)
    <3>1. spilledNodes' = spilledNodes /\ selected' = selected
      BY <1>4 DEF Coalesce, colors
    <3> QED
      BY <1>4, <2>1, <2>2, <3>1, CombineRoom DEF SpilledSelected
  <2>3. CASE ~CoalesceCombine(m, u, v)
    BY <1>4, <2>1, <2>3, SameRoom
      DEF Coalesce, CoalesceSame, CoalesceConstrained, CoalesceLater, graph, colors
  <2> QED
    BY <2>2, <2>3
<1>5. CASE MakeWorklist \/ LeaveLoop \/ ColorCoalesced \/ UNCHANGED vars
  BY <1>5, SameRoom DEF MakeWorklist, LeaveLoop, ColorCoalesced, vars, graph, colors
<1> QED
  BY <1>1, <1>2, <1>3, <1>4, <1>5 DEF Next, Terminating

(* A temporary goes without a register only where SelectSpill gave up on   *)
(* it or on the node it was coalesced into: what Simplify pushed finds a   *)
(* colour, whatever was coalesced after it was pushed.                     *)
THEOREM SpillsAreSelected == Spec => []SpillsWereSelected
<1>1. Init => RoomLeft /\ SpilledSelected
  BY DEF Init, RoomLeft, SpilledSelected
<1>2. Held /\ Joined /\ DegreesCount /\ RoomLeft /\ SpilledSelected /\ [Next]_vars
        => RoomLeft' /\ SpilledSelected'
  BY StepRoom
<1>3. Held /\ SpilledSelected /\ ColorsGiven /\ ColorsFollow => SpillsWereSelected
  <2> SUFFICES ASSUME Held, SpilledSelected, ColorsGiven, ColorsFollow, phase = "done",
                      NEW n \in Temps, color[n] = NoColor
               PROVE  GetAlias(n) \in selected
    BY DEF SpillsWereSelected, SpilledSelected
  <2>1. n \in Nodes
    BY NodeFacts
  <2>2. /\ GetAlias(n) \in Nodes \ coalescedNodes
        /\ color[GetAlias(n)] = NoColor
    BY <2>1, RepFacts DEF ColorsFollow
  <2>3. GetAlias(n) \notin coloredNodes \union precolored
    BY <2>2 DEF ColorsGiven, HaveColor
  <2>4. OnWorklist = {} /\ Stacked = {}
    BY DEF Held, PlacesHeld, InPhase, Stacked
  <2>5. GetAlias(n) \in spilledNodes
    BY <2>2, <2>3, <2>4, NodeFacts DEF Held, PlacesHeld, Covered
  <2> QED
    BY <2>5 DEF SpilledSelected
<1> QED
  BY <1>1, <1>2, <1>3, HeldAlways, JoinedAlways, DegreesAlways, DifferAlways, PTL DEF Spec

-------------------------------------------------------------------------------
(* Every set of the temporaries that are left has one of low degree in it: *)
(* what is left can be taken apart.                                        *)
TakenApart ==
  phase \in {"make", "loop"} =>
    \A S \in SUBSET Live : S # {} => \E n \in S : Cardinality(Near(n, S)) < K

Spared ==
  Simplifiable /\ ~MergedNextToRegister => selected = {} /\ TakenApart

LEMMA InitSpared ==
  ASSUME Init
  PROVE  Spared
<1>1. Stacked = {} /\ coalescedNodes = {} /\ selected = {} /\ adjSet = input.edges
  BY DEF Init, Stacked
<1> SUFFICES ASSUME Simplifiable, NEW S \in SUBSET Live, S # {}
             PROVE  \E n \in S : Cardinality(Near(n, S)) < K
  BY <1>1 DEF Spared, TakenApart
<1>2. S \in (SUBSET Temps) \ {{}}
  BY <1>1 DEF Live
<1>3. PICK n \in S : Cardinality({k \in S \union precolored : <<n, k>> \in input.edges}) < K
  BY <1>2 DEF Simplifiable
<1>4. Near(n, S) = {k \in S \union precolored : <<n, k>> \in input.edges}
  BY <1>1, <1>2, NodeFacts DEF Near, adjList
<1> QED
  BY <1>3, <1>4

LEMMA CombineAdds ==
  ASSUME Held, Coalesce, NEW m, NEW u, NEW v, Considers(m, u, v),
         CoalesceCombine(m, u, v)
  PROVE  \A a, b : <<a, b>> \in adjSet' <=> \/ <<a, b>> \in adjSet
                                            \/ a \in Gained(u, v) /\ b = u
                                            \/ a = u /\ b \in Gained(u, v)
BY CombineEdges

(* A set that could be taken apart still can be when v has joined u.       *)
LEMMA CombineTakenApart ==
  ASSUME Held, DegreesCount, TakenApart, Coalesce, NEW m, NEW u, NEW v,
         Considers(m, u, v), CoalesceCombine(m, u, v), ~MergedNextToRegister',
         NEW S \in SUBSET Live', S # {}
  PROVE  \E n \in S : Cardinality(Near(n, S)') < K
<1> DEFINE G == Gained(u, v)
<1>1. /\ Live' = Live \ {v} /\ v \in Live /\ (u \in Live \/ u \in precolored)
      /\ u \in Temps => adjList(u)' = adjList(u) \union G
      /\ \A n \in Temps \ {u} :
           adjList(n)' = IF n \in G THEN adjList(n) \union {u} ELSE adjList(n)
      /\ \A n \in Live : v \in adjList(n) <=> n \in Adjacent(v)
      /\ \A n \in Temps : u \in adjList(n) <=> <<n, u>> \in adjSet
      /\ G \subseteq (precolored \union Live) \ {u, v}
  BY CombineNear
<1>2. /\ phase = "loop" /\ u \in Nodes /\ v \in Nodes /\ u # v /\ v \notin precolored
      /\ u \notin Stacked /\ u \notin coalescedNodes
      /\ v \notin Stacked /\ v \notin coalescedNodes /\ v \in Temps
      /\ coalescedNodes' = coalescedNodes \union {v}
  BY CombineEdges, NodeFacts
<1>3. \A n \in Live : n \in Temps /\ n \in Nodes /\ n \notin precolored
  BY NodeFacts DEF Live
<1>4. \A n \in Live : degree[n] = Cardinality(Near(n, Live))
  BY <1>2 DEF DegreesCount
<1>5. \A t : t \in G <=> t \in Adjacent(v) /\ <<t, u>> \notin adjSet
  BY DEF Gained
<1>6. \A n, T : IsFiniteSet(Near(n, T)) /\ Cardinality(Near(n, T)) \in Nat
  BY NearFinite
<1> HIDE DEF G
<1>7. S \subseteq Live /\ v \notin S
  BY <1>1
<1>8. PICK s \in S : Cardinality(Near(s, S)) < K
  BY <1>2, <1>7 DEF TakenApart
<1>9. SafeToCoalesce(u, v)
  BY DEF CoalesceCombine
(* A neighbour of v that gains u loses v: no count goes up for it.         *)
<1>10. ASSUME NEW n \in S, n # u
       PROVE  /\ IsFiniteSet(Near(n, S)') /\ Cardinality(Near(n, S)') \in Nat
              /\ Cardinality(Near(n, S)') <= degree[n]
  <2> DEFINE N == Near(n, Live)
  <2>1. n \in Live /\ n \in Temps /\ n # v
    BY <1>3, <1>7
  <2>2. IsFiniteSet(N) /\ Cardinality(N) \in Nat /\ degree[n] = Cardinality(N)
    BY <1>4, <1>6, <2>1
  <2>3. CASE n \in G
    <3>1. v \in N
      BY <1>1, <1>5, <2>1, <2>3 DEF Near
    <3>2. Near(n, S)' \subseteq (N \ {v}) \union {u}
      BY <1>1, <1>2, <1>7, <1>10, <2>1, <2>3 DEF Near
    <3> HIDE DEF N
    <3>3. IsFiniteSet(N \ {v}) /\ Cardinality(N \ {v}) = Cardinality(N) - 1
      BY <2>2, <3>1, FS_RemoveElement
    <3>4. /\ IsFiniteSet((N \ {v}) \union {u})
          /\ Cardinality((N \ {v}) \union {u}) \in {Cardinality(N) - 1, Cardinality(N) - 1 + 1}
      BY <3>3, FS_AddElement
    <3>5. /\ IsFiniteSet(Near(n, S)')
          /\ Cardinality(Near(n, S)') <= Cardinality((N \ {v}) \union {u})
      BY <3>2, <3>4, FS_Subset
    <3>6. Cardinality(Near(n, S)') \in Nat
      BY <3>5, FS_CardinalityType
    <3> QED
      BY <2>2, <3>4, <3>5, <3>6
  <2>4. CASE n \notin G
    <3>1. Near(n, S)' \subseteq N
      BY <1>1, <1>7, <1>10, <2>1, <2>4 DEF Near
    <3> HIDE DEF N
    <3>2. IsFiniteSet(Near(n, S)') /\ Cardinality(Near(n, S)') <= Cardinality(N)
      BY <2>2, <3>1, FS_Subset
    <3> QED
      BY <2>2, <3>2, FS_CardinalityType
  <2> QED
    BY <2>3, <2>4
<1>11. /\ \A n \in S : n \in Live /\ n \in Temps /\ n \notin precolored
       /\ v \notin precolored
  BY <1>2, <1>3, <1>7
(* Where u is outside S and no node of S gains it as a register, S is as   *)
(* it was.                                                                 *)
<1>12. CASE u \notin S /\ (u \in precolored => s \notin G)
  <2>1. Near(s, S)' = Near(s, S)
    BY <1>1, <1>11, <1>12 DEF Near
  <2> QED
    BY <1>8, <2>1
(* George's test: a node that gains a register had a low degree.           *)
<1>13. CASE u \in precolored /\ s \in G
  <2>1. s \in Adjacent(v) /\ <<s, u>> \notin adjSet
    BY <1>5, <1>13
  <2>2. degree[s] < K
    BY <1>9, <1>11, <1>13, <2>1 DEF SafeToCoalesce, OK
  <2>3. /\ Cardinality(Near(s, S)') \in Nat /\ Cardinality(Near(s, S)') <= degree[s]
        /\ degree[s] \in Nat
    BY <1>4, <1>6, <1>10, <1>11, <1>13
  <2> QED
    BY <2>2, <2>3, NodeFacts
(* Briggs' test: were every other node of S of high degree, u's            *)
(* neighbours in S would be among those that Conservative counts.          *)
<1>14. CASE u \in S
  <2> SUFFICES ASSUME \A n \in S : ~(Cardinality(Near(n, S)') < K) PROVE FALSE
    OBVIOUS
  <2> DEFINE B == {n \in Adjacent(u) \union Adjacent(v) : degree[n] >= K}
  <2>1. Cardinality(B) < K
    BY <1>9, <1>11, <1>14 DEF SafeToCoalesce, Conservative
  <2>2. \A n \in S : n # u => degree[n] >= K
    <3> SUFFICES ASSUME NEW n \in S, n # u PROVE degree[n] >= K
      OBVIOUS
    <3>1. /\ Cardinality(Near(n, S)') \in Nat /\ Cardinality(Near(n, S)') <= degree[n]
          /\ degree[n] \in Nat
      BY <1>4, <1>6, <1>10, <1>11
    <3>2. ~(Cardinality(Near(n, S)') < K) /\ K \in Nat
      BY NodeFacts
    <3> QED
      BY <3>1, <3>2
  <2>3. adjList(u)' = adjList(u) \union G /\ u \in Temps
    BY <1>1, <1>11, <1>14
  <2>4. \A r \in precolored : r \notin adjList(u)'
    <3> SUFFICES ASSUME NEW r \in precolored, r \in adjList(u) \union G PROVE FALSE
      BY <2>3
    <3>1. /\ \A a, b : <<a, b>> \in adjSet =>
                a \in Nodes /\ b \in Nodes /\ a # b /\ <<b, a>> \in adjSet
          /\ \A k \in Temps : adjList(k) = {w \in Nodes : <<k, w>> \in adjSet}
      BY Edges
    <3>2. <<r, u>> \in adjSet'
      <4>1. r \in adjList(u) => <<r, u>> \in adjSet
        BY <2>3, <3>1
      <4>2. r \in G => <<r, u>> \in adjSet'
        BY CombineAdds DEF G
      <4> QED
        BY CombineAdds, <4>1, <4>2
    <3>3. \A n \in Nodes : Rep'[n] = IF Rep[n] = v THEN u ELSE Rep[n]
      BY CombineEdges
    <3>4. Rep[v] = v
      BY <1>2, RepFacts
    <3>5. GetAlias(v)' = u
      BY <1>2, <3>3, <3>4 DEF Rep
    <3> QED
      BY <1>2, <3>2, <3>5 DEF MergedNextToRegister
  <2>5. Near(u, S)' \subseteq B
    <3> SUFFICES ASSUME NEW t \in Near(u, S)' PROVE t \in B
      OBVIOUS
    <3>1. t \in S /\ t \in adjList(u) \union G
      BY <2>3, <2>4 DEF Near
    <3>2. t # u
      <4>1. u \notin adjList(u)
        BY <2>3, Edges
      <4> QED
        BY <1>1, <3>1, <4>1
    <3>3. t \in Adjacent(u) \union Adjacent(v)
      BY <1>5, <1>11, <3>1 DEF Adjacent, Live
    <3> QED
      BY <2>2, <3>1, <3>2, <3>3
  <2>6. IsFiniteSet(B) /\ Cardinality(B) \in Nat
    <3>1. B \subseteq Nodes
      BY <1>2, AdjacentAreNodes
    <3> QED
      BY <3>1, NodesFinite, FS_Subset, FS_CardinalityType
  <2> HIDE DEF B
  <2>7. Cardinality(Near(u, S)') <= Cardinality(B) /\ Cardinality(Near(u, S)') \in Nat
    BY <2>5, <2>6, FS_Subset, FS_CardinalityType
  <2> QED
    BY <1>14, <2>1, <2>6, <2>7, NodeFacts
<1> QED
  BY <1>11, <1>12, <1>13, <1>14

(* A merge next to a register stays one.                                   *)
LEMMA CombineNextToRegister ==
  ASSUME Held, Coalesce, NEW m, NEW u, NEW v, Considers(m, u, v),
         CoalesceCombine(m, u, v), MergedNextToRegister
  PROVE  MergedNextToRegister'
<1>1. PICK n \in coalescedNodes, r \in precolored :
        <<r, n>> \in adjSet \/ <<r, GetAlias(n)>> \in adjSet
  BY DEF MergedNextToRegister
<1>2. /\ \A k \in Nodes : Rep'[k] = IF Rep[k] = v THEN u ELSE Rep[k]
      /\ coalescedNodes' = coalescedNodes \union {v}
  BY CombineEdges
<1>3. \A a, b : <<a, b>> \in adjSet => <<a, b>> \in adjSet'
  BY CombineEdges
<1>4. n \in Nodes /\ GetAlias(n) = Rep[n] /\ GetAlias(n)' = Rep'[n]
  BY DEF Held, TypeOK, GraphTypes, Rep
<1>5. CASE <<r, n>> \in adjSet
  BY <1>2, <1>3, <1>5 DEF MergedNextToRegister
<1>6. CASE <<r, GetAlias(n)>> \in adjSet /\ GetAlias(n) = v
  BY <1>2, <1>3, <1>6 DEF MergedNextToRegister
<1>7. CASE <<r, GetAlias(n)>> \in adjSet /\ GetAlias(n) # v
  <2>1. GetAlias(n)' = GetAlias(n)
    BY <1>2, <1>4, <1>7
  <2>2. <<r, GetAlias(n)'>> \in adjSet' /\ n \in coalescedNodes'
    BY <1>2, <1>3, <1>7, <2>1
  <2> QED
    BY <2>2 DEF MergedNextToRegister
<1> QED
  BY <1>1, <1>5, <1>6, <1>7

LEMMA SameNextToRegister ==
  ASSUME coalescedNodes' = coalescedNodes, alias' = alias, adjSet' = adjSet
  PROVE  MergedNextToRegister' <=> MergedNextToRegister
<1>1. \A n : GetAlias(n)' = GetAlias(n)
  BY AliasUnchanged
<1> QED
  BY <1>1 DEF MergedNextToRegister

LEMMA SimplifyTakenApart ==
  ASSUME Held, TakenApart, NEW n \in Nodes, Simplify(n)
  PROVE  TakenApart'
<1>1. Stacked' = Stacked \union {n}
  BY StackPush DEF Simplify, Held
<1>2. phase = "loop" /\ adjSet' = adjSet /\ coalescedNodes' = coalescedNodes
  BY DEF Simplify
<1>3. Live' \subseteq Live
  BY <1>1, <1>2 DEF Live
<1>4. \A k, S : Near(k, S)' = Near(k, S)
  BY <1>2 DEF Near, adjList
<1> QED
  BY <1>2, <1>3, <1>4 DEF TakenApart

(* While what is left can be taken apart, a node of it has a low degree:   *)
(* it waits to be simplified or to be frozen, and nothing is given up.     *)
LEMMA NothingToSpill ==
  ASSUME Held, DegreesCount, TakenApart, selected = {}, NEW n \in Nodes, SelectSpill(n)
  PROVE  FALSE
<1>1. /\ phase = "loop" /\ simplifyWorklist = {} /\ freezeWorklist = {}
      /\ n \in spillWorklist
  BY DEF SelectSpill
<1>2. precolored \union Live = precolored \union spillWorklist
  BY <1>1, LiveOnWorklists DEF OnWorklist
<1>3. \A k \in Live : k \in spillWorklist
  BY <1>2, NodeFacts DEF Live
<1>4. \A k \in spillWorklist : degree[k] >= K
  BY <1>1 DEF Held, WorklistInvariant
<1>5. n \in Live
  <2>1. n \notin precolored
    BY <1>1 DEF Held, PlacesHeld, RegistersStay
  <2> QED
    BY <1>1, <1>2, <2>1
<1>6. PICK k \in Live : Cardinality(Near(k, Live)) < K
  BY <1>1, <1>5 DEF TakenApart
<1>7. degree[k] = Cardinality(Near(k, Live)) /\ Cardinality(Near(k, Live)) \in Nat
  BY <1>1, NearFinite DEF DegreesCount
<1> QED
  BY <1>3, <1>4, <1>6, <1>7, NodeFacts

LEMMA SameSpared ==
  ASSUME Spared, input' = input, coalescedNodes' = coalescedNodes, alias' = alias,
         adjSet' = adjSet, selectStack' = selectStack, selected' = selected,
         phase' \in {"make", "loop"} => phase \in {"make", "loop"}
  PROVE  Spared'
<1>1. MergedNextToRegister' <=> MergedNextToRegister
  BY SameNextToRegister
<1>2. Live' = Live
  BY DEF Live, Stacked
<1>3. \A k, S : Near(k, S)' = Near(k, S)
  BY DEF Near, adjList
<1>4. TakenApart => TakenApart'
  BY <1>2, <1>3 DEF TakenApart
<1>5. Simplifiable' <=> Simplifiable
  BY DEF Simplifiable
<1> QED
  BY <1>1, <1>4, <1>5 DEF Spared

LEMMA StepSpared ==
  ASSUME Held, DegreesCount, Spared, [Next]_vars
  PROVE  Spared'
<1>1. Simplifiable' <=> Simplifiable
  <2>1. input' = input
    BY DEF Next, MakeWorklist, Simplify, Coalesce, Freeze, SelectSpill, LeaveLoop,
           AssignColor, ColorCoalesced, Terminating, vars
  <2> QED
    BY <2>1 DEF Simplifiable
<1>2. CASE \E n \in Nodes : Simplify(n)
  <2>1. PICK n \in Nodes : Simplify(n)
    BY <1>2
  <2>2. /\ coalescedNodes' = coalescedNodes /\ alias' = alias /\ adjSet' = adjSet
        /\ selected' = selected
    BY <2>1 DEF Simplify
  <2> QED
    BY <1>1, <2>1, <2>2, SameNextToRegister, SimplifyTakenApart DEF Spared
<1>3. CASE \E n \in Nodes : SelectSpill(n)
  <2>1. PICK n \in Nodes : SelectSpill(n)
    BY <1>3
  <2>2. ~(selected = {} /\ TakenApart)
    BY <2>1, NothingToSpill
  <2>3. coalescedNodes' = coalescedNodes /\ alias' = alias /\ adjSet' = adjSet
    BY <2>1 DEF SelectSpill, graph
  <2> QED
    BY <1>1, <2>2, <2>3, SameNextToRegister DEF Spared
<1>4. CASE \E n \in Nodes : Freeze(n)
  BY <1>4, SameSpared DEF Freeze, graph
<1>5. CASE \E n \in Nodes : AssignColor(n)
  <2>1. /\ coalescedNodes' = coalescedNodes /\ alias' = alias /\ adjSet' = adjSet
        /\ selected' = selected /\ phase' = "assign"
    BY <1>5 DEF AssignColor, graph
  <2> QED
    BY <1>1, <2>1, SameNextToRegister DEF Spared, TakenApart
<1>6. CASE Coalesce
  <2>1. PICK m, u, v : /\ Considers(m, u, v)
                       /\ \/ CoalesceSame(m, u, v)
                          \/ CoalesceConstrained(m, u, v)
                          \/ CoalesceCombine(m, u, v)
                          \/ CoalesceLater(m, u, v)
    BY <1>6, CoalesceConsiders
  <2>2. input' = input /\ selected' = selected /\ selectStack' = selectStack /\ phase' = phase
    BY <1>6 DEF Coalesce
  <2>3. CASE CoalesceCombine(m, u, v)
    <3> SUFFICES ASSUME Simplifiable', ~MergedNextToRegister'
                 PROVE  selected' = {} /\ TakenApart'
      BY DEF Spared
    <3>1. Simplifiable /\ ~MergedNextToRegister
      BY <1>1, <1>6, <2>1, <2>3, CombineNextToRegister
    <3>2. selected = {} /\ TakenApart
      BY <3>1 DEF Spared
    <3>3. \A S \in SUBSET Live' : S # {} => \E n \in S : Cardinality(Near(n, S)') < K
      BY <1>6, <2>1, <2>3, <3>2, CombineTakenApart
    <3> QED
      BY <2>2, <3>2, <3>3 DEF TakenApart
  <2>4. CASE ~CoalesceCombine(m, u, v)
    BY <2>1, <2>2, <2>4, SameSpared
      DEF CoalesceSame, CoalesceConstrained, CoalesceLater, graph
  <2> QED
    BY <2>3, <2>4
<1>7. CASE MakeWorklist \/ LeaveLoop \/ ColorCoalesced \/ UNCHANGED vars
  BY <1>7, SameSpared DEF MakeWorklist, LeaveLoop, ColorCoalesced, vars, graph
<1> QED
  BY <1>2, <1>3, <1>4, <1>5, <1>6, <1>7 DEF Next, Terminating

(* Where the graph of build() could be taken apart without giving up a     *)
(* node, Coalesce leaves one that can: SelectSpill is reached only when a  *)
(* coalesced node has a register for a neighbour, which Briggs' test in    *)
(* Conservative does not count.                                            *)
THEOREM SpillsOnlyWhenNeeded == Spec => []CoalescingIsConservative
<1>1. Init => Spared
  BY InitSpared
<1>2. Held /\ DegreesCount /\ Spared /\ [Next]_vars => Spared'
  BY StepSpared
<1>3. Spared => CoalescingIsConservative
  BY DEF Spared, CoalescingIsConservative
<1> QED
  BY <1>1, <1>2, <1>3, HeldAlways, DegreesAlways, PTL DEF Spec
=============================================================================
