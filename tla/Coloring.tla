------------------------------- MODULE Coloring -------------------------------
(***************************************************************************)
(* One round of Color_Main (color.c): iterated register coalescing, from   *)
(* the interference graph and move lists that build() leaves behind to the *)
(* colours and the spilled nodes that AssignColors() leaves behind.        *)
(*                                                                         *)
(* Each procedure the main loop calls is one action.  The loops inside a   *)
(* procedure (over the neighbours of a node, over the moves of a node) are *)
(* closed forms: their iterations read and write different nodes, except   *)
(* that they share activeMoves and worklistMoves, whose union they leave   *)
(* alone and which is all MoveRelated reads.                               *)
(*                                                                         *)
(* Nodes are numbered as G_Node numbers them (mykey), the machine          *)
(* registers first; SET_pop takes the largest of a set of nodes.           *)
(* worklistMoves is ordered by the address of the instruction, so any of   *)
(* its moves may be the one Coalesce meets first.                          *)
(***************************************************************************)
EXTENDS Integers, Sequences, FiniteSets

CONSTANTS
  K,          \* F_numGPR, the number of machine registers and of colours
  NTemps,     \* the number of temporaries to be coloured
  Moves,      \* the move instructions
  Inputs      \* what build() may produce

precolored == 1 .. K
Temps == K + 1 .. K + NTemps
Nodes == 1 .. K + NTemps

(* The registers by number.  (ColorsFromZero, like every operator below    *)
(* that is introduced as a fault, is a plausible bug that shows a property *)
(* of this module can fail; no action uses it.)                            *)
ColorsFromZero == 0 .. K - 1
Colors == 1 .. K
NoColor == 0

(* What AddEdge lets build() put into adjSet: edges both ways round, and   *)
(* none from a node to itself.                                             *)
Graphs == {E \in SUBSET (Nodes \X Nodes) :
             \A e \in E : e[1] # e[2] /\ <<e[2], e[1]>> \in E}

(* A result of build(): the interference edges and for each move           *)
(* instruction its source and destination.                                 *)
Input == [edges : Graphs, src : [Moves -> Nodes], dst : [Moves -> Nodes]]

ASSUME KAssumption == K \in Nat \ {0}
ASSUME NTempsAssumption == NTemps \in Nat
ASSUME InputsAssumption == Inputs \subseteq Input

VARIABLES
  input,             \* what build() produced; never written
  phase,             \* where Color_Main is
  adjSet,            \* the interference edges, grown by Combine
  degree,
  moveList,
  worklistMoves, activeMoves, coalescedMoves, constrainedMoves, frozenMoves,
  simplifyWorklist, freezeWorklist, spillWorklist,
  selectStack,
  coalescedNodes, alias,
  coloredNodes, spilledNodes, color,
  selected           \* history: the nodes SelectSpill has chosen

moveSets == <<worklistMoves, activeMoves, coalescedMoves, constrainedMoves,
              frozenMoves>>
worklists == <<simplifyWorklist, freezeWorklist, spillWorklist>>
graph == <<adjSet, degree, moveList, coalescedNodes, alias>>
colors == <<coloredNodes, spilledNodes, color>>

vars == <<input, phase, graph, moveSets, worklists, selectStack, colors,
          selected>>

Src(m) == input.src[m]
Dst(m) == input.dst[m]

Stacked == {selectStack[i] : i \in 1 .. Len(selectStack)}

(* AddEdge is the only writer of adjList and keeps it equal to what adjSet *)
(* says of a node that is not a machine register; a register's list and    *)
(* its own degree are never added to.                                      *)
adjList(n) == IF n \in precolored THEN {} ELSE {m \in Nodes : <<n, m>> \in adjSet}

(* The neighbours still in the graph.  Fault: those on the stack count.    *)
AdjacentStacked(n) == adjList(n) \ coalescedNodes

Adjacent(n) == adjList(n) \ (Stacked \union coalescedNodes)

(* The moves of n that are undecided.  Fault: every move n ever had.       *)
NodeMovesEver(n) == moveList[n]

NodeMoves(n) == moveList[n] \intersect (activeMoves \union worklistMoves)

(* Fault: moves set aside for later are forgotten.                         *)
MoveRelatedWaiting(n) == moveList[n] \intersect worklistMoves # {}

MoveRelated(n) == NodeMoves(n) # {}

(* GetAlias follows alias[] while the node is coalesced; no chain is       *)
(* longer than there are nodes, so an answer that is itself coalesced      *)
(* means that the code would not return.                                  *)
GetAlias(n) ==
  LET follow[k \in 0 .. K + NTemps] ==
        [m \in Nodes |-> IF k = 0 \/ m \notin coalescedNodes
                         THEN m ELSE follow[k - 1][alias[m]]]
  IN  follow[K + NTemps][n]

(* What SET_pop takes out of a set ordered by number.                      *)
IsLast(n, S) == n \in S /\ \A m \in S : m <= n

(* degree is an int that build() counts up from 0; a register's goes down  *)
(* from 0, once for each neighbour that is removed.                        *)
Degrees == Int

MoveTypes ==
  /\ worklistMoves \subseteq Moves /\ activeMoves \subseteq Moves
  /\ coalescedMoves \subseteq Moves /\ constrainedMoves \subseteq Moves
  /\ frozenMoves \subseteq Moves
  /\ moveList \in [Nodes -> SUBSET Moves]

GraphTypes ==
  /\ adjSet \subseteq Nodes \X Nodes
  /\ degree \in [Nodes -> Degrees]
  /\ coalescedNodes \subseteq Nodes
  /\ alias \in [Nodes -> Nodes]

PlaceTypes ==
  /\ simplifyWorklist \subseteq Nodes /\ freezeWorklist \subseteq Nodes
  /\ spillWorklist \subseteq Nodes
  /\ selectStack \in Seq(Nodes)
  /\ selected \subseteq Nodes

ColorTypes ==
  /\ coloredNodes \subseteq Nodes /\ spilledNodes \subseteq Nodes
  /\ color \in [Nodes -> Colors \union {NoColor}]

TypeOK ==
  /\ input \in Input
  /\ phase \in {"make", "loop", "assign", "done"}
  /\ MoveTypes /\ GraphTypes /\ PlaceTypes /\ ColorTypes

-------------------------------------------------------------------------------
(* After build(): every temporary of the program is still in initial, each *)
(* move is listed at its two ends and waits in worklistMoves, and a        *)
(* temporary's degree is the number of its neighbours.  alias is undefined *)
(* where nothing is coalesced; a node stands for itself there.             *)
Init ==
  /\ input \in Inputs
  /\ phase = "make"
  /\ adjSet = input.edges
  /\ degree = [n \in Nodes |-> Cardinality(adjList(n))]
  /\ moveList = [n \in Nodes |-> {m \in Moves : n \in {Src(m), Dst(m)}}]
  /\ worklistMoves = Moves
  /\ activeMoves = {} /\ coalescedMoves = {} /\ constrainedMoves = {}
  /\ frozenMoves = {}
  /\ simplifyWorklist = {} /\ freezeWorklist = {} /\ spillWorklist = {}
  /\ selectStack = <<>>
  /\ coalescedNodes = {}
  /\ alias = [n \in Nodes |-> n]
  /\ coloredNodes = {} /\ spilledNodes = {}
  /\ color = [n \in Nodes |-> IF n \in precolored THEN n ELSE NoColor]
  /\ selected = {}

(* MakeWorklist(): every temporary of initial goes to one worklist.        *)
(* Fault: a temporary of degree K is taken for insignificant.              *)
MakeWorklistOffByOne ==
  /\ phase = "make"
  /\ spillWorklist' = {n \in Temps : degree[n] > K}
  /\ freezeWorklist' = {n \in Temps : degree[n] <= K /\ MoveRelated(n)}
  /\ simplifyWorklist' = {n \in Temps : degree[n] <= K /\ ~MoveRelated(n)}
  /\ phase' = "loop"
  /\ UNCHANGED <<input, graph, moveSets, selectStack, colors, selected>>

MakeWorklist ==
  /\ phase = "make"
  /\ spillWorklist' = {n \in Temps : degree[n] >= K}
  /\ freezeWorklist' = {n \in Temps : degree[n] < K /\ MoveRelated(n)}
  /\ simplifyWorklist' = {n \in Temps : degree[n] < K /\ ~MoveRelated(n)}
  /\ phase' = "loop"
  /\ UNCHANGED <<input, graph, moveSets, selectStack, colors, selected>>

(* EnableMoves(nodes): the active moves of the nodes that wait again.      *)
Enabled(nodes) ==
  activeMoves \intersect UNION {moveList[n] : n \in nodes}

(* Simplify(): push a node, and call DecrementDegree on the neighbours     *)
(* that are left.  One whose degree drops below K has its moves, and those *)
(* of its neighbours, reconsidered, and leaves the spill worklist.         *)
Simplify(n) ==
  /\ phase = "loop"
  /\ IsLast(n, simplifyWorklist)
  /\ LET adj == Adjacent(n) \ {n}
         hits == {m \in adj : degree[m] = K}
         near == hits \union UNION {Adjacent(m) \ {n} : m \in hits}
     IN  /\ selectStack' = Append(selectStack, n)
         /\ degree' = [m \in Nodes |-> IF m \in adj THEN degree[m] - 1 ELSE degree[m]]
         /\ activeMoves' = activeMoves \ Enabled(near)
         /\ worklistMoves' = worklistMoves \union Enabled(near)
         /\ spillWorklist' = spillWorklist \ hits
         /\ freezeWorklist' = freezeWorklist \union {m \in hits : MoveRelated(m)}
         /\ simplifyWorklist' =
              (simplifyWorklist \ {n}) \union {m \in hits : ~MoveRelated(m)}
  /\ UNCHANGED <<input, phase, adjSet, moveList, coalescedNodes, alias,
                 coalescedMoves, constrainedMoves, frozenMoves, colors, selected>>

-------------------------------------------------------------------------------
(* The representatives of a move's two ends, a machine register first.     *)
Ends(m) ==
  LET x == GetAlias(Src(m))
      y == GetAlias(Dst(m))
  IN  IF y \in precolored THEN <<y, x>> ELSE <<x, y>>

(* What AddWorkList takes from freezeWorklist to simplifyWorklist, once    *)
(* the move under consideration is no longer waiting.  Fault: whatever the *)
(* degree.                                                                 *)
ReleasedAnyDegree(nodes) == {n \in nodes \ precolored : ~MoveRelated(n)'}

Released(nodes) ==
  {n \in nodes \ precolored : ~MoveRelated(n)' /\ degree'[n] < K}

(* Fault: edges inherited from coalesced nodes are not seen.               *)
CannotCoalesceStale(u, v) == v \in precolored \/ <<u, v>> \in input.edges

CannotCoalesce(u, v) == v \in precolored \/ <<u, v>> \in adjSet

(* OK(t, r)                                                                *)
OK(t, r) == degree[t] < K \/ t \in precolored \/ <<t, r>> \in adjSet

(* Fewer than K neighbours of significant degree.  Fault: K will do.       *)
ConservativeAtMost(nodes) == Cardinality({n \in nodes : degree[n] >= K}) <= K

Conservative(nodes) == Cardinality({n \in nodes : degree[n] >= K}) < K

(* George's test against a register, Briggs' between temporaries.          *)
SafeToCoalesce(u, v) ==
  IF u \in precolored
  THEN \A t \in Adjacent(v) : OK(t, u)
  ELSE Conservative(Adjacent(u) \union Adjacent(v))

(* Coalesce(), first branch: the ends have become one node already.        *)
CoalesceSame(m, u, v) ==
  /\ u = v
  /\ worklistMoves' = worklistMoves \ {m}
  /\ coalescedMoves' = coalescedMoves \union {m}
  /\ UNCHANGED <<graph, activeMoves, constrainedMoves, frozenMoves, spillWorklist>>
  /\ freezeWorklist' = freezeWorklist \ Released({u})
  /\ simplifyWorklist' = simplifyWorklist \union Released({u})

(* Second branch: the ends interfere, or are both registers.               *)
CoalesceConstrained(m, u, v) ==
  /\ u # v
  /\ CannotCoalesce(u, v)
  /\ worklistMoves' = worklistMoves \ {m}
  /\ constrainedMoves' = constrainedMoves \union {m}
  /\ UNCHANGED <<graph, activeMoves, coalescedMoves, frozenMoves, spillWorklist>>
  /\ freezeWorklist' = freezeWorklist \ Released({u, v})
  /\ simplifyWorklist' = simplifyWorklist \union Released({u, v})

(* Third branch: Combine(u, v), then AddWorkList(u).  AddEdge(t, u) and    *)
(* DecrementDegree(t) are called for each neighbour t of v that is left:   *)
(* raised is t's degree between the two.                                   *)
CoalesceCombine(m, u, v) ==
  /\ u # v
  /\ ~CannotCoalesce(u, v)
  /\ SafeToCoalesce(u, v)
  /\ LET adjV == Adjacent(v)
         gained == {t \in adjV : <<t, u>> \notin adjSet}
         raised == [t \in adjV |->
                      IF t \in gained \ precolored THEN degree[t] + 1 ELSE degree[t]]
         hits == {t \in adjV : raised[t] = K}
         near == {v} \union hits \union UNION {Adjacent(t)' : t \in hits}
         enabled == activeMoves \intersect UNION {moveList'[n] : n \in near}
         frozen == (freezeWorklist \ {v}) \union {t \in hits : MoveRelated(t)'}
         tooHigh == {n \in {u} \intersect frozen : degree'[n] >= K}
     IN  /\ coalescedNodes' = coalescedNodes \union {v}
         /\ alias' = [alias EXCEPT ![v] = u]
         /\ moveList' = [moveList EXCEPT ![u] = @ \union moveList[v]]
         /\ adjSet' = adjSet \union {<<t, u>> : t \in gained}
                             \union {<<u, t>> : t \in gained}
         /\ degree' = [n \in Nodes |->
              CASE n \in adjV -> raised[n] - 1
                [] n = u /\ u \notin precolored -> degree[u] + Cardinality(gained)
                [] OTHER -> degree[n]]
         /\ UNCHANGED selectStack
         /\ worklistMoves' = (worklistMoves \ {m}) \union enabled
         /\ activeMoves' = activeMoves \ enabled
         /\ spillWorklist' = (spillWorklist \ ({v} \union hits)) \union tooHigh
         /\ freezeWorklist' = frozen \ (tooHigh \union Released({u}))
         /\ simplifyWorklist' = simplifyWorklist
              \union {t \in hits : ~MoveRelated(t)'} \union Released({u})
  /\ coalescedMoves' = coalescedMoves \union {m}
  /\ UNCHANGED <<constrainedMoves, frozenMoves>>

(* Fourth branch: not now.  Fault: the move is left where it was.          *)
CoalesceLaterStays(m, u, v) ==
  /\ u # v
  /\ ~CannotCoalesce(u, v)
  /\ ~SafeToCoalesce(u, v)
  /\ activeMoves' = activeMoves \union {m}
  /\ UNCHANGED <<graph, worklistMoves, coalescedMoves, constrainedMoves,
                 frozenMoves, worklists>>

CoalesceLater(m, u, v) ==
  /\ u # v
  /\ ~CannotCoalesce(u, v)
  /\ ~SafeToCoalesce(u, v)
  /\ worklistMoves' = worklistMoves \ {m}
  /\ activeMoves' = activeMoves \union {m}
  /\ UNCHANGED <<graph, coalescedMoves, constrainedMoves, frozenMoves, worklists>>

(* Coalesce(), run when nothing can be simplified.  (Were the aliases of   *)
(* an end to go round in circles, this step could not be taken: the model, *)
(* like the code, would be stuck.)                                         *)
Coalesce ==
  /\ phase = "loop"
  /\ simplifyWorklist = {}
  /\ \E m \in worklistMoves : LET ends == Ends(m) IN \E u, v \in Nodes \ coalescedNodes :
       /\ ends = <<u, v>>
       /\ \/ CoalesceSame(m, u, v)
          \/ CoalesceConstrained(m, u, v)
          \/ CoalesceCombine(m, u, v)
          \/ CoalesceLater(m, u, v)
  /\ UNCHANGED <<input, phase, selectStack, colors, selected>>

-------------------------------------------------------------------------------
(* The node at the far end of a move of u, as FreezeMoves finds it.        *)
FarEnd(m, u) ==
  IF GetAlias(Dst(m)) = GetAlias(u) THEN GetAlias(Src(m)) ELSE GetAlias(Dst(m))

(* FreezeMoves(u): give up on the moves of u; a far end that has no other  *)
(* move waiting and a low degree can be simplified.                        *)
FreezeMoves(u) ==
  /\ activeMoves' = activeMoves \ NodeMoves(u)
  /\ frozenMoves' = frozenMoves \union NodeMoves(u)
  /\ LET free == {v \in Nodes : /\ \E m \in NodeMoves(u) : FarEnd(m, u) = v
                               /\ NodeMoves(v)' = {}
                               /\ degree[v] < K}
     IN  /\ freezeWorklist' = freezeWorklist \ ({u} \union free)
         /\ simplifyWorklist' = simplifyWorklist \union {u} \union free

(* Freeze()                                                                *)
Freeze(u) ==
  /\ phase = "loop"
  /\ simplifyWorklist = {} /\ worklistMoves = {}
  /\ IsLast(u, freezeWorklist)
  /\ UNCHANGED <<input, phase, graph, worklistMoves, coalescedMoves,
                 constrainedMoves, spillWorklist, selectStack, colors, selected>>
  /\ FreezeMoves(u)

(* The last node of spillWorklist with the highest degree.                 *)
IsSpillChoice(n) ==
  /\ \A m \in spillWorklist : degree[m] <= degree[n]
  /\ IsLast(n, {m \in spillWorklist : degree[m] = degree[n]})

(* SelectSpill()                                                           *)
SelectSpill(n) ==
  /\ phase = "loop"
  /\ simplifyWorklist = {} /\ worklistMoves = {} /\ freezeWorklist = {}
  /\ n \in spillWorklist /\ IsSpillChoice(n)
  /\ spillWorklist' = spillWorklist \ {n}
  /\ UNCHANGED <<input, phase, graph, worklistMoves, coalescedMoves,
                 constrainedMoves, selectStack, colors>>
  /\ FreezeMoves(n)
  /\ selected' = selected \union {n}

(* The main loop's exit test.                                              *)
LeaveLoop ==
  /\ phase = "loop"
  /\ simplifyWorklist = {} /\ worklistMoves = {}
  /\ freezeWorklist = {} /\ spillWorklist = {}
  /\ phase' = "assign"
  /\ UNCHANGED <<input, graph, moveSets, worklists, selectStack, colors, selected>>

-------------------------------------------------------------------------------
(* The colours AssignColors may not give n.                                *)
Taken(n) ==
  {color[w] : w \in {GetAlias(a) : a \in adjList(n)}
                      \intersect (coloredNodes \union precolored)}

(* AssignColors(), one round of its loop: pop a node, and give it the last *)
(* colour left, or spill it.                                               *)
AssignColor(n) ==
  /\ phase = "assign"
  /\ selectStack # <<>>
  /\ n = selectStack[Len(selectStack)]
  /\ selectStack' = SubSeq(selectStack, 1, Len(selectStack) - 1)
  /\ \/ /\ Colors \subseteq Taken(n)
        /\ spilledNodes' = spilledNodes \union {n}
        /\ UNCHANGED <<coloredNodes, color>>
     \/ /\ coloredNodes' = coloredNodes \union {n}
        /\ \E c \in Colors : /\ IsLast(c, Colors \ Taken(n))
                             /\ color' = [color EXCEPT ![n] = c]
        /\ UNCHANGED spilledNodes
  /\ UNCHANGED <<input, phase, graph, moveSets, worklists, selected>>

(* AssignColors(), after its loop: a coalesced node takes the colour of    *)
(* the node it stands for, none when that one was spilled.  Fault: the     *)
(* colour of the node it was merged into, which may be coalesced itself.   *)
ColorCoalescedOnce ==
  /\ phase = "assign"
  /\ selectStack = <<>>
  /\ color' = [n \in Nodes |-> IF n \in coalescedNodes THEN color[alias[n]] ELSE color[n]]
  /\ phase' = "done"
  /\ UNCHANGED <<input, graph, moveSets, worklists, selectStack, coloredNodes,
                 spilledNodes, selected>>

ColorCoalesced ==
  /\ phase = "assign"
  /\ selectStack = <<>>
  /\ \A n \in coalescedNodes : GetAlias(n) \in Nodes \ coalescedNodes
  /\ color' = [n \in Nodes |-> IF n \in coalescedNodes THEN color[GetAlias(n)] ELSE color[n]]
  /\ phase' = "done"
  /\ UNCHANGED <<input, graph, moveSets, worklists, selectStack, coloredNodes,
                 spilledNodes, selected>>

Terminating == phase = "done" /\ UNCHANGED vars

Next ==
  \/ MakeWorklist
  \/ \E n \in Nodes : Simplify(n) \/ Freeze(n) \/ SelectSpill(n) \/ AssignColor(n)
  \/ Coalesce
  \/ LeaveLoop
  \/ ColorCoalesced
  \/ Terminating

Spec == Init /\ [][Next]_vars

(* One thread: what is enabled runs.                                       *)
FairSpec == Spec /\ WF_vars(Next)

-------------------------------------------------------------------------------
OnWorklist == simplifyWorklist \union freezeWorklist \union spillWorklist

(* The degree invariant of the comment above checkInvariant, at every      *)
(* return to the head of the main loop (the code's own call there is       *)
(* commented out).                                                         *)
DegreeInvariant ==
  phase = "loop" =>
    \A u \in OnWorklist :
      degree[u] = Cardinality(adjList(u) \intersect (precolored \union OnWorklist))

(* The same of the temporaries alone: that FreezeMoves lets registers into *)
(* simplifyWorklist puts the degree of no temporary wrong.                 *)
DegreesOfTemps ==
  phase = "loop" =>
    \A u \in OnWorklist \ precolored :
      degree[u] = Cardinality(adjList(u) \intersect (precolored \union OnWorklist))

(* The other three invariants of that comment: simplifyWorklist holds      *)
(* nodes no move waits for, of low degree unless SelectSpill put them      *)
(* there; freezeWorklist low-degree nodes some move waits for; and         *)
(* spillWorklist nodes of significant degree.                              *)
WorklistInvariant ==
  phase = "loop" =>
    /\ \A u \in simplifyWorklist : /\ degree[u] < K \/ u \in selected
                                   /\ ~MoveRelated(u)
    /\ \A u \in freezeWorklist : degree[u] < K /\ MoveRelated(u)
    /\ \A u \in spillWorklist : degree[u] >= K

(* Every temporary is in exactly one place at a time: one of the           *)
(* worklists, the stack (once), coalesced, coloured or spilled.  A node    *)
(* lost or held twice would be coloured never or twice.                    *)
Places == <<simplifyWorklist, freezeWorklist, spillWorklist, Stacked,
            coalescedNodes, coloredNodes, spilledNodes>>

OnePlacePerTemp ==
  /\ phase # "make" =>
       \A n \in Temps : Cardinality({i \in DOMAIN Places : n \in Places[i]}) = 1
  /\ Cardinality(Stacked) = Len(selectStack)

(* Every move instruction is in exactly one of the five move sets.         *)
MovePartition ==
  /\ Moves = worklistMoves \union activeMoves \union coalescedMoves
                \union constrainedMoves \union frozenMoves
  /\ worklistMoves \intersect activeMoves = {}
  /\ coalescedMoves \intersect (worklistMoves \union activeMoves) = {}
  /\ constrainedMoves \intersect
       (worklistMoves \union activeMoves \union coalescedMoves) = {}
  /\ frozenMoves \intersect (worklistMoves \union activeMoves
                              \union coalescedMoves \union constrainedMoves) = {}

Proper ==
  /\ \A e \in input.edges : color[e[1]] # NoColor => color[e[1]] # color[e[2]]
  /\ \A r \in precolored : color[r] = r

(* Two nodes that interfere in what build() produced never hold the same   *)
(* register, coalesced nodes included; a register keeps its own colour.    *)
ProperColoring == phase = "done" => Proper

(* The same, when moves may name registers: the one way to a wrong         *)
(* colouring is that FreezeMoves let a register into simplifyWorklist, and *)
(* AssignColors coloured it like a temporary.                              *)
ProperUnlessRegisterSimplified ==
  phase = "done" => Proper \/ precolored \intersect coloredNodes # {}

(* A temporary is left without a register only when SelectSpill gave up on *)
(* it or on the node it was coalesced into; every other node that was      *)
(* simplified finds a colour.                                              *)
SpillsWereSelected ==
  /\ spilledNodes \subseteq selected
  /\ phase = "done" => \A n \in Temps : color[n] = NoColor => GetAlias(n) \in selected

(* When the loop ends every move is decided (one set aside as active is    *)
(* always taken up again, by EnableMoves or by FreezeMoves), and one that  *)
(* counts as coalesced disappears: both ends have the same register.       *)
MovesSettled ==
  /\ phase \in {"assign", "done"} => worklistMoves = {} /\ activeMoves = {}
  /\ phase = "done" => \A m \in coalescedMoves : color[Src(m)] = color[Dst(m)]

(* The graph build() produced can be taken apart without coalescing and    *)
(* without spilling: every set of temporaries has one of low degree in it. *)
Simplifiable ==
  \A S \in (SUBSET Temps) \ {{}} : \E n \in S :
    Cardinality({m \in S \union precolored : <<n, m>> \in input.edges}) < K

(* Coalescing is conservative: it makes a spill candidate necessary in a   *)
(* graph that could be simplified as it was only where a register is       *)
(* involved.  (Conservative counts the neighbours of significant degree,   *)
(* and a register, whose degree the code keeps at 0 or below, is not one.) *)
MergedNextToRegister ==
  \E n \in coalescedNodes, r \in precolored :
    <<r, n>> \in adjSet \/ <<r, GetAlias(n)>> \in adjSet

CoalescingIsConservative ==
  selected # {} => ~Simplifiable \/ MergedNextToRegister

(* Color_Main's loop and AssignColors come to an end.                      *)
Termination == <>(phase = "done")
===============================================================================
