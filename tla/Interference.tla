------------------------------ MODULE Interference ------------------------------
(***************************************************************************)
(* build (color.c): the interference graph and the moves of a function.    *)
(* Color_Main makes the flow graph, has the liveness analysed, and build   *)
(* walks each block from its end to its start, along the first             *)
(* predecessor.  Where blocks end is what F_codegen has noted down, not    *)
(* what the flow graph says.                                               *)
(*                                                                         *)
(* One iteration of the inner loop is one step.  The blocks are taken in   *)
(* the order of their positions, where the code takes them by address:     *)
(* what is done for a block does not depend on the others.  liveOut is the *)
(* least solution, as Live_Liveness returns it (module Liveness).          *)
(***************************************************************************)
EXTENDS FlowGraph

VARIABLES
  phase,          \* of Color_Main: "flow", "build", "done", "aborted"
  liveOut,        \* pairs of a node and a temporary live behind it
  blockEnds,      \* block_end_list from the current block on
  cur,            \* cur_node, 0 between blocks
  live,
  adjSet,         \* pairs of temporaries
  worklistMoves   \* the nodes of moves

bVars == <<phase, liveOut, blockEnds, cur, live, adjSet, worklistMoves>>
vars == <<fgVars, bVars>>

IsMove(n) == il[n].kind = "MOVE"

(* Where t is live before the instruction, when s has the successors of    *)
(* each node: at its uses, and before any node that does not define it and *)
(* has a successor where it is.                                            *)
LiveIn(t, s) ==
  LET grow[found \in SUBSET Nodes] ==
        LET more == found \union {n \in Nodes : /\ t \notin il[n].dst
                                               /\ s[n] \intersect found # {}}
        IN  IF more = found THEN found ELSE grow[more]
  IN  grow[{n \in Nodes : t \in il[n].src}]

LiveBehind(s) ==
  UNION {LET before == LiveIn(t, s)
         IN  {<<n, t>> : n \in {m \in Nodes : s[m] \intersect before # {}}} :
           t \in Temps}

-------------------------------------------------------------------------------
Init ==
  /\ FGInit
  /\ phase = "flow"
  /\ liveOut = {}
  /\ blockEnds = {}
  /\ cur = 0
  /\ live = {}
  /\ adjSet = {}
  /\ worklistMoves = {}

MakeFlowGraph == FGNext /\ UNCHANGED bVars

(* Live_Liveness and buildupLiveOut.                                       *)
Analyse ==
  /\ phase = "flow" /\ fgPhase = "done"
  /\ liveOut' = LiveBehind([n \in Nodes |-> ToSet(succs[n])])
  /\ blockEnds' = function.lastInstr
  /\ phase' = "build"
  /\ UNCHANGED <<fgVars, cur, live, adjSet, worklistMoves>>

NextBlock ==
  /\ phase = "build" /\ cur = 0 /\ blockEnds # {}
  /\ cur' = Min(blockEnds)
  /\ live' = {t \in Temps : <<cur', t>> \in liveOut}
  /\ blockEnds' = blockEnds \ {cur'}
  /\ UNCHANGED <<fgVars, phase, liveOut, adjSet, worklistMoves>>

(* isBlockStart(cur_node)                                                  *)
IsBlockStart == preds[cur] # <<>> => Head(preds[cur]) \in function.lastInstr

(* live with the definitions of the instruction, without the sources of a  *)
(* move, and before the instruction.  Fault: definitions stay live.        *)
LiveAt == (IF IsMove(cur) THEN live \ il[cur].src ELSE live) \union il[cur].dst
LiveKept == il[cur].src \union LiveAt
LiveBefore == il[cur].src \union (LiveAt \ il[cur].dst)

(* AddEdge(l, d) for each definition d and each live l, unless u == v.     *)
Edges == {{l, d} : l \in LiveAt, d \in il[cur].dst} \ {{d} : d \in il[cur].dst}

WalkInstr ==
  /\ phase = "build" /\ cur # 0
  /\ live' = LiveBefore
  /\ adjSet' = adjSet \union Edges
  /\ worklistMoves' = worklistMoves \union (IF IsMove(cur) THEN {cur} ELSE {})
  /\ UNCHANGED <<fgVars, liveOut, blockEnds>>

WalkBack ==
  /\ WalkInstr
  /\ ~IsBlockStart /\ Len(preds[cur]) = 1
  /\ cur' = Head(preds[cur])
  /\ UNCHANGED phase

EndBlock ==
  /\ WalkInstr
  /\ IsBlockStart
  /\ cur' = 0
  /\ UNCHANGED phase

(* assert(G_pred(cur_node)->tail == NULL) fails.                           *)
AbortBuild ==
  /\ WalkInstr
  /\ ~IsBlockStart /\ Len(preds[cur]) # 1
  /\ phase' = "aborted"
  /\ UNCHANGED cur

BuildDone ==
  /\ phase = "build" /\ cur = 0 /\ blockEnds = {}
  /\ phase' = "done"
  /\ UNCHANGED <<fgVars, liveOut, blockEnds, cur, live, adjSet, worklistMoves>>

Stopped == phase \in {"done", "aborted"} \/ fgPhase = "aborted"
Terminating == Stopped /\ UNCHANGED vars

Next ==
  \/ MakeFlowGraph
  \/ Analyse \/ NextBlock \/ WalkBack \/ EndBlock \/ AbortBuild \/ BuildDone
  \/ Terminating

Spec == Init /\ [][Next]_vars

-------------------------------------------------------------------------------
(* The flow graph is right when it is handed on (see FollowsControl).      *)
EdgesFollowControl ==
  phase = "flow" /\ fgPhase = "done" => \A n \in Nodes : FollowsControl(n)

(* The assertion in build holds: walking backwards, an instruction that    *)
(* does not begin a block has one predecessor.                             *)
NeverAborted == phase # "aborted"

(* It fails in one case only: at the instruction that control reaches      *)
(* first from outside the body, from an instruction before any label,      *)
(* which F_procEntryExit2 put there.                                       *)
AbortsOnlyAtEntry ==
  phase = "aborted" =>
    \A m \in 1 .. Head(preds[cur]) : ~IsLabelInstr(il[m])

(* No other function stops the compiler on the way to its interference     *)
(* graph: the assertion of FG_AssemFlowGraph fails at a jump to a label of *)
(* another function, the one of build at the entry.                        *)
StopsWhereKnown == FailsOnlyOutside /\ AbortsOnlyAtEntry

(* Two temporaries interfere when one is defined while the other is live   *)
(* behind the definition, as control really goes; the source of a move is  *)
(* not held against its target.                                            *)
Conflicts ==
  LET really == LiveBehind([n \in Nodes |-> ControlSuccs(n)])
      against(n) == {t \in Temps : \/ t \in il[n].dst
                                   \/ <<n, t>> \in really /\ ~(IsMove(n) /\ t \in il[n].src)}
  IN  UNION {{{t, d} : t \in against(n), d \in il[n].dst} : n \in Nodes}

(* When build is through, every such pair is an edge and no other is, and  *)
(* no move is missed, wherever the walks over the blocks began and ended.  *)
BuildExact ==
  phase = "done" =>
    /\ adjSet = {e \in Conflicts : Cardinality(e) = 2}
    /\ worklistMoves = {n \in Nodes : IsMove(n)}
===============================================================================
