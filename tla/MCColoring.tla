------------------------------ MODULE MCColoring ------------------------------
(***************************************************************************)
(* Interference graphs for TLC: every symmetric, irreflexive relation on   *)
(* the temporaries, and registers that some temporaries interfere with.    *)
(***************************************************************************)
EXTENDS Coloring, TLC

CONSTANTS
  RegNeighbors,    \* how many of the temporaries may interfere with registers
  MoveEnds         \* the nodes a move may have as its ends

MCMoveEndsTemps == Temps
MCMoveEndsFew == K + 1 .. K + 3
MCMoveEndsAll == Nodes

Symmetric(E) == E \union {<<e[2], e[1]>> : e \in E}

TempEdges == {e \in Temps \X Temps : e[1] < e[2]}
RegEdges == precolored \X {n \in Temps : n <= K + RegNeighbors}

MCInputs ==
  [edges : {Symmetric(E) : E \in SUBSET (TempEdges \union RegEdges)},
   src : [Moves -> MoveEnds], dst : [Moves -> MoveEnds]]
===============================================================================
