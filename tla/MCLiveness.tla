------------------------------ MODULE MCLiveness ------------------------------
(***************************************************************************)
(* Flow graphs for TLC.  Every instruction but the last falls through to   *)
(* the next, jumps to one label, or branches to a label and the next, as   *)
(* the assembly of one function does; the last one is the sink that        *)
(* F_procEntryExit2 appends, which defines nothing.  Temporary 1 is used   *)
(* by one or two and defined by at most two.  Temporary 2, which shares    *)
(* the changed flag with it, is defined by the first instruction and used  *)
(* by the third, or nowhere.                                               *)
(***************************************************************************)
EXTENDS Liveness, FiniteSets

CONSTANT Length

MCTemps == {1, 2}

ControlShapes ==
  {s \in [1 .. Length -> SUBSET (1 .. Length)] :
     /\ s[Length] = {}
     /\ \A i \in 1 .. Length - 1 :
          \E j \in 1 .. Length : s[i] \in {{j}, {i + 1, j}}}

UpToTwo(S) == {T \in SUBSET S : Cardinality(T) <= 2}

With(first, second) ==
  [i \in 1 .. Length |-> {t \in MCTemps : i \in (IF t = 1 THEN first ELSE second)}]

MCFlowGraphs ==
  [succ : ControlShapes,
   use  : {With(u, v) : u \in UpToTwo(1 .. Length) \ {{}}, v \in {{}, {3}}},
   def  : {With(d, {1}) : d \in UpToTwo(1 .. Length - 1)}]
===============================================================================
