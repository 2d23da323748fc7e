------------------------------- MODULE FlowGraph -------------------------------
(***************************************************************************)
(* FG_AssemFlowGraph (flowgraph.c) makes the flow graph of a list of       *)
(* instructions.  On the way down the recursion creates a node for each    *)
(* instruction that is not a label and enters the labels before it in      *)
(* label_map; on the way up it adds the edges.  One call is two steps,     *)
(* Enter and Leave (or Label).                                             *)
(*                                                                         *)
(* A node is the position of its instruction.  The lists of neighbours     *)
(* have the newest first, as G_addEdge makes them: the register allocator  *)
(* looks at the first predecessor only.                                    *)
(***************************************************************************)
EXTENDS Integers, Sequences, SequencesExt, FiniteSetsExt

CONSTANTS
  Temps,       \* temporaries and registers
  Labels,
  Functions    \* what F_codegen and F_procEntryExit2 may return for a function:
               \* the instructions il and the positions lastInstr

IsLabelInstr(instr) == instr.kind = "LABEL"

(* munchStm makes instructions of three kinds, and labels.                 *)
IsPlain(instr) == ~IsLabelInstr(instr) /\ instr.jumps = <<>>
IsJump(instr) == /\ ~IsLabelInstr(instr) /\ Len(instr.jumps) = 1
                 /\ instr.dst = {} /\ instr.src = {}
IsBranch(instr) == ~IsLabelInstr(instr) /\ Len(instr.jumps) = 2

IsLabelAt(f, p, l) == IsLabelInstr(f.il[p]) /\ f.il[p].label = l

LabelsOf(f) == {f.il[p].label : p \in {i \in DOMAIN f.il : IsLabelInstr(f.il[i])}}

(* A label is behind a jump.  The jump goes back, or to that label, or to  *)
(* the exit: JumpsLeftGoBack of module Trace.  Or it goes nowhere in f: a  *)
(* break in a function that is declared inside a loop names the label      *)
(* behind the loop, which another function has.                            *)
JumpFits(f, i, exit) ==
  /\ IsJump(f.il[i]) /\ IsLabelInstr(f.il[i + 1])
  /\ \/ \E p \in 1 .. i + 1 \union {exit} : IsLabelAt(f, p, f.il[i].jumps[1])
     \/ f.il[i].jumps[1] \notin LabelsOf(f)

(* A branch has a copy of an operand before it, a jump to its false label  *)
(* behind it, and then that label: FalseLabelFollows of module Trace.      *)
BranchFits(f, i) ==
  /\ IsBranch(f.il[i]) /\ i > 1 /\ IsPlain(f.il[i - 1])
  /\ \E p \in DOMAIN f.il : IsLabelAt(f, p, f.il[i].jumps[1])
  /\ IsJump(f.il[i + 1]) /\ f.il[i + 1].jumps[1] = f.il[i].jumps[2]
  /\ IsLabelAt(f, i + 2, f.il[i].jumps[2])

(* F_procEntryExit2 has put what is up to entry before the body, the saves *)
(* up to saved, and what is behind the label of the exit after it.  The    *)
(* last instruction of the body is a jump: ExitIsJumpedTo of module Trace. *)
(* Blocks end where F_codegen and F_procEntryExit2 say so.                 *)
Layout(f, saved, entry, exit) ==
  /\ saved <= entry /\ entry < exit /\ exit < Len(f.il)
  /\ \A i \in DOMAIN f.il : i <= entry \/ i > exit => IsPlain(f.il[i])
  /\ IsLabelInstr(f.il[entry + 1]) /\ IsLabelInstr(f.il[exit])
  /\ \A i \in entry + 1 .. exit - 1 :
       \/ IsLabelInstr(f.il[i]) \/ IsPlain(f.il[i])
       \/ JumpFits(f, i, exit) \/ BranchFits(f, i)
  /\ \E i \in entry + 1 .. exit - 1 :
       IsJump(f.il[i]) /\ \A j \in i + 1 .. exit : IsLabelInstr(f.il[j])
  /\ f.lastInstr =
       {saved, Len(f.il)} \union
         {i \in entry + 1 .. exit - 1 :
            ~IsLabelInstr(f.il[i]) /\ (IsLabelInstr(f.il[i + 1]) \/ IsBranch(f.il[i]))}

WellFormed(f) ==
  /\ f.il \in Seq(ToSet(f.il))
  /\ \A i \in DOMAIN f.il :
       IF IsLabelInstr(f.il[i])
       THEN f.il[i].label \in Labels
       ELSE /\ f.il[i].dst \subseteq Temps /\ f.il[i].src \subseteq Temps
            /\ f.il[i].jumps \in Seq(Labels)
  /\ \A i, j \in DOMAIN f.il :
       IsLabelInstr(f.il[j]) /\ IsLabelAt(f, i, f.il[j].label) => i = j
  /\ \E saved, entry, exit \in DOMAIN f.il : Layout(f, saved, entry, exit)

ASSUME FunctionsAssumption == \A f \in Functions : WellFormed(f)

VARIABLES
  function,    \* never written
  fgPhase,     \* where the recursion is: "down", "up", "done", "aborted"
  at,          \* the instruction it is at
  headLabels,  \* the labels right before it
  label_map,   \* the node of a label, for the labels entered
  succs, preds \* of each node, the newest first

fgVars == <<function, fgPhase, at, headLabels, label_map, succs, preds>>

il == function.il
Nodes == {i \in DOMAIN il : ~IsLabelInstr(il[i])}

-------------------------------------------------------------------------------
FGInit ==
  /\ function \in Functions
  /\ fgPhase = "down"
  /\ at = 1
  /\ headLabels = {}
  /\ label_map = <<>>
  /\ succs = [n \in Nodes |-> <<>>]
  /\ preds = [n \in Nodes |-> <<>>]

(* A label is kept for the next instruction.                               *)
Label ==
  /\ fgPhase = "down" /\ at <= Len(il) /\ IsLabelInstr(il[at])
  /\ headLabels' = headLabels \union {il[at].label}
  /\ at' = at + 1
  /\ UNCHANGED <<function, fgPhase, label_map, succs, preds>>

(* A node is made, its labels are entered, and the rest comes first.       *)
(* Fault: of labels in a row only one.                                     *)
EnterLast ==
  /\ fgPhase = "down" /\ at \in Nodes
  /\ label_map' = IF headLabels = {} THEN label_map
                  ELSE [l \in {Max(headLabels)} \union DOMAIN label_map |->
                          IF l = Max(headLabels) THEN at ELSE label_map[l]]
  /\ headLabels' = {}
  /\ at' = at + 1
  /\ UNCHANGED <<function, fgPhase, succs, preds>>

Enter ==
  /\ fgPhase = "down" /\ at \in Nodes
  /\ label_map' = [l \in headLabels \union DOMAIN label_map |->
                     IF l \in headLabels THEN at ELSE label_map[l]]
  /\ headLabels' = {}
  /\ at' = at + 1
  /\ UNCHANGED <<function, fgPhase, succs, preds>>

(* The node before n, 0 when there is none.                                *)
Before(n) == Max({m \in Nodes : m < n} \union {0})

(* il == NULL                                                              *)
Bottom ==
  /\ fgPhase = "down" /\ at > Len(il)
  /\ fgPhase' = "up"
  /\ at' = Before(at)
  /\ UNCHANGED <<function, headLabels, label_map, succs, preds>>

(* What the recursive call has returned: the next node, 0 for NULL.        *)
Fallthrough(n) ==
  LET later == {m \in Nodes : m > n} IN IF later = {} THEN 0 ELSE Min(later)

(* The node a jump to l is recorded to go to: when that is a successor of  *)
(* the next instruction, the next instruction takes its place.  This puts  *)
(* the jump to the false label that F_codegen emits behind a conditional   *)
(* branch between the two.  Behind a plain jump the next instruction is    *)
(* another one's, and what goes to the same place from there is a jump     *)
(* too.  Fault: whenever there is a next instruction.                      *)
TargetAlwaysNext(n, l) == Fallthrough(n)

Target(n, l) ==
  IF label_map[l] \in ToSet(succs[Fallthrough(n)])
  THEN Fallthrough(n) ELSE label_map[l]

Targets(n) ==
  IF il[n].jumps # <<>> THEN [i \in DOMAIN il[n].jumps |-> Target(n, il[n].jumps[i])]
  ELSE IF Fallthrough(n) # 0 THEN <<Fallthrough(n)>>
  ELSE <<>>

(* The assertions: every label has a node, and so has the instruction      *)
(* behind a jump.                                                          *)
AssertsHold(n) ==
  il[n].jumps # <<>> =>
    Fallthrough(n) # 0 /\ ToSet(il[n].jumps) \subseteq DOMAIN label_map

(* G_addEdge for each target in turn: an edge that is there is not added   *)
(* again, a new one is put in front.                                       *)
AddTarget(list, t) == IF t \in ToSet(list) THEN list ELSE <<t>> \o list

Leave ==
  /\ fgPhase = "up" /\ at # 0
  /\ AssertsHold(at)
  /\ succs' = [succs EXCEPT ![at] = FoldLeft(AddTarget, <<>>, Targets(at))]
  /\ preds' = [n \in Nodes |-> IF n \in ToSet(Targets(at)) THEN <<at>> \o preds[n]
                              ELSE preds[n]]
  /\ at' = Before(at)
  /\ UNCHANGED <<function, fgPhase, headLabels, label_map>>

(* assert(next) fails at the instruction: the compiler stops.              *)
AssertFails ==
  /\ fgPhase = "up" /\ at # 0
  /\ ~AssertsHold(at)
  /\ fgPhase' = "aborted"
  /\ UNCHANGED <<function, at, headLabels, label_map, succs, preds>>

Return ==
  /\ fgPhase = "up" /\ at = 0
  /\ fgPhase' = "done"
  /\ UNCHANGED <<function, at, headLabels, label_map, succs, preds>>

FGNext == Label \/ Enter \/ Bottom \/ Leave \/ AssertFails \/ Return

-------------------------------------------------------------------------------
(* What the comment at the assertion says, "all labels should be in        *)
(* label_map at this point", holds of the labels the function has, however *)
(* many stand in a row: the assertion stops the compiler at a jump out of  *)
(* the function, and no function with such a jump gets a flow graph.       *)
Outside(n) == ToSet(il[n].jumps) \ LabelsOf(function)

FailsOnlyOutside ==
  /\ fgPhase = "aborted" => Outside(at) # {}
  /\ fgPhase = "done" => \A n \in Nodes : Outside(n) = {}

(* Where control really goes: to the label of a jump; to the first of two  *)
(* labels of a branch, or on; on, after anything else.                     *)
Onward(n) == {Fallthrough(n)} \ {0}

ControlSuccs(n) ==
  CASE Len(il[n].jumps) = 0 -> Onward(n)
    [] Len(il[n].jumps) = 1 -> {label_map[il[n].jumps[1]]}
    [] OTHER -> {label_map[il[n].jumps[1]]} \union Onward(n)

(* The edges are the ways control goes, but that an edge may lead through  *)
(* the next instruction when that one neither uses nor defines anything:   *)
(* so no definition and no use is met or missed that should not be.        *)
FollowsControl(n) ==
  LET recorded == ToSet(succs[n])
      next == Fallthrough(n)
      passes == /\ next \in recorded
                /\ il[next].dst = {} /\ il[next].src = {}
  IN  /\ \A m \in ControlSuccs(n) \ recorded : passes /\ m \in ToSet(succs[next])
      /\ \A m \in recorded \ ControlSuccs(n) : m = next /\ passes
===============================================================================
