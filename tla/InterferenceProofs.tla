---------------------------- MODULE InterferenceProofs ----------------------------
(***************************************************************************)
(* That build finds the interference graph and the moves of a function,    *)
(* for every function F_codegen and F_procEntryExit2 may return.           *)
(*                                                                         *)
(* The first half is about such a function f and a graph G on its nodes    *)
(* with the edges FG_AssemFlowGraph gives it (RecordedBy); there are no    *)
(* states in it.  The second half shows that the recursion makes such a    *)
(* graph, and follows the walks of build through it.                       *)
(***************************************************************************)
EXTENDS Interference, FiniteSetTheorems, WellFoundedInduction, TLAPS

(* A set of naturals that is not empty has a least element.                *)
LEMMA LeastElement ==
  ASSUME NEW S, S \subseteq Nat, S # {}
  PROVE  \E x \in S : \A y \in S : x <= y
<1>1. PICK x \in S : \A y \in S : ~(<<y, x>> \in OpToRel(<, Nat))
  BY WFMin, NatLessThanWellFounded, Zenon
<1>2. ASSUME NEW y \in S PROVE ~(y < x)
  <2>1. y < x => <<y, x>> \in OpToRel(<, Nat)
    BY Zenon DEF OpToRel
  <2> QED
    BY <2>1, <1>1
<1>3. \A y \in S : x \in Nat /\ y \in Nat
  OBVIOUS
<1> QED
  BY <1>2, <1>3

NodesOf(f) == {i \in DOMAIN f.il : ~IsLabelInstr(f.il[i])}

(* The node behind n, as Fallthrough has it.                               *)
NextOf(f, n) ==
  LET later == {m \in NodesOf(f) : m > n} IN IF later = {} THEN 0 ELSE Min(later)

-------------------------------------------------------------------------------
(* Positions.                                                              *)
LEMMA Positions ==
  ASSUME NEW f \in Functions
  PROVE  /\ Len(f.il) \in Nat /\ DOMAIN f.il = 1 .. Len(f.il)
         /\ NodesOf(f) \subseteq 1 .. Len(f.il)
         /\ \A i \in 1 .. Len(f.il) : i \in NodesOf(f) <=> ~IsLabelInstr(f.il[i])
         /\ \A i, j \in 1 .. Len(f.il) :
              IsLabelInstr(f.il[j]) /\ IsLabelAt(f, i, f.il[j].label) => i = j
         /\ \A i \in NodesOf(f) : /\ f.il[i].dst \subseteq Temps /\ f.il[i].src \subseteq Temps
                                  /\ f.il[i].jumps \in Seq(Labels)
         /\ \E saved, entry, exit \in 1 .. Len(f.il) : Layout(f, saved, entry, exit)
<1>1. WellFormed(f)
  BY FunctionsAssumption
<1>2. PICK S : f.il \in Seq(S)
  BY <1>1 DEF WellFormed
<1>3. Len(f.il) \in Nat /\ DOMAIN f.il = 1 .. Len(f.il)
  BY <1>2
<1> QED
  BY <1>1, <1>3 DEF WellFormed, NodesOf

LEMMA Layouts ==
  ASSUME NEW f \in Functions, NEW saved \in 1 .. Len(f.il), NEW entry \in 1 .. Len(f.il),
         NEW exit \in 1 .. Len(f.il), Layout(f, saved, entry, exit)
  PROVE  /\ saved <= entry /\ entry < exit /\ exit < Len(f.il)
         /\ \A i \in 1 .. Len(f.il) : i <= entry \/ i > exit => i \in NodesOf(f) /\ IsPlain(f.il[i])
         /\ entry + 1 \in 1 .. Len(f.il) /\ exit \notin NodesOf(f) /\ entry + 1 \notin NodesOf(f)
         /\ \A i \in NodesOf(f) : \/ IsPlain(f.il[i])
                                  \/ entry < i /\ i < exit /\ JumpFits(f, i, exit)
                                  \/ entry < i /\ i < exit /\ BranchFits(f, i)
         /\ \E i \in 1 .. Len(f.il) : /\ entry < i /\ i < exit /\ i \in NodesOf(f) /\ IsJump(f.il[i])
                                      /\ \A j \in i + 1 .. exit : j \notin NodesOf(f)
<1> DEFINE L == Len(f.il)
<1>1. entry \in Nat /\ exit \in Nat /\ L \in Nat /\ DOMAIN f.il = 1 .. L
  BY Positions
<1>2. saved <= entry /\ entry < exit /\ exit < L
  BY DEF Layout
<1>3. \A i \in 1 .. L : i <= entry \/ i > exit => i \in NodesOf(f) /\ IsPlain(f.il[i])
  <2>1. \A i \in 1 .. L : i <= entry \/ i > exit => IsPlain(f.il[i])
    BY <1>1 DEF Layout
  <2> QED
    BY <2>1, Positions DEF IsPlain
<1>4. entry + 1 \in 1 .. L /\ exit \notin NodesOf(f) /\ entry + 1 \notin NodesOf(f)
  <2>1. IsLabelInstr(f.il[entry + 1]) /\ IsLabelInstr(f.il[exit])
    BY DEF Layout
  <2>2. entry + 1 \in 1 .. L
    BY <1>1, <1>2
  <2> QED
    BY <2>1, <2>2, Positions
<1>5. ASSUME NEW i \in NodesOf(f)
      PROVE  \/ IsPlain(f.il[i])
             \/ entry < i /\ i < exit /\ JumpFits(f, i, exit)
             \/ entry < i /\ i < exit /\ BranchFits(f, i)
  <2>1. i \in 1 .. L /\ ~IsLabelInstr(f.il[i])
    BY <1>5, Positions
  <2>2. CASE i <= entry \/ i > exit
    BY <1>3, <2>1, <2>2
  <2>3. CASE ~(i <= entry \/ i > exit)
    <3>1. i # exit
      BY <1>4
    <3>2. i \in entry + 1 .. exit - 1 /\ entry < i /\ i < exit
      BY <1>1, <2>1, <2>3, <3>1
    <3>3. \/ IsLabelInstr(f.il[i]) \/ IsPlain(f.il[i])
          \/ JumpFits(f, i, exit) \/ BranchFits(f, i)
      BY <3>2 DEF Layout
    <3> QED
      BY <2>1, <3>2, <3>3
  <2> QED
    BY <2>2, <2>3
<1>6. \E i \in 1 .. L : /\ entry < i /\ i < exit /\ i \in NodesOf(f) /\ IsJump(f.il[i])
                       /\ \A j \in i + 1 .. exit : j \notin NodesOf(f)
  <2>1. PICK i \in entry + 1 .. exit - 1 :
               IsJump(f.il[i]) /\ \A j \in i + 1 .. exit : IsLabelInstr(f.il[j])
    BY DEF Layout
  <2>2. i \in 1 .. L /\ entry < i /\ i < exit
    BY <1>1, <1>2
  <2>3. i \in NodesOf(f)
    BY <2>1, <2>2, Positions DEF IsJump
  <2>4. \A j \in i + 1 .. exit : j \in 1 .. L
    BY <1>1, <1>2, <2>2
  <2>5. \A j \in i + 1 .. exit : j \notin NodesOf(f)
    BY <2>1, <2>4, Positions
  <2> QED
    BY <2>1, <2>2, <2>3, <2>5
<1> QED
  BY <1>2, <1>3, <1>4, <1>5, <1>6

LEMMA LastNode ==
  ASSUME NEW f \in Functions
  PROVE  Len(f.il) \in NodesOf(f) /\ IsPlain(f.il[Len(f.il)])
<1>1. PICK saved, entry, exit \in 1 .. Len(f.il) : Layout(f, saved, entry, exit)
  BY Positions
<1> QED
  BY <1>1, Layouts, Positions, SMTT(30)

LEMMA Next1 ==
  ASSUME NEW f \in Functions, NEW n \in Nat, n < Len(f.il)
  PROVE  /\ NextOf(f, n) \in NodesOf(f) /\ n < NextOf(f, n)
         /\ \A i \in NodesOf(f) : n < i => NextOf(f, n) <= i
<1> DEFINE later == {m \in NodesOf(f) : m > n}
<1>1. later \subseteq Nat /\ later # {}
  BY LastNode, Positions
<1>2. \E x \in later : \A y \in later : x <= y
  <2> HIDE DEF later
  <2> QED
    BY <1>1, LeastElement
<1>3. Min(later) \in later /\ \A y \in later : Min(later) <= y
  BY <1>2 DEF Min
<1>4. NextOf(f, n) = Min(later)
  BY <1>1 DEF NextOf
<1> HIDE DEF later
<1>5. NextOf(f, n) \in later /\ \A y \in later : NextOf(f, n) <= y
  BY <1>3, <1>4
<1> QED
  BY <1>5 DEF later

(* The next node is the one behind a position with nothing but labels      *)
(* between.                                                                *)
LEMMA NextIs ==
  ASSUME NEW f \in Functions, NEW n \in Nat, NEW m \in NodesOf(f), n < m,
         \A i \in NodesOf(f) : n < i => m <= i
  PROVE  NextOf(f, n) = m
<1>1. m \in Nat /\ n < Len(f.il)
  BY Positions
<1>2. NextOf(f, n) \in Nat
  BY <1>1, Next1, Positions
<1> QED
  BY <1>1, <1>2, Next1

LEMMA NoNext ==
  ASSUME NEW f \in Functions
  PROVE  NextOf(f, Len(f.il)) = 0
BY Positions DEF NextOf
LEMMA NoKindTwice ==
  ASSUME NEW instr
  PROVE  /\ ~(IsPlain(instr) /\ (IsJump(instr) \/ IsBranch(instr)))
         /\ ~(IsJump(instr) /\ IsBranch(instr))
BY DEF IsPlain, IsJump, IsBranch

(* The labels of f are those its positions have.                           *)
LEMMA LabelPlaces ==
  ASSUME NEW f \in Functions, NEW l
  PROVE  l \in LabelsOf(f) <=> \E p \in 1 .. Len(f.il) : IsLabelAt(f, p, l)
BY Positions DEF LabelsOf, IsLabelAt

(* The instruction names labels of f only.                                 *)
Inside(f, n) == ToSet(f.il[n].jumps) \subseteq LabelsOf(f)

(* A jump is the last node before a label, and goes back, or on, or to the *)
(* node behind the exit, unless it leaves f.                               *)
LEMMA JumpPosition ==
  ASSUME NEW f \in Functions, NEW saved \in 1 .. Len(f.il), NEW entry \in 1 .. Len(f.il),
         NEW exit \in 1 .. Len(f.il), Layout(f, saved, entry, exit),
         NEW i \in NodesOf(f), IsJump(f.il[i])
  PROVE  /\ entry < i /\ i < exit /\ i + 1 \in 1 .. Len(f.il) /\ i + 1 \notin NodesOf(f)
         /\ IsLabelInstr(f.il[i + 1])
         /\ ToSet(f.il[i].jumps) = {f.il[i].jumps[1]} /\ f.il[i].jumps # <<>>
         /\ Inside(f, i) =>
              \E p \in 1 .. Len(f.il) : IsLabelAt(f, p, f.il[i].jumps[1])
                                        /\ (p < i \/ p = i + 1 \/ p = exit)
<1>1. entry < i /\ i < exit /\ JumpFits(f, i, exit)
  BY Layouts, NoKindTwice DEF BranchFits
<1>2. entry \in Nat /\ exit \in Nat /\ Len(f.il) \in Nat /\ exit < Len(f.il) /\ i \in 1 .. Len(f.il)
  BY Positions, Layouts
<1>3. i + 1 \in 1 .. Len(f.il)
  BY <1>1, <1>2
<1>4. i + 1 \notin NodesOf(f) /\ IsLabelInstr(f.il[i + 1])
  BY <1>1, <1>3, Positions DEF JumpFits
<1>5. f.il[i].jumps \in Seq(Labels) /\ Len(f.il[i].jumps) = 1
  BY Positions DEF IsJump
<1>6. ToSet(f.il[i].jumps) = {f.il[i].jumps[1]} /\ f.il[i].jumps # <<>>
  <2>1. DOMAIN f.il[i].jumps = {1}
    BY <1>5
  <2>2. ToSet(f.il[i].jumps) = {f.il[i].jumps[1]}
    BY <2>1, ZenonT(60) DEF ToSet
  <2>3. f.il[i].jumps # <<>>
    <3>1. Len(<<>>) # 1
      OBVIOUS
    <3> QED
      BY <1>5, <3>1, Zenon
  <2> QED
    BY <2>2, <2>3
<1>7. ASSUME Inside(f, i)
      PROVE  \E p \in 1 .. Len(f.il) : IsLabelAt(f, p, f.il[i].jumps[1])
                                       /\ (p < i \/ p = i + 1 \/ p = exit)
  <2>1. PICK p \in 1 .. i + 1 \union {exit} : IsLabelAt(f, p, f.il[i].jumps[1])
    BY <1>1, <1>6, <1>7 DEF JumpFits, Inside
  <2>2. p \in 1 .. Len(f.il) /\ p # i
    <3>1. p \in 1 .. Len(f.il)
      BY <1>2, <1>3, <2>1
    <3>2. ~IsLabelInstr(f.il[i]) /\ IsLabelInstr(f.il[p])
      BY <1>2, <2>1, Positions DEF IsLabelAt
    <3> QED
      BY <3>1, <3>2
  <2> QED
    BY <1>2, <2>1, <2>2
<1> QED
  BY <1>1, <1>3, <1>4, <1>6, <1>7

(* A branch stands between a plain instruction and a jump.                 *)
LEMMA BranchPosition ==
  ASSUME NEW f \in Functions, NEW saved \in 1 .. Len(f.il), NEW entry \in 1 .. Len(f.il),
         NEW exit \in 1 .. Len(f.il), Layout(f, saved, entry, exit),
         NEW i \in NodesOf(f), IsBranch(f.il[i])
  PROVE  /\ entry < i /\ i < exit /\ i - 1 \in NodesOf(f) /\ IsPlain(f.il[i - 1])
         /\ i + 1 \in NodesOf(f) /\ IsJump(f.il[i + 1])
         /\ i + 2 \in 1 .. Len(f.il) /\ IsLabelAt(f, i + 2, f.il[i].jumps[2])
         /\ f.il[i + 1].jumps[1] = f.il[i].jumps[2]
         /\ ToSet(f.il[i].jumps) = {f.il[i].jumps[1], f.il[i].jumps[2]} /\ f.il[i].jumps # <<>>
         /\ \E p \in 1 .. Len(f.il) : IsLabelAt(f, p, f.il[i].jumps[1])
         /\ Inside(f, i) /\ Inside(f, i + 1)
<1>1. entry < i /\ i < exit /\ BranchFits(f, i)
  BY Layouts, NoKindTwice DEF JumpFits
<1>2. entry \in Nat /\ exit \in Nat /\ Len(f.il) \in Nat /\ exit < Len(f.il) /\ i \in 1 .. Len(f.il)
  BY Positions, Layouts
<1>3. i + 1 \in 1 .. Len(f.il) /\ i - 1 \in 1 .. Len(f.il)
  <2>1. i > 1
    BY <1>1 DEF BranchFits
  <2> QED
    BY <1>1, <1>2, <2>1
<1>4. i - 1 \in NodesOf(f) /\ IsPlain(f.il[i - 1])
  BY <1>1, <1>3, Positions DEF BranchFits, IsPlain
<1>5. i + 1 \in NodesOf(f) /\ IsJump(f.il[i + 1]) /\ f.il[i + 1].jumps[1] = f.il[i].jumps[2]
  BY <1>1, <1>3, Positions DEF BranchFits, IsJump
<1>6. i + 2 \in 1 .. Len(f.il)
  <2>1. i + 1 < exit
    BY <1>5, JumpPosition
  <2> QED
    BY <1>2, <2>1
<1>7. f.il[i].jumps \in Seq(Labels) /\ Len(f.il[i].jumps) = 2
  BY Positions DEF IsBranch
<1>8. ToSet(f.il[i].jumps) = {f.il[i].jumps[1], f.il[i].jumps[2]} /\ f.il[i].jumps # <<>>
  BY <1>7 DEF ToSet
<1>9. /\ IsLabelAt(f, i + 2, f.il[i].jumps[2])
      /\ \E p \in 1 .. Len(f.il) : IsLabelAt(f, p, f.il[i].jumps[1])
  BY <1>1, Positions DEF BranchFits
<1>10. f.il[i].jumps[1] \in LabelsOf(f) /\ f.il[i].jumps[2] \in LabelsOf(f)
  BY <1>6, <1>9, LabelPlaces
<1>11. Inside(f, i)
  BY <1>8, <1>10 DEF Inside
<1>12. Inside(f, i + 1)
  <2>1. ToSet(f.il[i + 1].jumps) = {f.il[i + 1].jumps[1]}
    BY <1>5, JumpPosition
  <2> QED
    BY <1>5, <1>10, <2>1 DEF Inside
<1> QED
  BY <1>1, <1>4, <1>5, <1>6, <1>8, <1>9, <1>11, <1>12

-------------------------------------------------------------------------------
(* The graph of f: lm has the node of each label, and G the successors of  *)
(* each node as Leave records them.                                        *)
Via(f, G, n, k) == IF k \in G[NextOf(f, n)] THEN NextOf(f, n) ELSE k

LabelsKnown(f, lm) ==
  \A p \in 1 .. Len(f.il) : IsLabelInstr(f.il[p]) =>
    f.il[p].label \in DOMAIN lm /\ lm[f.il[p].label] = NextOf(f, p)

EdgesOf(f, lm, G, n) ==
  IF f.il[n].jumps # <<>> THEN {Via(f, G, n, lm[l]) : l \in ToSet(f.il[n].jumps)}
  ELSE {NextOf(f, n)} \ {0}

RecordedBy(f, lm, G) ==
  /\ LabelsKnown(f, lm)
  /\ \A n \in NodesOf(f) : Inside(f, n) /\ G[n] = EdgesOf(f, lm, G, n)

(* Where control goes from n.                                              *)
Goes(f, lm, n) ==
  CASE Len(f.il[n].jumps) = 0 -> {NextOf(f, n)} \ {0}
    [] Len(f.il[n].jumps) = 1 -> {lm[f.il[n].jumps[1]]}
    [] OTHER -> {lm[f.il[n].jumps[1]]} \union ({NextOf(f, n)} \ {0})

(* The next node is the same from a node and from the label behind it.     *)
LEMMA NextOverLabel ==
  ASSUME NEW f \in Functions, NEW i \in 1 .. Len(f.il), i + 1 \in 1 .. Len(f.il),
         i + 1 \notin NodesOf(f)
  PROVE  NextOf(f, i + 1) = NextOf(f, i) /\ NextOf(f, i) > i + 1
<1>1. i \in Nat /\ i + 1 \in Nat /\ i + 1 < Len(f.il)
  BY LastNode, Positions
<1>2. /\ NextOf(f, i + 1) \in NodesOf(f) /\ i + 1 < NextOf(f, i + 1)
      /\ \A j \in NodesOf(f) : i + 1 < j => NextOf(f, i + 1) <= j
  BY <1>1, Next1
<1>3. \A j \in NodesOf(f) : j \in Nat /\ (i < j => i + 1 < j)
  BY Positions
<1>4. \A j \in NodesOf(f) : i < j => NextOf(f, i + 1) <= j
  BY <1>2, <1>3
<1>5. i < NextOf(f, i + 1)
  BY <1>1, <1>2, <1>3
<1> QED
  BY <1>1, <1>2, <1>4, <1>5, NextIs

LEMMA NextBeside ==
  ASSUME NEW f \in Functions, NEW i \in Nat, i + 1 \in NodesOf(f)
  PROVE  NextOf(f, i) = i + 1
<1>1. \A j \in NodesOf(f) : j \in Nat /\ (i < j => i + 1 <= j)
  BY Positions
<1> QED
  BY <1>1, NextIs
LEMMA PlainEdges ==
  ASSUME NEW f \in Functions, NEW lm, NEW G, RecordedBy(f, lm, G),
         NEW i \in NodesOf(f), IsPlain(f.il[i])
  PROVE  /\ G[i] = {NextOf(f, i)} \ {0} /\ Goes(f, lm, i) = {NextOf(f, i)} \ {0}
         /\ i < Len(f.il) => G[i] = {NextOf(f, i)}
         /\ i = Len(f.il) => G[i] = {}
<1>1. f.il[i].jumps = <<>> /\ Len(f.il[i].jumps) = 0
  BY DEF IsPlain
<1>2. G[i] = {NextOf(f, i)} \ {0} /\ Goes(f, lm, i) = {NextOf(f, i)} \ {0}
  <2>1. EdgesOf(f, lm, G, i) = {NextOf(f, i)} \ {0}
    BY <1>1 DEF EdgesOf
  <2>2. G[i] = EdgesOf(f, lm, G, i)
    BY DEF RecordedBy
  <2>3. Goes(f, lm, i) = {NextOf(f, i)} \ {0}
    BY <1>1 DEF Goes
  <2> QED
    BY <2>1, <2>2, <2>3
<1>3. i \in Nat /\ i <= Len(f.il)
  BY Positions
<1>4. i < Len(f.il) => NextOf(f, i) # 0
  BY <1>3, Next1, Positions
<1> QED
  BY <1>2, <1>4, NoNext

(* Where a jump goes: back, or on, or to the node behind the exit.         *)
LEMMA JumpGoes ==
  ASSUME NEW f \in Functions, NEW saved \in 1 .. Len(f.il), NEW entry \in 1 .. Len(f.il),
         NEW exit \in 1 .. Len(f.il), Layout(f, saved, entry, exit),
         NEW lm, LabelsKnown(f, lm), NEW i \in NodesOf(f), IsJump(f.il[i]), Inside(f, i),
         NEW k, k = lm[f.il[i].jumps[1]]
  PROVE  /\ k \in NodesOf(f) /\ (k <= i \/ k = NextOf(f, i) \/ k = exit + 1)
         /\ Goes(f, lm, i) = {k}
         /\ NextOf(f, i) \in NodesOf(f) /\ i < NextOf(f, i)
         /\ \A G : EdgesOf(f, lm, G, i) = {Via(f, G, i, k)}
<1>1. PICK p \in 1 .. Len(f.il) : IsLabelAt(f, p, f.il[i].jumps[1])
                                  /\ (p < i \/ p = i + 1 \/ p = exit)
  BY JumpPosition
<1>2. k = NextOf(f, p) /\ p \notin NodesOf(f)
  BY <1>1, Positions DEF LabelsKnown, IsLabelAt
<1>3. p \in Nat /\ p < Len(f.il) /\ i \in Nat /\ exit \in Nat /\ exit < Len(f.il) /\ i < Len(f.il)
  <2>1. i # Len(f.il)
    BY LastNode, NoKindTwice
  <2>2. p # Len(f.il)
    BY <1>2, LastNode
  <2>3. Len(f.il) \in Nat /\ i \in 1 .. Len(f.il) /\ exit < Len(f.il)
    BY Positions, Layouts
  <2> QED
    BY <2>1, <2>2, <2>3
<1>4. /\ k \in NodesOf(f) /\ p < k
      /\ \A j \in NodesOf(f) : p < j => k <= j
  BY <1>2, <1>3, Next1
<1>5. k <= i \/ k = NextOf(f, i) \/ k = exit + 1
  <2>1. CASE p < i
    BY <1>4, <2>1
  <2>2. CASE p = i + 1
    <3>1. i + 1 \in 1 .. Len(f.il) /\ i + 1 \notin NodesOf(f) /\ i \in 1 .. Len(f.il)
      BY JumpPosition, Positions
    <3> QED
      BY <3>1, <2>2, <1>2, NextOverLabel
  <2>3. CASE p = exit
    <3>1. exit + 1 \in 1 .. Len(f.il) /\ exit + 1 > exit
      BY <1>3
    <3>2. exit + 1 \in NodesOf(f)
      BY <3>1, Layouts
    <3> QED
      BY <3>2, <2>3, <1>2, <1>3, NextBeside
  <2> QED
    BY <1>1, <2>1, <2>2, <2>3
<1>6. ToSet(f.il[i].jumps) = {f.il[i].jumps[1]} /\ f.il[i].jumps # <<>> /\ Len(f.il[i].jumps) = 1
  BY JumpPosition DEF IsJump
<1>7. Goes(f, lm, i) = {k}
  BY <1>6 DEF Goes
<1>8. \A G : EdgesOf(f, lm, G, i) = {Via(f, G, i, k)}
  BY <1>6 DEF EdgesOf
<1> QED
  BY <1>3, <1>4, <1>5, <1>7, <1>8, Next1

(* Where the jump behind a branch goes: on.                                *)
LEMMA FalseJump ==
  ASSUME NEW f \in Functions, NEW saved \in 1 .. Len(f.il), NEW entry \in 1 .. Len(f.il),
         NEW exit \in 1 .. Len(f.il), Layout(f, saved, entry, exit),
         NEW lm, NEW G, RecordedBy(f, lm, G), NEW i \in NodesOf(f), IsBranch(f.il[i])
  PROVE  /\ i + 1 \in NodesOf(f) /\ IsJump(f.il[i + 1]) /\ NextOf(f, i) = i + 1
         /\ lm[f.il[i].jumps[2]] = NextOf(f, i + 1)
         /\ Goes(f, lm, i + 1) = {NextOf(f, i + 1)} /\ G[i + 1] = {NextOf(f, i + 1)}
         /\ NextOf(f, i + 1) \in NodesOf(f) /\ NextOf(f, i + 1) > i + 1
<1>1. /\ i + 1 \in NodesOf(f) /\ IsJump(f.il[i + 1])
      /\ i + 2 \in 1 .. Len(f.il) /\ IsLabelAt(f, i + 2, f.il[i].jumps[2])
      /\ f.il[i + 1].jumps[1] = f.il[i].jumps[2] /\ Inside(f, i + 1)
  BY BranchPosition
<1>2. i \in Nat /\ i + 1 \in 1 .. Len(f.il) /\ (i + 1) + 1 = i + 2
  BY <1>1, Positions, SMTT(30)
<1>3. i + 2 \notin NodesOf(f)
  BY <1>1, Positions DEF IsLabelAt
<1>4. NextOf(f, i) = i + 1
  BY <1>1, <1>2, NextBeside
<1>5. NextOf(f, i + 2) = NextOf(f, i + 1)
  BY <1>1, <1>2, <1>3, NextOverLabel
<1>6. lm[f.il[i].jumps[2]] = NextOf(f, i + 1)
  BY <1>1, <1>5 DEF RecordedBy, LabelsKnown, IsLabelAt
<1>7. PICK q : q = NextOf(f, i + 1)
  OBVIOUS
<1>8. LabelsKnown(f, lm) /\ q = lm[f.il[i + 1].jumps[1]]
  BY <1>1, <1>6, <1>7 DEF RecordedBy
<1>9. /\ Goes(f, lm, i + 1) = {q} /\ EdgesOf(f, lm, G, i + 1) = {Via(f, G, i + 1, q)}
      /\ q \in NodesOf(f) /\ i + 1 < q
  BY <1>1, <1>7, <1>8, JumpGoes
<1>10. Via(f, G, i + 1, q) = q
  BY <1>7 DEF Via
<1>11. G[i + 1] = {q}
  BY <1>1, <1>9, <1>10 DEF RecordedBy
<1> QED
  BY <1>1, <1>2, <1>4, <1>6, <1>7, <1>9, <1>11, Positions
(* A jump is recorded to go where it goes, or to the next node when that   *)
(* is a jump to the same place.                                            *)
LEMMA JumpEdges ==
  ASSUME NEW f \in Functions, NEW saved \in 1 .. Len(f.il), NEW entry \in 1 .. Len(f.il),
         NEW exit \in 1 .. Len(f.il), Layout(f, saved, entry, exit),
         NEW lm, NEW G, RecordedBy(f, lm, G), NEW i \in NodesOf(f), IsJump(f.il[i]),
         NEW k, k = lm[f.il[i].jumps[1]], NEW nx, nx = NextOf(f, i)
  PROVE  \/ G[i] = {k}
         \/ G[i] = {nx} /\ k # nx /\ IsJump(f.il[nx]) /\ G[nx] = {k} /\ Goes(f, lm, nx) = {k}
<1>1. LabelsKnown(f, lm) /\ \A n \in NodesOf(f) : Inside(f, n)
  BY DEF RecordedBy
<1>2. /\ k \in NodesOf(f) /\ (k <= i \/ k = nx \/ k = exit + 1)
      /\ nx \in NodesOf(f) /\ i < nx /\ EdgesOf(f, lm, G, i) = {Via(f, G, i, k)}
  BY <1>1, JumpGoes
<1>3. G[i] = {Via(f, G, i, k)}
  BY <1>2 DEF RecordedBy
<1>4. CASE k \notin G[nx] \/ k = nx
  BY <1>3, <1>4 DEF Via
<1>5. CASE k \in G[nx] /\ k # nx
  <2>1. G[i] = {nx}
    BY <1>3, <1>5 DEF Via
  <2>2. /\ i \in Nat /\ k \in Nat /\ nx \in Nat /\ exit \in Nat /\ nx <= Len(f.il)
        /\ exit < Len(f.il) /\ Len(f.il) \in Nat
    <3>1. NodesOf(f) \subseteq 1 .. Len(f.il) /\ Len(f.il) \in Nat
      BY Positions
    <3>2. exit < Len(f.il)
      BY Layouts
    <3> QED
      BY <1>2, <3>1, <3>2
  <2>3. exit + 1 \in NodesOf(f) /\ IsPlain(f.il[exit + 1])
    <3>1. exit + 1 \in 1 .. Len(f.il) /\ exit + 1 > exit
      BY <2>2
    <3> QED
      BY <3>1, Layouts
  <2>4. ~IsPlain(f.il[nx])
    <3> SUFFICES ASSUME IsPlain(f.il[nx]) PROVE FALSE
      OBVIOUS
    <3>1. nx < Len(f.il) /\ k = NextOf(f, nx)
      BY <1>2, <1>5, <2>2, PlainEdges
    <3>2. nx < k /\ \A j \in NodesOf(f) : nx < j => k <= j
      BY <2>2, <3>1, Next1
    <3>3. k = exit + 1
      BY <1>2, <1>5, <2>2, <3>2, SMTT(30)
    <3>4. nx < exit
      <4>1. nx # exit
        BY <1>2, Layouts
      <4> QED
        BY <2>2, <3>2, <3>3, <4>1
    <3>5. PICK j \in NodesOf(f) : IsJump(f.il[j]) /\ j < exit /\ \A a \in j + 1 .. exit : a \notin NodesOf(f)
      BY Layouts
    <3>6. j \in Nat /\ j <= nx
      BY <2>2, <3>2, <3>3, <3>5, Positions
    <3>7. nx = j
      BY <1>2, <2>2, <3>4, <3>5, <3>6
    <3> QED
      BY <3>5, <3>7, NoKindTwice
  <2>5. ~IsBranch(f.il[nx])
    <3> SUFFICES ASSUME IsBranch(f.il[nx]) PROVE FALSE
      OBVIOUS
    <3>1. nx - 1 \in NodesOf(f) /\ IsPlain(f.il[nx - 1])
      BY <1>2, BranchPosition
    <3>2. i < nx - 1 => nx <= nx - 1
      BY <2>2, <1>2, <3>1, Next1, SMTT(30)
    <3>3. i = nx - 1
      BY <1>2, <2>2, <3>2
    <3> QED
      BY <3>1, <3>3, NoKindTwice
  <2>6. IsJump(f.il[nx])
    BY <1>2, <2>4, <2>5, Layouts DEF JumpFits, BranchFits
  <2>7. PICK r : r = lm[f.il[nx].jumps[1]]
    OBVIOUS
  <2>8. PICK far : far = NextOf(f, nx)
    OBVIOUS
  <2>9. /\ r \in NodesOf(f) /\ (r <= nx \/ r = far \/ r = exit + 1)
        /\ Goes(f, lm, nx) = {r} /\ far \in NodesOf(f) /\ nx < far
        /\ EdgesOf(f, lm, G, nx) = {Via(f, G, nx, r)}
    <3>1. nx \in NodesOf(f) /\ Inside(f, nx) /\ LabelsKnown(f, lm)
      BY <1>1, <1>2
    <3> QED
      BY <2>6, <2>7, <2>8, <3>1, JumpGoes, SMTT(30)
  <2>10. k = Via(f, G, nx, r) /\ G[nx] = {k}
    <3>1. G[nx] = {Via(f, G, nx, r)}
      BY <1>2, <2>9 DEF RecordedBy
    <3> QED
      BY <1>5, <3>1
  <2>11. k = r
    <3> SUFFICES ASSUME k # r PROVE FALSE
      OBVIOUS
    <3>1. k = far /\ r \in G[far]
      BY <2>8, <2>10 DEF Via
    <3>2. k = exit + 1
      BY <1>2, <1>5, <2>2, <2>9, <3>1
    <3>3. r \in {NextOf(f, k)} \ {0} /\ k < Len(f.il)
      BY <2>2, <2>3, <3>1, <3>2, PlainEdges
    <3>4. k < r
      BY <2>2, <3>3, Next1
    <3>5. r \in Nat
      BY <2>9, Positions
    <3> QED
      BY <2>2, <2>9, <3>1, <3>2, <3>4, <3>5
  <2> QED
    BY <1>5, <2>1, <2>6, <2>9, <2>10, <2>11
<1> QED
  BY <1>4, <1>5

(* A branch is recorded to go on, and to its true label unless that is     *)
(* where the jump behind it goes.                                          *)
LEMMA BranchEdges ==
  ASSUME NEW f \in Functions, NEW saved \in 1 .. Len(f.il), NEW entry \in 1 .. Len(f.il),
         NEW exit \in 1 .. Len(f.il), Layout(f, saved, entry, exit),
         NEW lm, NEW G, RecordedBy(f, lm, G), NEW i \in NodesOf(f), IsBranch(f.il[i]),
         NEW k, k = lm[f.il[i].jumps[1]]
  PROVE  /\ k \in NodesOf(f) /\ Goes(f, lm, i) = {k, i + 1}
         /\ k = NextOf(f, i + 1) => G[i] = {i + 1}
         /\ k # NextOf(f, i + 1) => G[i] = {i + 1, k}
<1>1. PICK p \in 1 .. Len(f.il) : IsLabelAt(f, p, f.il[i].jumps[1])
  BY BranchPosition
<1>2. k = NextOf(f, p) /\ p \notin NodesOf(f)
  BY <1>1, Positions DEF RecordedBy, LabelsKnown, IsLabelAt
<1>3. p \in Nat /\ p < Len(f.il)
  <2>1. p # Len(f.il) /\ Len(f.il) \in Nat
    BY <1>2, LastNode, Positions
  <2> QED
    BY <2>1
<1>4. k \in NodesOf(f)
  BY <1>2, <1>3, Next1
<1>5. PICK q : q = NextOf(f, i + 1)
  OBVIOUS
<1>6. /\ NextOf(f, i) = i + 1 /\ lm[f.il[i].jumps[2]] = q /\ G[i + 1] = {q} /\ i + 1 \in Nat /\ i + 1 # 0
  <2>1. NodesOf(f) \subseteq 1 .. Len(f.il)
    BY Positions
  <2>2. NextOf(f, i) = i + 1 /\ lm[f.il[i].jumps[2]] = q /\ G[i + 1] = {q}
    BY <1>5, FalseJump
  <2> QED
    BY <2>1, <2>2
<1>7. /\ ToSet(f.il[i].jumps) = {f.il[i].jumps[1], f.il[i].jumps[2]} /\ f.il[i].jumps # <<>>
      /\ Len(f.il[i].jumps) = 2
  <2>1. Len(f.il[i].jumps) = 2
    BY DEF IsBranch
  <2> QED
    BY <2>1, BranchPosition, ZenonT(60)
<1>8. Goes(f, lm, i) = {k, i + 1}
  BY <1>6, <1>7 DEF Goes
<1>9. EdgesOf(f, lm, G, i) = {Via(f, G, i, k), Via(f, G, i, q)}
  BY <1>6, <1>7 DEF EdgesOf
<1>10. Via(f, G, i, q) = i + 1 /\ (k = q => Via(f, G, i, k) = i + 1)
       /\ (k # q => Via(f, G, i, k) = k)
  BY <1>6 DEF Via
<1>11. G[i] = {Via(f, G, i, k), Via(f, G, i, q)}
  BY <1>9 DEF RecordedBy
<1> QED
  BY <1>4, <1>5, <1>8, <1>10, <1>11
(* What FollowsControl says, and that whatever an edge leads through goes  *)
(* nowhere else.                                                           *)
Follows(f, lm, G, n) ==
  LET nx == NextOf(f, n)
      passes == nx \in G[n] /\ nx \in NodesOf(f) /\ f.il[nx].dst = {} /\ f.il[nx].src = {}
  IN  /\ \A m \in Goes(f, lm, n) \ G[n] : passes /\ m \in G[nx]
      /\ \A m \in G[n] \ Goes(f, lm, n) :
           m = nx /\ passes /\ Goes(f, lm, nx) \subseteq Goes(f, lm, n)

LEMMA EdgesFollow ==
  ASSUME NEW f \in Functions, NEW lm, NEW G, RecordedBy(f, lm, G), NEW n \in NodesOf(f)
  PROVE  /\ Follows(f, lm, G, n)
         /\ G[n] \subseteq NodesOf(f) /\ Goes(f, lm, n) \subseteq NodesOf(f)
<1>1. PICK saved, entry, exit \in 1 .. Len(f.il) : Layout(f, saved, entry, exit)
  BY Positions
<1>2. PICK nx : nx = NextOf(f, n)
  OBVIOUS
<1>3. n \in Nat /\ n <= Len(f.il)
  BY Positions
<1>4. CASE IsPlain(f.il[n])
  <2>1. nx = 0 \/ nx \in NodesOf(f)
    <3>1. CASE n = Len(f.il)
      BY <3>1, <1>2, NoNext
    <3>2. CASE n # Len(f.il)
      <4>1. n < Len(f.il)
        BY <1>3, <3>2, Positions
      <4> QED
        BY <1>2, <1>3, <4>1, Next1
    <3> QED
      BY <3>1, <3>2
  <2>2. G[n] = {nx} \ {0} /\ Goes(f, lm, n) = {nx} \ {0}
    BY <1>2, <1>4, PlainEdges
  <2> QED
    BY <2>1, <2>2 DEF Follows
<1>5. CASE IsJump(f.il[n])
  <2>1. PICK k : k = lm[f.il[n].jumps[1]]
    OBVIOUS
  <2>2. k \in NodesOf(f) /\ nx \in NodesOf(f) /\ Goes(f, lm, n) = {k}
    BY <1>1, <1>2, <1>5, <2>1, JumpGoes DEF RecordedBy
  <2>3. \/ G[n] = {k}
        \/ G[n] = {nx} /\ k # nx /\ IsJump(f.il[nx]) /\ G[nx] = {k} /\ Goes(f, lm, nx) = {k}
    BY <1>1, <1>2, <1>5, <2>1, JumpEdges
  <2> QED
    BY <1>2, <2>2, <2>3 DEF Follows, IsJump
<1>6. CASE IsBranch(f.il[n])
  <2>1. PICK k : k = lm[f.il[n].jumps[1]]
    OBVIOUS
  <2>2. PICK q : q = NextOf(f, n + 1)
    OBVIOUS
  <2>3. /\ k \in NodesOf(f) /\ Goes(f, lm, n) = {k, n + 1}
        /\ k = q => G[n] = {n + 1}
        /\ k # q => G[n] = {n + 1, k}
    BY <1>1, <1>6, <2>1, <2>2, BranchEdges
  <2>4. /\ n + 1 \in NodesOf(f) /\ IsJump(f.il[n + 1]) /\ nx = n + 1
        /\ Goes(f, lm, n + 1) = {q} /\ G[n + 1] = {q}
    BY <1>1, <1>2, <1>6, <2>2, FalseJump
  <2>5. (G[n] = {nx} /\ k = q) \/ G[n] = {nx, k}
    BY <2>3, <2>4
  <2>6. Goes(f, lm, n) = {k, nx} /\ nx \in NodesOf(f) /\ IsJump(f.il[nx]) /\ G[nx] = {q}
    BY <2>3, <2>4
  <2> QED
    BY <1>2, <2>3, <2>5, <2>6 DEF Follows, IsJump
<1> QED
  BY <1>1, <1>4, <1>5, <1>6, Layouts DEF JumpFits, BranchFits

-------------------------------------------------------------------------------
(* The predecessors of a node.                                             *)
LEMMA Ends ==
  ASSUME NEW f \in Functions, NEW saved \in 1 .. Len(f.il), NEW entry \in 1 .. Len(f.il),
         NEW exit \in 1 .. Len(f.il), Layout(f, saved, entry, exit)
  PROVE  /\ f.lastInstr \subseteq NodesOf(f) /\ Len(f.il) \in f.lastInstr
         /\ \A i \in NodesOf(f) : entry < i /\ i < exit /\ i + 1 \notin NodesOf(f) => i \in f.lastInstr
         /\ \A i \in NodesOf(f) : ~IsPlain(f.il[i]) => i \in f.lastInstr /\ entry < i
<1>1. f.lastInstr =
        {saved, Len(f.il)} \union
          {i \in entry + 1 .. exit - 1 :
             ~IsLabelInstr(f.il[i]) /\ (IsLabelInstr(f.il[i + 1]) \/ IsBranch(f.il[i]))}
  BY DEF Layout
<1>2. entry \in Nat /\ exit \in Nat /\ Len(f.il) \in Nat /\ saved <= entry /\ entry < exit
      /\ exit < Len(f.il) /\ saved \in 1 .. Len(f.il)
  BY Positions, Layouts
<1>3. saved \in NodesOf(f) /\ Len(f.il) \in NodesOf(f)
  BY <1>2, Layouts, LastNode
<1>4. \A i \in entry + 1 .. exit - 1 : i \in 1 .. Len(f.il) /\ i + 1 \in 1 .. Len(f.il)
  BY <1>2
<1>5. \A i \in entry + 1 .. exit - 1 :
        /\ i \in NodesOf(f) <=> ~IsLabelInstr(f.il[i])
        /\ i + 1 \in NodesOf(f) <=> ~IsLabelInstr(f.il[i + 1])
  BY <1>4, Positions
<1>6. f.lastInstr \subseteq NodesOf(f) /\ Len(f.il) \in f.lastInstr
  BY <1>1, <1>3, <1>5
<1>7. ASSUME NEW i \in NodesOf(f), entry < i, i < exit, i + 1 \notin NodesOf(f) \/ IsBranch(f.il[i])
      PROVE  i \in f.lastInstr
  <2>1. i \in entry + 1 .. exit - 1
    BY <1>2, <1>7, Positions
  <2> QED
    BY <1>1, <1>5, <1>7, <2>1
<1>8. ASSUME NEW i \in NodesOf(f), ~IsPlain(f.il[i]) PROVE i \in f.lastInstr /\ entry < i
  <2>1. entry < i /\ i < exit
    BY <1>8, Layouts
  <2>2. IsJump(f.il[i]) \/ IsBranch(f.il[i])
    BY <1>8, Layouts DEF JumpFits, BranchFits
  <2>3. IsJump(f.il[i]) => i + 1 \notin NodesOf(f)
    BY JumpPosition
  <2> QED
    BY <1>7, <2>1, <2>2, <2>3
<1> QED
  BY <1>6, <1>7, <1>8

(* An edge leads to the next node, or to the node of a label.              *)
LEMMA EdgeTo ==
  ASSUME NEW f \in Functions, NEW lm, NEW G, RecordedBy(f, lm, G), NEW m \in NodesOf(f),
         NEW n \in G[m]
  PROVE  \/ n = NextOf(f, m)
         \/ ~IsPlain(f.il[m]) /\ \E p \in 1 .. Len(f.il) : p \notin NodesOf(f) /\ n = NextOf(f, p)
<1>1. PICK saved, entry, exit \in 1 .. Len(f.il) : Layout(f, saved, entry, exit)
  BY Positions
<1>2. ASSUME NEW l, NEW p \in 1 .. Len(f.il), IsLabelAt(f, p, l)
      PROVE  lm[l] = NextOf(f, p) /\ p \notin NodesOf(f)
  BY <1>2, Positions DEF IsLabelAt, RecordedBy, LabelsKnown
<1>3. PICK k : k = lm[f.il[m].jumps[1]]
  OBVIOUS
<1>4. CASE IsPlain(f.il[m])
  BY <1>4, PlainEdges
<1>5. CASE IsJump(f.il[m])
  <2>1. n = k \/ n = NextOf(f, m)
    BY <1>1, <1>3, <1>5, JumpEdges
  <2>2. \E p \in 1 .. Len(f.il) : IsLabelAt(f, p, f.il[m].jumps[1])
    BY <1>1, <1>5, JumpPosition DEF RecordedBy
  <2> QED
    BY <1>2, <1>3, <1>5, <2>1, <2>2, NoKindTwice
<1>6. CASE IsBranch(f.il[m])
  <2>1. n = k \/ n = NextOf(f, m)
    BY <1>1, <1>3, <1>6, BranchEdges, FalseJump
  <2>2. \E p \in 1 .. Len(f.il) : IsLabelAt(f, p, f.il[m].jumps[1])
    BY <1>1, <1>6, BranchPosition
  <2> QED
    BY <1>2, <1>3, <1>6, <2>1, <2>2, NoKindTwice
<1> QED
  BY <1>1, <1>4, <1>5, <1>6, Layouts DEF JumpFits, BranchFits

LEMMA NextInjective ==
  ASSUME NEW f \in Functions, NEW a \in NodesOf(f), NEW b \in NodesOf(f),
         a < Len(f.il), b < Len(f.il), NextOf(f, a) = NextOf(f, b)
  PROVE  a = b
<1>1. a \in Nat /\ b \in Nat
  BY Positions
<1>2. a < b => NextOf(f, a) <= b
  BY <1>1, Next1
<1>3. b < a => NextOf(f, b) <= a
  BY <1>1, Next1
<1>4. b < NextOf(f, b) /\ a < NextOf(f, a) /\ NextOf(f, a) \in Nat
  BY <1>1, Next1, Positions
<1> QED
  BY <1>1, <1>2, <1>3, <1>4
LEMMA FirstHasNone ==
  ASSUME NEW f \in Functions, NEW lm, NEW G, RecordedBy(f, lm, G), NEW m \in NodesOf(f)
  PROVE  1 \notin G[m] /\ 1 \in NodesOf(f)
<1>1. ASSUME NEW p \in 1 .. Len(f.il) PROVE NextOf(f, p) # 1
  <2>1. CASE p = Len(f.il)
    BY <2>1, NoNext
  <2>2. CASE p # Len(f.il)
    <3>1. p \in Nat /\ p < Len(f.il) /\ p >= 1
      BY <2>2, Positions
    <3> QED
      BY <3>1, Next1, Positions
  <2> QED
    BY <2>1, <2>2
<1>2. m \in 1 .. Len(f.il)
  BY Positions
<1>3. PICK saved, entry, exit \in 1 .. Len(f.il) : Layout(f, saved, entry, exit)
  BY Positions
<1>4. 1 \in 1 .. Len(f.il) /\ 1 <= entry
  BY <1>2, Positions
<1>5. 1 \in NodesOf(f)
  BY <1>3, <1>4, Layouts
<1> QED
  BY <1>1, <1>2, <1>5, EdgeTo

(* Behind the end of a block only ends of blocks go on to a node; behind   *)
(* another node that one does, and no other, or none before it.            *)
LEMMA PredsOf ==
  ASSUME NEW f \in Functions, NEW lm, NEW G, RecordedBy(f, lm, G),
         NEW b \in NodesOf(f), b < Len(f.il), NEW n, n = NextOf(f, b)
  PROVE  /\ b \in f.lastInstr => \A m \in NodesOf(f) : n \in G[m] => m \in f.lastInstr
         /\ b \notin f.lastInstr =>
              /\ G[b] = {n}
              /\ \A m \in NodesOf(f) : n \in G[m] => b <= m
              /\ \/ \A j \in 1 .. b : j \in NodesOf(f)
                 \/ \A m \in NodesOf(f) : n \in G[m] => m = b
<1>1. PICK saved, entry, exit \in 1 .. Len(f.il) : Layout(f, saved, entry, exit)
  BY Positions
<1>2. NodesOf(f) \subseteq 1 .. Len(f.il) /\ Len(f.il) \in Nat
  BY Positions
<1>3. /\ b \in Nat /\ n \in NodesOf(f) /\ b < n /\ n \in Nat /\ n # 0
      /\ \A i \in NodesOf(f) : b < i => n <= i
  BY <1>2, Next1
<1>4. ASSUME NEW m \in NodesOf(f), n = NextOf(f, m) PROVE m = b
  <2>1. m # Len(f.il)
    BY <1>3, <1>4, NoNext
  <2>2. m < Len(f.il)
    BY <1>2, <2>1
  <2> QED
    BY <1>4, <2>2, NextInjective
<1>5. ASSUME NEW m \in NodesOf(f), n \in G[m], m # b
      PROVE  /\ ~IsPlain(f.il[m]) /\ \E p \in 1 .. Len(f.il) : p \notin NodesOf(f) /\ n = NextOf(f, p)
             /\ m \in f.lastInstr /\ entry < m
  <2>1. n # NextOf(f, m)
    BY <1>4, <1>5
  <2>2. ~IsPlain(f.il[m]) /\ \E p \in 1 .. Len(f.il) : p \notin NodesOf(f) /\ n = NextOf(f, p)
    BY <1>5, <2>1, EdgeTo
  <2> QED
    BY <1>1, <2>2, Ends
<1>6. b \in f.lastInstr => \A m \in NodesOf(f) : n \in G[m] => m \in f.lastInstr
  BY <1>5
<1>7. ASSUME b \notin f.lastInstr
      PROVE  /\ G[b] = {n}
             /\ \A m \in NodesOf(f) : n \in G[m] => b <= m
             /\ \/ \A j \in 1 .. b : j \in NodesOf(f)
                \/ \A m \in NodesOf(f) : n \in G[m] => m = b
  <2>1. IsPlain(f.il[b])
    BY <1>1, <1>7, Ends
  <2>2. G[b] = {n}
    BY <2>1, PlainEdges
  <2>3. CASE b + 1 \in NodesOf(f)
    <3>1. n = b + 1
      BY <1>3, <2>3, NextBeside
    <3>2. ASSUME NEW m \in NodesOf(f), n \in G[m], m # b PROVE FALSE
      <4>1. PICK p \in 1 .. Len(f.il) : p \notin NodesOf(f) /\ n = NextOf(f, p)
        BY <1>5, <3>2
      <4>2. p \in Nat /\ p # b /\ p < Len(f.il)
        <5>1. p # Len(f.il)
          BY <4>1, LastNode
        <5> QED
          BY <1>2, <4>1, <5>1
      <4>3. p < n /\ \A i \in NodesOf(f) : p < i => n <= i
        BY <4>1, <4>2, Next1
      <4>4. p < b
        BY <1>3, <3>1, <4>2, <4>3
      <4> QED
        BY <1>3, <4>3, <4>4
    <3> QED
      BY <1>3, <2>2, <3>2
  <2>4. CASE b + 1 \notin NodesOf(f)
    <3>1. entry \in Nat /\ exit \in Nat /\ entry < exit /\ exit < Len(f.il) /\ b + 1 \in 1 .. Len(f.il)
      BY <1>1, <1>2, <1>3, Layouts
    <3>2. ~(entry < b /\ b < exit)
      BY <1>1, <1>7, <2>4, Ends
    <3>3. ~(b + 1 > exit)
      BY <1>1, <2>4, <3>1, Layouts
    <3>4. b <= entry
      BY <1>3, <3>1, <3>2, <3>3
    <3>5. \A j \in 1 .. b : j \in NodesOf(f)
      <4>1. \A j \in 1 .. b : j \in 1 .. Len(f.il) /\ j <= entry
        BY <1>3, <3>1, <3>4
      <4> QED
        BY <1>1, <4>1, Layouts
    <3>6. ASSUME NEW m \in NodesOf(f), n \in G[m] PROVE b <= m
      <4>1. m = b \/ entry < m
        BY <1>5, <3>6
      <4> QED
        BY <1>2, <1>3, <3>1, <3>4, <4>1
    <3> QED
      BY <2>2, <3>5, <3>6
  <2> QED
    BY <2>3, <2>4
<1> QED
  BY <1>6, <1>7
-------------------------------------------------------------------------------
(* LiveIn, of a given function.                                            *)
More(f, t, s, found) ==
  found \union {n \in NodesOf(f) : /\ t \notin f.il[n].dst
                                   /\ s[n] \intersect found # {}}

Live(f, t, s) ==
  LET grow[found \in SUBSET NodesOf(f)] ==
        IF More(f, t, s, found) = found THEN found ELSE grow[More(f, t, s, found)]
  IN  grow[{n \in NodesOf(f) : t \in f.il[n].src}]

(* Of the sets that contain X and that More does not enlarge, the least.   *)
Least(f, t, s, X) ==
  {n \in NodesOf(f) :
     \A Y \in SUBSET NodesOf(f) : X \subseteq Y /\ More(f, t, s, Y) = Y => n \in Y}

LEMMA LeastFacts ==
  ASSUME NEW f, NEW t, NEW s, NEW X \in SUBSET NodesOf(f)
  PROVE  /\ More(f, t, s, X) \in SUBSET NodesOf(f) /\ X \subseteq More(f, t, s, X)
         /\ X \subseteq Least(f, t, s, X) /\ Least(f, t, s, X) \in SUBSET NodesOf(f)
         /\ More(f, t, s, X) = X => Least(f, t, s, X) = X
         /\ Least(f, t, s, More(f, t, s, X)) = Least(f, t, s, X)
         /\ More(f, t, s, Least(f, t, s, X)) = Least(f, t, s, X)
         /\ \A Y \in SUBSET NodesOf(f) :
              X \subseteq Y /\ More(f, t, s, Y) = Y => Least(f, t, s, X) \subseteq Y
<1> DEFINE N == NodesOf(f)
           M(Z) == More(f, t, s, Z)
           L(Z) == Least(f, t, s, Z)
<1>1. \A Z \in SUBSET N : M(Z) \in SUBSET N /\ Z \subseteq M(Z)
  BY DEF More
<1>2. \A Y, Z \in SUBSET N : Z \subseteq Y => M(Z) \subseteq M(Y)
  BY DEF More
<1>3. \A Z \in SUBSET N : L(Z) \in SUBSET N /\ Z \subseteq L(Z)
  BY DEF Least
<1>4. \A Y, Z \in SUBSET N : Z \subseteq Y /\ M(Y) = Y => L(Z) \subseteq Y
  BY DEF Least
<1>5. \A Z : \A n \in N : n \notin L(Z) => \E Y \in SUBSET N : Z \subseteq Y /\ M(Y) = Y /\ n \notin Y
  BY DEF Least
<1> HIDE DEF M, L
<1>6. M(X) = X => L(X) = X
  BY <1>3, <1>4
<1>7. L(M(X)) = L(X)
  <2>1. L(M(X)) \subseteq L(X)
    <3> SUFFICES ASSUME NEW n \in L(M(X)), n \notin L(X) PROVE FALSE
      OBVIOUS
    <3>1. n \in N
      BY <1>1, <1>3
    <3>2. PICK Y \in SUBSET N : X \subseteq Y /\ M(Y) = Y /\ n \notin Y
      BY <1>5, <3>1
    <3> QED
      BY <1>1, <1>2, <1>4, <3>2
  <2>2. L(X) \subseteq L(M(X))
    <3> SUFFICES ASSUME NEW n \in L(X), n \notin L(M(X)) PROVE FALSE
      OBVIOUS
    <3>1. n \in N
      BY <1>3
    <3>2. PICK Y \in SUBSET N : M(X) \subseteq Y /\ M(Y) = Y /\ n \notin Y
      BY <1>5, <3>1
    <3> QED
      BY <1>1, <1>4, <3>2
  <2> QED
    BY <2>1, <2>2
<1>8. M(L(X)) = L(X)
  <2> SUFFICES ASSUME NEW n \in M(L(X)), n \notin L(X) PROVE FALSE
    BY <1>1, <1>3
  <2>1. n \in N
    BY <1>1, <1>3
  <2>2. PICK Y \in SUBSET N : X \subseteq Y /\ M(Y) = Y /\ n \notin Y
    BY <1>5, <2>1
  <2> QED
    BY <1>2, <1>3, <1>4, <2>2
<1> QED
  BY <1>1, <1>3, <1>4, <1>6, <1>7, <1>8 DEF M, L

LEMMA FiniteWithin ==
  ASSUME NEW n \in Nat, NEW S, S \subseteq 1 .. n
  PROVE  IsFiniteSet(S)
<1>1. IsFiniteSet(1 .. n)
  BY FS_Interval
<1> QED
  BY <1>1, FS_Subset

(* The recursion returns the least set.                                    *)
LEMMA LiveIsLeast ==
  ASSUME NEW f \in Functions, NEW t, NEW s
  PROVE  Live(f, t, s) = Least(f, t, s, {n \in NodesOf(f) : t \in f.il[n].src})
<1> DEFINE N == NodesOf(f)
           M(Z) == More(f, t, s, Z)
           L(Z) == Least(f, t, s, Z)
           Eq(g) == g = [X \in SUBSET N |-> IF M(X) = X THEN X ELSE g[M(X)]]
           uses == {n \in N : t \in f.il[n].src}
           grow == CHOOSE g : Eq(g)
<1>1. \A X \in SUBSET N : /\ M(X) \in SUBSET N /\ X \subseteq M(X)
                          /\ M(X) = X => L(X) = X
                          /\ L(M(X)) = L(X)
  <2>1. TAKE X \in SUBSET N
  <2> QED
    BY LeastFacts
<1>2. IsFiniteSet(N)
  <2>1. N \subseteq 1 .. Len(f.il) /\ Len(f.il) \in Nat
    BY Positions
  <2> QED
    BY <2>1, FiniteWithin
<1>3. Live(f, t, s) = grow[uses]
  BY DEF Live
<1> HIDE DEF M, L, N
<1>4. Eq([X \in SUBSET N |-> L(X)])
  BY <1>1
<1>5. Eq(grow)
  <2>1. \E g : Eq(g)
    BY <1>4
  <2> HIDE DEF Eq
  <2> QED
    BY <2>1
<1> HIDE DEF grow
<1>6. \A X \in SUBSET N : grow[X] = IF M(X) = X THEN X ELSE grow[M(X)]
  BY <1>5
<1> HIDE DEF Eq
<1> DEFINE Bad == {X \in SUBSET N : grow[X] # L(X)}
           sizes == {Cardinality(N \ X) : X \in Bad}
<1>7. Bad = {}
  <2> SUFFICES ASSUME Bad # {} PROVE FALSE
    OBVIOUS
  <2>1. \A X \in SUBSET N : Cardinality(N \ X) \in Nat
    <3> TAKE X \in SUBSET N
    <3>1. IsFiniteSet(N \ X)
      BY <1>2, FS_Difference
    <3> QED
      BY <3>1, FS_CardinalityType
  <2>2. sizes \subseteq Nat /\ sizes # {}
    BY <2>1
  <2>3. PICK c \in sizes : \A d \in sizes : c <= d
    <3> HIDE DEF sizes
    <3> QED
      BY <2>2, LeastElement
  <2>4. PICK X \in Bad : c = Cardinality(N \ X)
    BY <2>3
  <2>5. X \in SUBSET N /\ M(X) \in SUBSET N /\ X \subseteq M(X)
    BY <1>1
  <2>6. M(X) # X
    BY <1>1, <1>6, <2>4
  <2>7. M(X) \in Bad
    BY <1>1, <1>6, <2>5, <2>6
  <2>8. Cardinality(N \ M(X)) < Cardinality(N \ X)
    <3>1. N \ M(X) \in SUBSET (N \ X) /\ N \ M(X) # N \ X
      BY <2>5, <2>6
    <3>2. IsFiniteSet(N \ X)
      BY <1>2, FS_Difference
    <3>3. /\ Cardinality(N \ M(X)) <= Cardinality(N \ X)
          /\ Cardinality(N \ M(X)) # Cardinality(N \ X)
      BY <3>1, <3>2, FS_Subset
    <3> HIDE DEF Bad
    <3>4. Cardinality(N \ M(X)) \in Nat /\ Cardinality(N \ X) \in Nat
      BY <2>1, <2>5
    <3> QED
      BY <3>3, <3>4
  <2>9. Cardinality(N \ M(X)) \in sizes
    BY <2>7
  <2>10. c <= Cardinality(N \ M(X)) /\ c \in Nat /\ Cardinality(N \ M(X)) \in Nat
    BY <2>2, <2>3, <2>9
  <2> QED
    BY <2>4, <2>8, <2>10, <2>1, <2>5
<1>8. uses \in SUBSET N
  OBVIOUS
<1>9. grow[uses] = L(uses)
  <2> HIDE DEF uses
  <2> QED
    BY <1>7, <1>8
<1> QED
  BY <1>3, <1>9 DEF L, N
(* The liveness equations: before a node t is live when the node uses it,  *)
(* or does not define it and t is live before a node behind.               *)
LEMMA LiveEquations ==
  ASSUME NEW f \in Functions, NEW t, NEW s
  PROVE  /\ Live(f, t, s) \subseteq NodesOf(f)
         /\ \A n \in NodesOf(f) :
              n \in Live(f, t, s) <=>
                \/ t \in f.il[n].src
                \/ t \notin f.il[n].dst /\ s[n] \intersect Live(f, t, s) # {}
         /\ \A Y \in SUBSET NodesOf(f) :
              /\ \A n \in NodesOf(f) : t \in f.il[n].src => n \in Y
              /\ \A n \in NodesOf(f) : t \notin f.il[n].dst /\ s[n] \intersect Y # {} => n \in Y
              => Live(f, t, s) \subseteq Y
<1> DEFINE N == NodesOf(f)
           uses == {n \in N : t \in f.il[n].src}
           L == Live(f, t, s)
           next == {n \in N : t \notin f.il[n].dst /\ s[n] \intersect L # {}}
<1>1. L = Least(f, t, s, uses)
  BY LiveIsLeast
<1>2. uses \in SUBSET N
  OBVIOUS
<1>3. /\ uses \subseteq L /\ L \in SUBSET N /\ More(f, t, s, L) = L
      /\ \A Y \in SUBSET N : uses \subseteq Y /\ More(f, t, s, Y) = Y => L \subseteq Y
  <2> HIDE DEF uses, L, N
  <2> QED
    BY <1>1, <1>2, LeastFacts DEF N
<1>4. \A Y \in SUBSET N :
        /\ \A n \in N : t \notin f.il[n].dst /\ s[n] \intersect Y # {} => n \in Y
        => More(f, t, s, Y) = Y
  BY DEF More
<1>5. next \subseteq L
  BY <1>3 DEF More
<1> HIDE DEF L
<1>6. L \subseteq uses \union next
  <2> DEFINE Y == uses \union next
  <2>1. Y \in SUBSET N /\ Y \subseteq L
    BY <1>3, <1>5
  <2>2. \A n \in N : t \notin f.il[n].dst /\ s[n] \intersect Y # {} => n \in Y
    <3> TAKE n \in N
    <3>1. s[n] \intersect Y # {} => s[n] \intersect L # {}
      BY <2>1
    <3> QED
      BY <3>1
  <2>3. uses \subseteq Y
    OBVIOUS
  <2> HIDE DEF Y
  <2>4. More(f, t, s, Y) = Y
    BY <1>4, <2>1, <2>2
  <2> QED
    BY <1>3, <2>1, <2>3, <2>4 DEF Y
<1>7. \A Y \in SUBSET N :
        /\ \A n \in N : t \in f.il[n].src => n \in Y
        /\ \A n \in N : t \notin f.il[n].dst /\ s[n] \intersect Y # {} => n \in Y
        => L \subseteq Y
  BY <1>3, <1>4
<1>8. \A n \in N :
        n \in L <=>
          \/ t \in f.il[n].src
          \/ t \notin f.il[n].dst /\ s[n] \intersect L # {}
  BY <1>3, <1>5, <1>6
<1> QED
  BY <1>3, <1>7, <1>8 DEF L

(* The temporaries live along the recorded edges are those live along the  *)
(* ways control goes, before each node and behind it.                      *)
LEMMA LiveAlongControl ==
  ASSUME NEW f \in Functions, NEW lm, NEW G, RecordedBy(f, lm, G),
         NEW C, \A n \in NodesOf(f) : C[n] = Goes(f, lm, n), NEW t
  PROVE  /\ Live(f, t, G) = Live(f, t, C)
         /\ \A n \in NodesOf(f) : G[n] \intersect Live(f, t, G) # {}
                                    <=> C[n] \intersect Live(f, t, C) # {}
<1> DEFINE N == NodesOf(f)
<1>1. PICK R : R = Live(f, t, G)
  OBVIOUS
<1>2. PICK L : L = Live(f, t, C)
  OBVIOUS
<1>3. /\ R \subseteq N
      /\ \A n \in N : n \in R <=> \/ t \in f.il[n].src
                                  \/ t \notin f.il[n].dst /\ G[n] \intersect R # {}
      /\ \A Y \in SUBSET N :
           /\ \A n \in N : t \in f.il[n].src => n \in Y
           /\ \A n \in N : t \notin f.il[n].dst /\ G[n] \intersect Y # {} => n \in Y
           => R \subseteq Y
  BY <1>1, LiveEquations
<1>4. /\ L \subseteq N
      /\ \A n \in N : n \in L <=> \/ t \in f.il[n].src
                                  \/ t \notin f.il[n].dst /\ C[n] \intersect L # {}
      /\ \A Y \in SUBSET N :
           /\ \A n \in N : t \in f.il[n].src => n \in Y
           /\ \A n \in N : t \notin f.il[n].dst /\ C[n] \intersect Y # {} => n \in Y
           => L \subseteq Y
  BY <1>2, LiveEquations
<1>5. ASSUME NEW n \in N, NEW m \in C[n], m \notin G[n]
      PROVE  \E x \in N : x \in G[n] /\ f.il[x].dst = {} /\ m \in G[x]
  <2>1. Follows(f, lm, G, n) /\ m \in Goes(f, lm, n) \ G[n]
    BY <1>5, EdgesFollow
  <2> QED
    BY <2>1 DEF Follows
<1>6. ASSUME NEW n \in N, NEW m \in G[n], m \notin C[n]
      PROVE  m \in N /\ f.il[m].src = {} /\ C[m] \subseteq C[n]
  <2>1. Follows(f, lm, G, n) /\ m \in G[n] \ Goes(f, lm, n)
    BY <1>6, EdgesFollow
  <2>2. m \in N /\ f.il[m].src = {} /\ Goes(f, lm, m) \subseteq Goes(f, lm, n)
    BY <2>1 DEF Follows
  <2> QED
    BY <2>2
<1> HIDE DEF N
<1>7. ASSUME NEW n \in N, C[n] \intersect R # {} PROVE G[n] \intersect R # {}
  <2>1. PICK m \in C[n] : m \in R
    BY <1>7
  <2>2. CASE m \notin G[n]
    <3>1. PICK x \in N : x \in G[n] /\ f.il[x].dst = {} /\ m \in G[x]
      BY <1>5, <2>2
    <3>2. x \in R
      BY <1>3, <2>1, <3>1
    <3> QED
      BY <3>1, <3>2
  <2> QED
    BY <2>1, <2>2
<1>8. ASSUME NEW n \in N, G[n] \intersect L # {} PROVE C[n] \intersect L # {}
  <2>1. PICK m \in G[n] : m \in L
    BY <1>8
  <2>2. CASE m \notin C[n]
    <3>1. m \in N /\ f.il[m].src = {} /\ C[m] \subseteq C[n]
      BY <1>6, <2>2
    <3>2. C[m] \intersect L # {}
      BY <1>4, <2>1, <3>1
    <3> QED
      BY <3>1, <3>2
  <2> QED
    BY <2>1, <2>2
<1>9. L \subseteq R
  <2>1. \A n \in N : t \notin f.il[n].dst /\ C[n] \intersect R # {} => n \in R
    BY <1>3, <1>7
  <2> QED
    BY <1>3, <1>4, <2>1
<1>10. R \subseteq L
  <2>1. \A n \in N : t \notin f.il[n].dst /\ G[n] \intersect L # {} => n \in L
    BY <1>4, <1>8
  <2> QED
    BY <1>3, <1>4, <2>1
<1>11. R = L
  BY <1>9, <1>10
<1> QED
  BY <1>1, <1>2, <1>7, <1>8, <1>11 DEF N
-------------------------------------------------------------------------------
(* Edges are added for at most two targets.                                *)
LEMMA Added ==
  ASSUME NEW S, NEW list \in Seq(S), NEW x \in S
  PROVE  AddTarget(list, x) \in Seq(S) /\ ToSet(AddTarget(list, x)) = ToSet(list) \union {x}
<1>1. CASE x \in ToSet(list)
  BY <1>1 DEF AddTarget
<1>2. CASE x \notin ToSet(list)
  <2>1. AddTarget(list, x) = <<x>> \o list
    BY <1>2 DEF AddTarget
  <2> DEFINE new == <<x>> \o list
  <2>2. new \in Seq(S) /\ Len(new) = Len(list) + 1
    OBVIOUS
  <2>3. new[1] = x /\ \A i \in 1 .. Len(list) : new[i + 1] = list[i]
    OBVIOUS
  <2>4. DOMAIN new = 1 .. Len(list) + 1 /\ DOMAIN list = 1 .. Len(list) /\ Len(list) \in Nat
    BY <2>2
  <2> HIDE DEF new
  <2>5. \A i \in 1 .. Len(list) + 1 : i = 1 \/ (i - 1 \in 1 .. Len(list) /\ new[i] = list[i - 1])
    <3> TAKE i \in 1 .. Len(list) + 1
    <3>1. CASE i # 1
      <4>1. i - 1 \in 1 .. Len(list) /\ (i - 1) + 1 = i
        BY <2>4, <3>1
      <4> QED
        BY <2>3, <4>1
    <3> QED
      BY <3>1
  <2>6. ToSet(new) \subseteq ToSet(list) \union {x}
    <3> SUFFICES ASSUME NEW i \in DOMAIN new PROVE new[i] \in ToSet(list) \union {x}
      BY DEF ToSet
    <3>1. i = 1 \/ (i - 1 \in DOMAIN list /\ new[i] = list[i - 1])
      BY <2>4, <2>5
    <3> QED
      BY <2>3, <3>1 DEF ToSet
  <2>7. \A i \in 1 .. Len(list) : i + 1 \in DOMAIN new
    BY <2>4
  <2>8. 1 \in DOMAIN new
    BY <2>4
  <2>9. ToSet(list) \union {x} \subseteq ToSet(new)
    BY <2>3, <2>4, <2>7, <2>8 DEF ToSet
  <2> QED
    BY <2>1, <2>2, <2>6, <2>9 DEF new
<1> QED
  BY <1>1, <1>2

LEMMA TargetsAdded ==
  ASSUME NEW S, NEW ts \in Seq(S), Len(ts) <= 2
  PROVE  /\ FoldLeft(AddTarget, <<>>, ts) \in Seq(S)
         /\ ToSet(FoldLeft(AddTarget, <<>>, ts)) = ToSet(ts)
<1> DEFINE D == DOMAIN ts
           one(i) == AddTarget(<<>>, ts[i])
           Eq(g) == g = [s \in SUBSET D |->
                           IF s = {} THEN <<>> ELSE AddTarget(g[s \ {Max(s)}], ts[Max(s)])]
           h == [s \in SUBSET D |->
                   IF s = {} THEN <<>>
                   ELSE IF s = {1, 2} THEN AddTarget(one(1), ts[2]) ELSE one(Max(s))]
           iter == CHOOSE g : Eq(g)
<1>1. FoldLeft(AddTarget, <<>>, ts) = iter[D]
  BY DEF FoldLeft, MapThenFoldSet
<1>2. /\ D = {} \/ D = {1} \/ D = {1, 2}
      /\ Len(ts) \in {0, 1, 2} /\ D = 1 .. Len(ts)
      /\ \A i \in D : ts[i] \in S
  <2> HIDE DEF h, one, iter, Eq
  <2>1. Len(ts) \in Nat /\ D = 1 .. Len(ts) /\ \A i \in D : ts[i] \in S
    OBVIOUS
  <2>2. Len(ts) = 0 \/ Len(ts) = 1 \/ Len(ts) = 2
    BY <2>1
  <2>3. 1 .. 0 = {} /\ 1 .. 1 = {1} /\ 1 .. 2 = {1, 2}
    OBVIOUS
  <2> QED
    BY <2>1, <2>2, <2>3
<1>3. \A i \in D : one(i) \in Seq(S) /\ ToSet(one(i)) = {ts[i]}
  <2> TAKE i \in D
  <2>1. <<>> \in Seq(S) /\ ToSet(<<>>) = {} /\ ts[i] \in S
    BY <1>2 DEF ToSet
  <2>2. /\ AddTarget(<<>>, ts[i]) \in Seq(S)
        /\ ToSet(AddTarget(<<>>, ts[i])) = ToSet(<<>>) \union {ts[i]}
    BY <2>1, Added, ZenonT(60)
  <2> QED
    BY <2>1, <2>2
<1> HIDE DEF one
<1>4. Max({1}) = 1 /\ Max({2}) = 2 /\ Max({1, 2}) = 2
  BY DEF Max
<1>5. Eq(h)
  <2> SUFFICES ASSUME NEW s \in SUBSET D
               PROVE  h[s] = IF s = {} THEN <<>>
                             ELSE AddTarget(h[s \ {Max(s)}], ts[Max(s)])
    OBVIOUS
  <2>1. s = {} \/ s = {1} \/ s = {2} \/ s = {1, 2}
    BY <1>2
  <2>2. CASE s = {}
    BY <2>2
  <2>3. ASSUME NEW i \in D, s = {i} PROVE h[s] = AddTarget(h[s \ {Max(s)}], ts[Max(s)])
    <3>1. Max(s) = i /\ s # {1, 2} /\ {} \in SUBSET D
      <4> HIDE DEF h, Eq, iter
      <4>1. i = 1 \/ i = 2
        BY <1>2
      <4>2. Max(s) = i
        BY <1>4, <2>3, <4>1
      <4>3. {1} # {1, 2} /\ {2} # {1, 2}
        <5>1. 1 \in {1, 2} /\ 2 \in {1, 2} /\ 2 \notin {1} /\ 1 \notin {2}
          OBVIOUS
        <5> QED
          BY <5>1
      <4> QED
        BY <2>3, <4>1, <4>2, <4>3
    <3>3. s \ {Max(s)} = {} /\ s # {}
      BY <2>3, <3>1
    <3>2. h[{}] = <<>> /\ h[s] = one(i)
      BY <3>1, <3>3
    <3> QED
      BY <3>1, <3>2, <3>3 DEF one
  <2>4. CASE s = {1, 2}
    <3>1. Max(s) = 2 /\ s \ {Max(s)} = {1} /\ {1} \in SUBSET D /\ {1} # {1, 2}
      BY <1>2, <1>4, <2>4
    <3>2. h[s] = AddTarget(one(1), ts[2]) /\ h[{1}] = one(1)
      BY <1>4, <2>4, <3>1
    <3> QED
      BY <2>4, <3>1, <3>2
  <2> QED
    BY <1>2, <2>1, <2>2, <2>3, <2>4
<1>6. Eq(iter)
  <2> HIDE DEF Eq, h
  <2>1. \E g : Eq(g)
    BY <1>5
  <2> QED
    BY <2>1
<1> HIDE DEF iter
<1>7. \A s \in SUBSET D : iter[s] = IF s = {} THEN <<>>
                                   ELSE AddTarget(iter[s \ {Max(s)}], ts[Max(s)])
  BY <1>6
<1> HIDE DEF Eq, h
<1>8. CASE D = {}
  <2>1. iter[D] = <<>>
    BY <1>7, <1>8
  <2>2. <<>> \in Seq(S) /\ ToSet(<<>>) = {} /\ ToSet(ts) = {}
    BY <1>8 DEF ToSet
  <2> QED
    BY <1>1, <2>1, <2>2
<1>9. 1 \in D => iter[{1}] = one(1)
  <2> SUFFICES ASSUME 1 \in D PROVE iter[{1}] = one(1)
    OBVIOUS
  <2>1. {1} \in SUBSET D /\ {} \in SUBSET D /\ {1} \ {1} = {} /\ {1} # {}
    OBVIOUS
  <2>2. iter[{}] = <<>>
    BY <1>7, <2>1
  <2>3. iter[{1}] = AddTarget(iter[{1} \ {Max({1})}], ts[Max({1})])
    BY <1>7, <2>1
  <2> QED
    BY <1>4, <2>1, <2>2, <2>3 DEF one
<1>10. CASE D = {1}
  <2>1. 1 \in D /\ iter[D] = one(1)
    BY <1>9, <1>10
  <2>2. ToSet(ts) = {ts[1]}
    BY <1>10 DEF ToSet
  <2> QED
    BY <1>1, <1>3, <2>1, <2>2
<1>11. CASE D = {1, 2}
  <2>1. {1, 2} \ {2} = {1} /\ {1, 2} # {} /\ 1 \in D /\ 2 \in D
    BY <1>11
  <2>2. iter[D] = AddTarget(iter[D \ {Max(D)}], ts[Max(D)])
    BY <1>7, <1>11, <2>1
  <2>3. iter[D] = AddTarget(one(1), ts[2])
    BY <1>4, <1>9, <1>11, <2>1, <2>2
  <2>4. PICK a : a = one(1)
    OBVIOUS
  <2>7. a \in Seq(S) /\ ToSet(a) = {ts[1]} /\ ts[2] \in S
    BY <1>2, <1>3, <2>1, <2>4
  <2>8. PICK x : x = ts[2]
    OBVIOUS
  <2>9. a \in Seq(S) /\ x \in S
    BY <2>7, <2>8
  <2>5. AddTarget(a, x) \in Seq(S) /\ ToSet(AddTarget(a, x)) = ToSet(a) \union {x}
    BY <2>9, Added
  <2>6. ToSet(ts) = {ts[1]} \union {ts[2]}
    BY <1>11 DEF ToSet
  <2> QED
    BY <1>1, <2>3, <2>4, <2>5, <2>6, <2>7, <2>8
<1> QED
  BY <1>2, <1>8, <1>10, <1>11
-------------------------------------------------------------------------------
(* The way down: a label that has been passed is among the head labels     *)
(* while no node has been met behind it, and then has the first one.       *)
NoNode(f, p, q) == \A j \in p .. q - 1 : j \notin NodesOf(f)

Down(f, a, hl, lm) ==
  /\ a \in 1 .. Len(f.il) + 1
  /\ \A p \in 1 .. a - 1 :
       p \notin NodesOf(f) =>
         IF NoNode(f, p, a) THEN f.il[p].label \in hl
         ELSE f.il[p].label \in DOMAIN lm /\ lm[f.il[p].label] = NextOf(f, p)
  /\ \A l \in hl : \E p \in 1 .. a - 1 : IsLabelAt(f, p, l) /\ NoNode(f, p, a)
  /\ DOMAIN lm \subseteq LabelsOf(f)

LEMMA DownLabel ==
  ASSUME NEW f \in Functions, NEW a, NEW hl, NEW lm, Down(f, a, hl, lm),
         a <= Len(f.il), IsLabelInstr(f.il[a])
  PROVE  Down(f, a + 1, hl \union {f.il[a].label}, lm)
<1>1. a \in 1 .. Len(f.il) /\ a \notin NodesOf(f) /\ Len(f.il) \in Nat
  BY Positions DEF Down
<1>2. a + 1 \in 1 .. Len(f.il) + 1 /\ (a + 1) - 1 = a
  BY <1>1
<1>3. \A p \in 1 .. a : p = a \/ p \in 1 .. a - 1
  BY <1>1
<1>4. NoNode(f, a, a + 1)
  BY <1>1 DEF NoNode
<1>5. ASSUME NEW p \in 1 .. a - 1 PROVE NoNode(f, p, a + 1) <=> NoNode(f, p, a)
  <2>1. \A j \in p .. a : j = a \/ j \in p .. a - 1
    BY <1>1
  <2>2. p .. a - 1 \subseteq p .. a
    BY <1>1
  <2> QED
    BY <1>1, <1>2, <2>1, <2>2 DEF NoNode
<1>6. \A p \in 1 .. a :
        p \notin NodesOf(f) =>
          IF NoNode(f, p, a + 1) THEN f.il[p].label \in hl \union {f.il[a].label}
          ELSE f.il[p].label \in DOMAIN lm /\ lm[f.il[p].label] = NextOf(f, p)
  BY <1>3, <1>4, <1>5 DEF Down
<1>7. \A l \in hl \union {f.il[a].label} :
        \E p \in 1 .. a : IsLabelAt(f, p, l) /\ NoNode(f, p, a + 1)
  <2>1. a \in 1 .. a /\ 1 .. a - 1 \subseteq 1 .. a
    BY <1>1
  <2>2. IsLabelAt(f, a, f.il[a].label)
    BY DEF IsLabelAt
  <2>3. \A l \in hl : \E p \in 1 .. a - 1 : IsLabelAt(f, p, l) /\ NoNode(f, p, a + 1)
    BY <1>5 DEF Down
  <2> QED
    BY <1>4, <2>1, <2>2, <2>3
<1> QED
  BY <1>2, <1>6, <1>7 DEF Down

LEMMA DownEnter ==
  ASSUME NEW f \in Functions, NEW a \in NodesOf(f), NEW hl, NEW lm, Down(f, a, hl, lm)
  PROVE  Down(f, a + 1, {}, [l \in hl \union DOMAIN lm |->
                                IF l \in hl THEN a ELSE lm[l]])
<1>1. a \in 1 .. Len(f.il) /\ Len(f.il) \in Nat
  BY Positions
<1>2. a + 1 \in 1 .. Len(f.il) + 1 /\ (a + 1) - 1 = a
  BY <1>1
<1> DEFINE new == [l \in hl \union DOMAIN lm |-> IF l \in hl THEN a ELSE lm[l]]
<1>3. /\ \A l \in hl : l \in DOMAIN new /\ new[l] = a
      /\ \A l \in DOMAIN lm : l \in DOMAIN new /\ (l \notin hl => new[l] = lm[l])
  OBVIOUS
<1> HIDE DEF new
<1>4. ASSUME NEW p \in 1 .. a, p \notin NodesOf(f)
      PROVE  /\ ~NoNode(f, p, a + 1)
             /\ f.il[p].label \in DOMAIN new /\ new[f.il[p].label] = NextOf(f, p)
  <2>1. p \in 1 .. a - 1 /\ p \in Nat /\ p < a /\ p \in 1 .. Len(f.il)
    BY <1>1, <1>4
  <2>2. a \in p .. a /\ ~NoNode(f, p, a + 1)
    BY <1>1, <1>2, <2>1 DEF NoNode
  <2>3. CASE NoNode(f, p, a)
    <3>1. f.il[p].label \in hl
      BY <1>4, <2>1, <2>3 DEF Down
    <3>2. \A j \in NodesOf(f) : p < j => a <= j
      <4> SUFFICES ASSUME NEW j \in NodesOf(f), p < j, ~(a <= j) PROVE FALSE
        OBVIOUS
      <4>1. j \in p .. a - 1
        BY <1>1, <2>1, Positions
      <4> QED
        BY <2>3, <4>1 DEF NoNode
    <3>3. NextOf(f, p) = a
      BY <2>1, <3>2, NextIs
    <3> QED
      BY <1>3, <2>2, <3>1, <3>3
  <2>4. CASE ~NoNode(f, p, a)
    <3>1. f.il[p].label \in DOMAIN lm /\ lm[f.il[p].label] = NextOf(f, p)
      BY <1>4, <2>1, <2>4 DEF Down
    <3>2. f.il[p].label \notin hl
      <4> SUFFICES ASSUME f.il[p].label \in hl PROVE FALSE
        OBVIOUS
      <4>1. PICK q \in 1 .. a - 1 : IsLabelAt(f, q, f.il[p].label) /\ NoNode(f, q, a)
        BY DEF Down
      <4>2. q \in 1 .. Len(f.il) /\ IsLabelInstr(f.il[p])
        BY <1>1, <1>4, <2>1, Positions
      <4>3. q = p
        BY <2>1, <4>1, <4>2, Positions
      <4> QED
        BY <2>4, <4>1, <4>3
    <3> QED
      BY <1>3, <2>2, <3>1, <3>2
  <2> QED
    BY <2>3, <2>4
<1>5. DOMAIN new \subseteq LabelsOf(f)
  <2>1. ASSUME NEW l \in hl PROVE l \in LabelsOf(f)
    <3>1. PICK p \in 1 .. a - 1 : IsLabelAt(f, p, l)
      BY DEF Down
    <3>2. p \in 1 .. Len(f.il)
      BY <1>1
    <3> QED
      BY <3>1, <3>2, LabelPlaces
  <2>2. DOMAIN new = hl \union DOMAIN lm
    BY DEF new
  <2> QED
    BY <2>1, <2>2 DEF Down
<1> QED
  BY <1>2, <1>4, <1>5 DEF Down, new

LEMMA DownBottom ==
  ASSUME NEW f \in Functions, NEW a, NEW hl, NEW lm, Down(f, a, hl, lm), a > Len(f.il)
  PROVE  a = Len(f.il) + 1 /\ LabelsKnown(f, lm) /\ DOMAIN lm \subseteq LabelsOf(f)
<1>1. Len(f.il) \in Nat /\ a = Len(f.il) + 1
  <2>1. Len(f.il) \in Nat
    BY Positions
  <2>2. a \in 1 .. Len(f.il) + 1
    BY DEF Down
  <2> QED
    BY <2>1, <2>2
<1>2. ASSUME NEW p \in 1 .. Len(f.il), p \notin NodesOf(f)
      PROVE  f.il[p].label \in DOMAIN lm /\ lm[f.il[p].label] = NextOf(f, p)
  <2>1. p \in 1 .. a - 1 /\ Len(f.il) \in p .. a - 1
    BY <1>1
  <2>2. ~NoNode(f, p, a)
    BY <2>1, LastNode DEF NoNode
  <2> QED
    BY <1>2, <2>1, <2>2 DEF Down
<1> QED
  BY <1>1, <1>2, Positions DEF LabelsKnown, Down
-------------------------------------------------------------------------------
(* The way up.  Prev is the node before a position, as Before has it.      *)
Prev(f, a) == Max({m \in NodesOf(f) : m < a} \union {0})

LEMMA PrevIs ==
  ASSUME NEW f \in Functions, NEW a \in Nat
  PROVE  /\ Prev(f, a) \in NodesOf(f) \union {0} /\ Prev(f, a) \in Nat
         /\ a # 0 => Prev(f, a) < a
         /\ \A m \in NodesOf(f) : m < a => m <= Prev(f, a)
         /\ a \in NodesOf(f) /\ Prev(f, a) # 0 =>
              Prev(f, a) < Len(f.il) /\ NextOf(f, Prev(f, a)) = a
         /\ a = Len(f.il) + 1 => Prev(f, a) = Len(f.il)
<1> DEFINE S == {m \in NodesOf(f) : m < a} \union {0}
           B == {k \in Nat : \A m \in S : m <= k}
<1>1. NodesOf(f) \subseteq 1 .. Len(f.il) /\ Len(f.il) \in Nat
  BY Positions
<1>2. S \subseteq Nat /\ 0 \in S /\ \A m \in S : m <= a
  BY <1>1
<1>3. B \subseteq Nat /\ a \in B
  BY <1>2
<1>4. PICK k \in B : \A y \in B : k <= y
  <2> HIDE DEF B
  <2> QED
    BY <1>3, LeastElement
<1>5. k \in S
  <2> SUFFICES ASSUME k \notin S PROVE FALSE
    OBVIOUS
  <2>1. k # 0 /\ k - 1 \in Nat /\ ~(k <= k - 1)
    BY <1>2, <1>3, <1>4
  <2>2. \A m \in S : m \in Nat /\ m <= k /\ m # k
    BY <1>2, <1>4
  <2>3. \A m \in S : m <= k - 1
    BY <1>3, <1>4, <2>1, <2>2
  <2> QED
    BY <1>4, <2>1, <2>3
<1>6. \A m \in S : m <= k
  BY <1>4
<1>7. \E x \in S : \A y \in S : x >= y
  BY <1>2, <1>5, <1>6
<1>8. Prev(f, a) = Max(S)
  BY DEF Prev
<1>9. Prev(f, a) \in S /\ \A y \in S : Prev(f, a) >= y
  BY <1>7, <1>8 DEF Max
<1> HIDE DEF B
<1>10. Prev(f, a) \in NodesOf(f) \union {0} /\ Prev(f, a) \in Nat /\ (a # 0 => Prev(f, a) < a)
  BY <1>2, <1>9
<1>11. \A m \in NodesOf(f) : m < a => m <= Prev(f, a)
  BY <1>1, <1>9, <1>10
<1>12. ASSUME a \in NodesOf(f), Prev(f, a) # 0
       PROVE  Prev(f, a) < Len(f.il) /\ NextOf(f, Prev(f, a)) = a
  <2>1. PICK p \in Nat : p = Prev(f, a)
    BY <1>10
  <2>2. p < a /\ p < Len(f.il)
    BY <1>1, <1>10, <1>12, <2>1
  <2>3. \A i \in NodesOf(f) : p < i => a <= i
    BY <1>1, <1>11, <2>1
  <2> QED
    BY <1>12, <2>1, <2>2, <2>3, NextIs
<1>13. ASSUME a = Len(f.il) + 1 PROVE Prev(f, a) = Len(f.il)
  <2>1. Len(f.il) <= Prev(f, a)
    BY <1>1, <1>11, <1>13, LastNode
  <2> QED
    BY <1>1, <1>10, <1>13, <2>1
<1> QED
  BY <1>10, <1>11, <1>12, <1>13

(* The node of every label of a jump is known by then, when it is one of f. *)
LEMMA JumpLabels ==
  ASSUME NEW f \in Functions, NEW lm, LabelsKnown(f, lm),
         NEW n \in NodesOf(f), f.il[n].jumps # <<>>
  PROVE  /\ n < Len(f.il) /\ NextOf(f, n) \in NodesOf(f) /\ NextOf(f, n) # 0
         /\ f.il[n].jumps \in Seq(Labels) /\ Len(f.il[n].jumps) \in {1, 2}
         /\ \A l \in ToSet(f.il[n].jumps) \intersect LabelsOf(f) :
              l \in DOMAIN lm /\ lm[l] \in NodesOf(f)
<1>1. PICK saved, entry, exit \in 1 .. Len(f.il) : Layout(f, saved, entry, exit)
  BY Positions
<1>2. n \in 1 .. Len(f.il) /\ Len(f.il) \in Nat /\ f.il[n].jumps \in Seq(Labels)
  BY Positions
<1>3. ~IsPlain(f.il[n])
  BY DEF IsPlain
<1>4. n < exit /\ exit < Len(f.il) /\ (IsJump(f.il[n]) \/ IsBranch(f.il[n]))
  BY <1>1, <1>3, Layouts DEF JumpFits, BranchFits
<1>5. n < Len(f.il)
  BY <1>2, <1>4
<1>6. NextOf(f, n) \in NodesOf(f) /\ NextOf(f, n) # 0
  BY <1>2, <1>5, Next1, Positions
<1>7. Len(f.il[n].jumps) \in {1, 2}
  BY <1>4 DEF IsJump, IsBranch
<1>8. ASSUME NEW l \in ToSet(f.il[n].jumps) \intersect LabelsOf(f)
      PROVE  l \in DOMAIN lm /\ lm[l] \in NodesOf(f)
  <2>1. PICK p \in 1 .. Len(f.il) : IsLabelAt(f, p, l)
    BY LabelPlaces
  <2>2. IsLabelInstr(f.il[p]) /\ f.il[p].label = l
    BY <2>1 DEF IsLabelAt
  <2>3. p \notin NodesOf(f) /\ l \in DOMAIN lm /\ lm[l] = NextOf(f, p)
    BY <2>2, Positions DEF LabelsKnown
  <2>4. p \in Nat /\ p < Len(f.il)
    <3>1. p # Len(f.il)
      BY <2>3, LastNode
    <3> QED
      BY <1>2, <3>1
  <2> QED
    BY <2>3, <2>4, Next1
<1> QED
  BY <1>2, <1>5, <1>6, <1>7, <1>8

(* What Targets makes is at most two nodes, those of EdgesOf.              *)
TargetsOf(f, lm, G, n) ==
  IF f.il[n].jumps # <<>>
  THEN [i \in DOMAIN f.il[n].jumps |-> Via(f, G, n, lm[f.il[n].jumps[i]])]
  ELSE IF NextOf(f, n) # 0 THEN <<NextOf(f, n)>> ELSE <<>>

LEMMA TargetsAre ==
  ASSUME NEW f \in Functions, NEW lm, LabelsKnown(f, lm), NEW G, NEW n \in NodesOf(f),
         Inside(f, n)
  PROVE  /\ TargetsOf(f, lm, G, n) \in Seq(NodesOf(f)) /\ Len(TargetsOf(f, lm, G, n)) <= 2
         /\ ToSet(TargetsOf(f, lm, G, n)) = EdgesOf(f, lm, G, n)
<1>1. CASE f.il[n].jumps # <<>>
  <2>0. PICK js : js = f.il[n].jumps
    OBVIOUS
  <2> DEFINE v(l) == Via(f, G, n, lm[l])
             ts == [i \in DOMAIN js |-> v(js[i])]
  <2>1. /\ js \in Seq(Labels) /\ Len(js) \in {1, 2} /\ NextOf(f, n) \in NodesOf(f)
        /\ \A l \in ToSet(js) : lm[l] \in NodesOf(f)
    BY <1>1, <2>0, JumpLabels DEF Inside
  <2>2. TargetsOf(f, lm, G, n) = ts /\ EdgesOf(f, lm, G, n) = {v(l) : l \in ToSet(js)}
    BY <1>1, <2>0 DEF TargetsOf, EdgesOf
  <2>3. \A l \in ToSet(js) : v(l) \in NodesOf(f)
    BY <2>1 DEF Via
  <2> HIDE DEF v
  <2>4. DOMAIN js = 1 .. Len(js) /\ Len(js) \in Nat /\ Len(js) <= 2
        /\ \A i \in DOMAIN js : js[i] \in ToSet(js)
    <3>1. DOMAIN js = 1 .. Len(js)
      BY <2>1
    <3>2. Len(js) \in Nat /\ Len(js) <= 2
      <4>1. PICK k : k = Len(js)
        OBVIOUS
      <4>2. k \in {1, 2}
        BY <2>1, <4>1
      <4>3. k \in Nat /\ k <= 2
        BY <4>2
      <4> QED
        BY <4>1, <4>3
    <3>3. \A i \in DOMAIN js : js[i] \in ToSet(js)
      BY DEF ToSet
    <3> QED
      BY <3>1, <3>2, <3>3
  <2>5. ts \in Seq(NodesOf(f)) /\ Len(ts) = Len(js)
    BY <2>3, <2>4
  <2>6. ToSet(ts) = {v(l) : l \in ToSet(js)}
    BY <2>4 DEF ToSet
  <2> HIDE DEF ts
  <2> QED
    BY <2>2, <2>4, <2>5, <2>6
<1>2. CASE f.il[n].jumps = <<>>
  <2>1. EdgesOf(f, lm, G, n) = {NextOf(f, n)} \ {0}
    BY <1>2 DEF EdgesOf
  <2>2. CASE NextOf(f, n) # 0
    <3>1. TargetsOf(f, lm, G, n) = <<NextOf(f, n)>>
      BY <1>2, <2>2 DEF TargetsOf
    <3>2. NextOf(f, n) \in NodesOf(f)
      <4>1. n # Len(f.il)
        BY <2>2, NoNext
      <4>2. n \in Nat /\ n < Len(f.il)
        BY <4>1, Positions
      <4> QED
        BY <4>2, Next1
    <3>3. ToSet(<<NextOf(f, n)>>) = {NextOf(f, n)}
      BY DEF ToSet
    <3> QED
      BY <2>1, <2>2, <3>1, <3>2, <3>3
  <2>3. CASE NextOf(f, n) = 0
    <3>1. TargetsOf(f, lm, G, n) = <<>> /\ ToSet(<<>>) = {}
      BY <1>2, <2>3 DEF TargetsOf, ToSet
    <3> QED
      BY <2>1, <2>3, <3>1
  <2> QED
    BY <2>2, <2>3
<1> QED
  BY <1>1, <1>2
(* The way up: behind a position the edges are recorded, both ways.        *)
Graph(f, su) == [m \in NodesOf(f) |-> ToSet(su[m])]

Increasing(list) == \A i, j \in DOMAIN list : i < j => list[i] < list[j]

Up(f, a, su, pr, lm) ==
  /\ LabelsKnown(f, lm) /\ DOMAIN lm \subseteq LabelsOf(f)
  /\ a \in NodesOf(f) \union {0}
  /\ su \in [NodesOf(f) -> Seq(NodesOf(f))] /\ pr \in [NodesOf(f) -> Seq(NodesOf(f))]
  /\ \A n \in NodesOf(f) :
       n > a => Inside(f, n) /\ ToSet(su[n]) = EdgesOf(f, lm, Graph(f, su), n)
  /\ \A n \in NodesOf(f) : /\ ToSet(pr[n]) = {m \in NodesOf(f) : m > a /\ n \in ToSet(su[m])}
                           /\ Increasing(pr[n])

LEMMA UpBottom ==
  ASSUME NEW f \in Functions, NEW lm, LabelsKnown(f, lm), DOMAIN lm \subseteq LabelsOf(f)
  PROVE  Up(f, Prev(f, Len(f.il) + 1), [n \in NodesOf(f) |-> <<>>], [n \in NodesOf(f) |-> <<>>], lm)
<1>1. PICK su : su = [n \in NodesOf(f) |-> <<>>]
  OBVIOUS
<1>2. Prev(f, Len(f.il) + 1) = Len(f.il) /\ Len(f.il) \in NodesOf(f)
  <2>1. PICK a : a = Len(f.il) + 1
    OBVIOUS
  <2>2. a \in Nat
    BY <2>1, Positions
  <2>3. Prev(f, a) = Len(f.il)
    BY <2>1, <2>2, PrevIs
  <2> QED
    BY <2>1, <2>3, LastNode
<1>3. /\ su \in [NodesOf(f) -> Seq(NodesOf(f))]
      /\ \A n \in NodesOf(f) : su[n] = <<>> /\ ~(n > Len(f.il))
  BY <1>1, Positions
<1>4. ToSet(<<>>) = {} /\ Increasing(<<>>)
  BY DEF ToSet, Increasing
<1>5. Up(f, Len(f.il), su, su, lm)
  BY <1>2, <1>3, <1>4 DEF Up
<1> QED
  BY <1>1, <1>2, <1>5

LEMMA PutInFront ==
  ASSUME NEW S \in SUBSET Nat, NEW a \in S, NEW list \in Seq(S), Increasing(list),
         \A m \in ToSet(list) : a < m
  PROVE  /\ <<a>> \o list \in Seq(S) /\ Increasing(<<a>> \o list)
         /\ ToSet(<<a>> \o list) = ToSet(list) \union {a}
<1> DEFINE new == <<a>> \o list
<1>1. new \in Seq(S) /\ Len(new) = Len(list) + 1
  OBVIOUS
<1>2. new[1] = a /\ \A i \in 1 .. Len(list) : new[i + 1] = list[i]
  OBVIOUS
<1>3. DOMAIN new = 1 .. Len(list) + 1 /\ DOMAIN list = 1 .. Len(list) /\ Len(list) \in Nat
  BY <1>1
<1> HIDE DEF new
<1>4. \A i \in DOMAIN new : i = 1 \/ (i > 1 /\ i - 1 \in DOMAIN list /\ new[i] = list[i - 1])
  <2> TAKE i \in DOMAIN new
  <2>1. CASE i # 1
    <3>1. i - 1 \in 1 .. Len(list) /\ (i - 1) + 1 = i /\ i > 1
      BY <1>3, <2>1
    <3> QED
      BY <1>2, <1>3, <3>1
  <2> QED
    BY <2>1
<1>5. \A i \in DOMAIN list : i + 1 \in DOMAIN new /\ new[i + 1] = list[i]
  BY <1>2, <1>3
<1>6. \A i \in DOMAIN list : list[i] \in ToSet(list)
  BY DEF ToSet
<1>7. ToSet(new) \subseteq ToSet(list) \union {a}
  <2> SUFFICES ASSUME NEW i \in DOMAIN new PROVE new[i] \in ToSet(list) \union {a}
    BY DEF ToSet
  <2> QED
    BY <1>2, <1>4, <1>6
<1>8. ToSet(list) \union {a} \subseteq ToSet(new)
  <2>1. 1 \in DOMAIN new
    BY <1>3
  <2> QED
    BY <1>2, <1>5, <2>1 DEF ToSet
<1>9. Increasing(new)
  <2> SUFFICES ASSUME NEW i \in DOMAIN new, NEW j \in DOMAIN new, i < j
               PROVE  new[i] < new[j]
    BY DEF Increasing
  <2>1. i \in Nat /\ j \in Nat /\ 1 <= i /\ j # 1
    BY <1>3
  <2>2. j - 1 \in DOMAIN list /\ new[j] = list[j - 1]
    BY <1>4, <2>1
  <2>3. CASE i = 1
    BY <1>2, <1>6, <2>2, <2>3
  <2>4. CASE i # 1
    <3>1. i - 1 \in DOMAIN list /\ new[i] = list[i - 1]
      BY <1>4, <2>4
    <3>2. i - 1 < j - 1
      BY <2>1
    <3> QED
      BY <2>2, <3>1, <3>2 DEF Increasing
  <2> QED
    BY <2>3, <2>4
<1> QED
  BY <1>1, <1>7, <1>8, <1>9 DEF new

LEMMA UpLeave ==
  ASSUME NEW f \in Functions, NEW a, NEW su, NEW pr, NEW lm, Up(f, a, su, pr, lm), a # 0, Inside(f, a),
         NEW ts, ts = TargetsOf(f, lm, Graph(f, su), a)
  PROVE  Up(f, Prev(f, a),
            [su EXCEPT ![a] = FoldLeft(AddTarget, <<>>, ts)],
            [n \in NodesOf(f) |-> IF n \in ToSet(ts) THEN <<a>> \o pr[n] ELSE pr[n]], lm)
<1> DEFINE N == NodesOf(f)
           b == Prev(f, a)
           G == Graph(f, su)
<1>1. /\ LabelsKnown(f, lm) /\ a \in N /\ N \subseteq Nat
      /\ su \in [N -> Seq(N)] /\ pr \in [N -> Seq(N)]
  BY Positions DEF Up
<1>2. /\ b \in N \union {0} /\ b \in Nat /\ b < a
      /\ \A m \in N : m > b => m >= a
  <2>1. a \in Nat /\ b \in N \union {0} /\ b \in Nat /\ b < a /\ \A m \in N : m < a => m <= b
    BY <1>1, PrevIs
  <2> QED
    BY <1>1, <2>1
<1>3. /\ ts \in Seq(N) /\ ToSet(ts) = EdgesOf(f, lm, G, a)
      /\ FoldLeft(AddTarget, <<>>, ts) \in Seq(N) /\ ToSet(FoldLeft(AddTarget, <<>>, ts)) = ToSet(ts)
  <2>1. ts \in Seq(N) /\ Len(ts) <= 2 /\ ToSet(ts) = EdgesOf(f, lm, G, a)
    BY <1>1, TargetsAre
  <2> QED
    BY <2>1, TargetsAdded
<1>4. PICK list : list = FoldLeft(AddTarget, <<>>, ts)
  OBVIOUS
<1>5. PICK sn : sn = [su EXCEPT ![a] = list]
  OBVIOUS
<1>6. PICK pn : pn = [n \in N |-> IF n \in ToSet(ts) THEN <<a>> \o pr[n] ELSE pr[n]]
  OBVIOUS
<1>7. /\ sn \in [N -> Seq(N)] /\ sn[a] = list /\ \A n \in N : n # a => sn[n] = su[n]
  BY <1>1, <1>3, <1>4, <1>5
<1>8. \A n \in N : n >= a => NextOf(f, n) # a
  <2> TAKE n \in N
  <2>1. CASE n = Len(f.il)
    BY <1>1, <2>1, NoNext
  <2>2. CASE n # Len(f.il)
    <3>1. n \in Nat /\ n < Len(f.il)
      BY <2>2, Positions
    <3> QED
      BY <1>1, <3>1, Next1
  <2> QED
    BY <2>1, <2>2
<1>9. \A n \in N : n >= a => EdgesOf(f, lm, Graph(f, sn), n) = EdgesOf(f, lm, G, n)
  <2> SUFFICES ASSUME NEW n \in N, n >= a
               PROVE  EdgesOf(f, lm, Graph(f, sn), n) = EdgesOf(f, lm, G, n)
    OBVIOUS
  <2>1. CASE f.il[n].jumps # <<>>
    <3>1. NextOf(f, n) \in N /\ NextOf(f, n) # a
      BY <1>1, <1>8, <2>1, JumpLabels
    <3>2. Graph(f, sn)[NextOf(f, n)] = G[NextOf(f, n)]
      BY <1>7, <3>1 DEF Graph
    <3>3. \A k : Via(f, Graph(f, sn), n, k) = Via(f, G, n, k)
      BY <3>2 DEF Via
    <3> QED
      BY <2>1, <3>3 DEF EdgesOf
  <2>2. CASE f.il[n].jumps = <<>>
    BY <2>2 DEF EdgesOf
  <2> QED
    BY <2>1, <2>2
<1>10. \A n \in N : n > b => Inside(f, n) /\ ToSet(sn[n]) = EdgesOf(f, lm, Graph(f, sn), n)
  <2> SUFFICES ASSUME NEW n \in N, n > b
               PROVE  Inside(f, n) /\ ToSet(sn[n]) = EdgesOf(f, lm, Graph(f, sn), n)
    OBVIOUS
  <2>1. n >= a
    BY <1>2
  <2>2. Inside(f, n) /\ ToSet(sn[n]) = EdgesOf(f, lm, G, n)
    <3>1. CASE n = a
      BY <1>3, <1>4, <1>7, <3>1
    <3>2. CASE n # a
      <4>1. n > a
        BY <1>1, <2>1, <3>2
      <4> QED
        BY <1>7, <3>2, <4>1 DEF Up
    <3> QED
      BY <3>1, <3>2
  <2> QED
    BY <1>9, <2>1, <2>2
<1>11. ASSUME NEW n \in N
       PROVE  /\ pn[n] \in Seq(N) /\ Increasing(pn[n])
              /\ ToSet(pn[n]) = {m \in N : m > b /\ n \in ToSet(sn[m])}
  <2>1. /\ ToSet(pr[n]) = {m \in N : m > a /\ n \in ToSet(su[m])} /\ Increasing(pr[n])
        /\ pr[n] \in Seq(N)
    BY <1>1 DEF Up
  <2>2. \A m \in N : m > b <=> (m = a \/ m > a)
    BY <1>1, <1>2
  <2>3. \A m \in N : m > a => sn[m] = su[m]
    BY <1>1, <1>7
  <2>4. ToSet(sn[a]) = ToSet(ts)
    BY <1>3, <1>4, <1>7
  <2>5. {m \in N : m > b /\ n \in ToSet(sn[m])} =
          ToSet(pr[n]) \union (IF n \in ToSet(ts) THEN {a} ELSE {})
    BY <1>1, <2>1, <2>2, <2>3, <2>4
  <2>6. CASE n \in ToSet(ts)
    <3>1. pn[n] = <<a>> \o pr[n]
      BY <1>6, <2>6
    <3>2. PICK l : l = pr[n]
      OBVIOUS
    <3>3. l \in Seq(N) /\ Increasing(l) /\ \A m \in ToSet(l) : a < m
      BY <1>1, <2>1, <3>2
    <3>4. /\ <<a>> \o l \in Seq(N) /\ Increasing(<<a>> \o l)
          /\ ToSet(<<a>> \o l) = ToSet(l) \union {a}
      BY <1>1, <3>3, PutInFront
    <3> QED
      BY <2>5, <2>6, <3>1, <3>2, <3>4
  <2>7. CASE n \notin ToSet(ts)
    BY <1>6, <2>1, <2>5, <2>7
  <2> QED
    BY <2>6, <2>7
<1>12. pn \in [N -> Seq(N)]
  <2>1. \A n \in N : pn[n] \in Seq(N)
    BY <1>11
  <2> QED
    BY <1>6, <2>1
<1>13. Up(f, b, sn, pn, lm)
  BY <1>1, <1>2, <1>7, <1>10, <1>11, <1>12 DEF Up
<1> QED
  BY <1>4, <1>5, <1>6, <1>13

LEMMA UpDone ==
  ASSUME NEW f \in Functions, NEW su, NEW pr, NEW lm, Up(f, 0, su, pr, lm)
  PROVE  /\ RecordedBy(f, lm, Graph(f, su))
         /\ \A n \in NodesOf(f) : /\ Graph(f, su)[n] = ToSet(su[n])
                                  /\ ToSet(pr[n]) = {m \in NodesOf(f) : n \in Graph(f, su)[m]}
<1>1. \A n \in NodesOf(f) : n > 0
  BY Positions
<1>2. \A n \in NodesOf(f) : Graph(f, su)[n] = ToSet(su[n])
  BY DEF Graph
<1> QED
  BY <1>1, <1>2 DEF Up, RecordedBy
-------------------------------------------------------------------------------
(* The walk back from n goes to the node before it, and ends where a block *)
(* begins.                                                                 *)
Starts(f, pr, n) == pr[n] # <<>> => Head(pr[n]) \in f.lastInstr

LEMMA Backwards ==
  ASSUME NEW f \in Functions, NEW su, NEW pr, NEW lm, Up(f, 0, su, pr, lm),
         NEW n \in NodesOf(f), NEW b, b = Prev(f, n)
  PROVE  /\ Starts(f, pr, n) => b = 0 \/ b \in f.lastInstr
         /\ ~Starts(f, pr, n) =>
              /\ b \in NodesOf(f) /\ b \notin f.lastInstr /\ Head(pr[n]) = b
              /\ Graph(f, su)[b] = {n}
              /\ Len(pr[n]) # 1 => \A j \in 1 .. b : j \in NodesOf(f)
<1> DEFINE G == Graph(f, su)
<1>1. /\ RecordedBy(f, lm, G)
      /\ ToSet(pr[n]) = {m \in NodesOf(f) : n \in G[m]}
  BY UpDone
<1>2. PICK list : list = pr[n]
  OBVIOUS
<1>3. list \in Seq(NodesOf(f)) /\ Increasing(list) /\ ToSet(list) = {m \in NodesOf(f) : n \in G[m]}
  BY <1>1, <1>2 DEF Up
<1>4. /\ Len(list) \in Nat /\ DOMAIN list = 1 .. Len(list) /\ NodesOf(f) \subseteq Nat
      /\ \A i \in DOMAIN list : list[i] \in NodesOf(f) /\ list[i] \in ToSet(list)
  <2>1. Len(list) \in Nat /\ DOMAIN list = 1 .. Len(list) /\ \A i \in DOMAIN list : list[i] \in NodesOf(f)
    BY <1>3
  <2>2. \A i \in DOMAIN list : list[i] \in ToSet(list)
    BY DEF ToSet
  <2> QED
    BY <2>1, <2>2, Positions
<1>5. list # <<>> => 1 \in DOMAIN list /\ Head(list) = list[1]
  BY <1>3
<1> HIDE DEF G
<1>6. /\ b \in NodesOf(f) \union {0} /\ b \in Nat /\ b < n /\ n \in Nat
      /\ \A m \in NodesOf(f) : m < n => m <= b
      /\ b # 0 => b < Len(f.il) /\ NextOf(f, b) = n
  <2>1. n \in Nat /\ n # 0
    BY Positions
  <2> QED
    BY <2>1, PrevIs
<1>7. CASE b = 0
  <2>1. 1 \in NodesOf(f)
    BY <1>1, FirstHasNone
  <2>2. n = 1
    <3>1. ~(1 < n)
      BY <1>6, <1>7, <2>1
    <3> QED
      BY <1>6, <1>7, <3>1
  <2>3. ToSet(list) = {}
    BY <1>1, <1>3, <2>2, FirstHasNone
  <2>4. list = <<>>
    BY <1>4, <1>5, <2>3
  <2> QED
    BY <1>2, <1>7, <2>4 DEF Starts
<1>8. CASE b # 0
  <2>1. /\ b \in NodesOf(f)
        /\ b \in f.lastInstr => \A m \in NodesOf(f) : n \in G[m] => m \in f.lastInstr
        /\ b \notin f.lastInstr =>
              /\ G[b] = {n}
              /\ \A m \in NodesOf(f) : n \in G[m] => b <= m
              /\ \/ \A j \in 1 .. b : j \in NodesOf(f)
                 \/ \A m \in NodesOf(f) : n \in G[m] => m = b
    BY <1>1, <1>6, <1>8, PredsOf
  <2>2. CASE b \in f.lastInstr
    <3>1. list # <<>> => Head(list) \in f.lastInstr
      BY <1>3, <1>4, <1>5, <2>1, <2>2
    <3> QED
      BY <1>2, <2>2, <3>1 DEF Starts
  <2>3. CASE b \notin f.lastInstr
    <3>1. b \in ToSet(list) /\ \A m \in ToSet(list) : m \in NodesOf(f) /\ b <= m
      BY <1>3, <2>1, <2>3
    <3>2. PICK i \in DOMAIN list : list[i] = b
      BY <3>1 DEF ToSet
    <3>3. i = 1
      <4> SUFFICES ASSUME i # 1 PROVE FALSE
        OBVIOUS
      <4>1. 1 \in DOMAIN list /\ 1 < i
        BY <1>4, <3>2
      <4>2. list[1] < list[i]
        BY <1>3, <3>2, <4>1 DEF Increasing
      <4>3. b <= list[1] /\ list[1] \in Nat
        BY <1>4, <3>1, <4>1
      <4> QED
        BY <1>6, <3>2, <4>2, <4>3
    <3>4. list # <<>> /\ Head(list) = b
      BY <1>3, <1>5, <3>2, <3>3
    <3>5. ASSUME Len(list) # 1, NEW j \in 1 .. b, j \notin NodesOf(f) PROVE FALSE
      <4>1. \A m \in NodesOf(f) : n \in G[m] => m = b
        BY <2>1, <2>3, <3>5
      <4>2. 2 \in DOMAIN list /\ 1 \in DOMAIN list
        BY <1>4, <3>2, <3>5
      <4>3. list[2] = b
        BY <1>3, <1>4, <4>1, <4>2
      <4>4. list[1] < list[2]
        BY <1>3, <4>2 DEF Increasing
      <4> QED
        BY <1>6, <3>2, <3>3, <4>3, <4>4
    <3>6. ~Starts(f, pr, n)
      BY <1>2, <2>3, <3>4 DEF Starts
    <3> QED
      BY <1>2, <2>1, <2>3, <3>4, <3>5, <3>6 DEF G
  <2> QED
    BY <2>2, <2>3
<1> QED
  BY <1>7, <1>8
-------------------------------------------------------------------------------
(* What is live behind each node, and the walks: the blocks whose ends are *)
(* not among ends any more have been walked, but for what is not behind c  *)
(* in the block of c.                                                      *)
Behind(f, G) ==
  UNION {{<<n, t>> : n \in {m \in NodesOf(f) : G[m] \intersect Live(f, t, G) # {}}} :
           t \in Temps}

LiveAfter(f, G, n) == {t \in Temps : <<n, t>> \in Behind(f, G)}

IsMoveOf(f, n) == f.il[n].kind = "MOVE"

Held(f, l, n) == (IF IsMoveOf(f, n) THEN l \ f.il[n].src ELSE l) \union f.il[n].dst

EdgesAt(f, l, n) ==
  {{x, d} : x \in Held(f, l, n), d \in f.il[n].dst} \ {{d} : d \in f.il[n].dst}

Walked(f, ends, c) ==
  {n \in NodesOf(f) :
     \E b \in f.lastInstr \ ends : n <= b /\ (c = 0 \/ c < n \/ b < c)}

Walk(f, G, ends, c, l, adj, moves) ==
  /\ ends \subseteq f.lastInstr
  /\ \A a \in f.lastInstr \ ends, b \in ends : a < b
  /\ c \in NodesOf(f) \union {0}
  /\ c # 0 => l = LiveAfter(f, G, c) /\ \E b \in f.lastInstr \ ends : c <= b
  /\ adj = UNION {EdgesAt(f, LiveAfter(f, G, n), n) : n \in Walked(f, ends, c)}
  /\ moves = {n \in Walked(f, ends, c) : IsMoveOf(f, n)}

LEMMA BehindIs ==
  ASSUME NEW f, NEW G, NEW n \in NodesOf(f), NEW t \in Temps
  PROVE  <<n, t>> \in Behind(f, G) <=> G[n] \intersect Live(f, t, G) # {}
<1> DEFINE P(k, u) == k \in NodesOf(f) /\ G[k] \intersect Live(f, u, G) # {}
           Q(u) == {<<k, u>> : k \in {m \in NodesOf(f) : P(m, u)}}
<1>1. Behind(f, G) = UNION {Q(u) : u \in Temps}
  BY DEF Behind
<1> HIDE DEF P
<1>2. P(n, t) => <<n, t>> \in Q(t)
  OBVIOUS
<1>3. \A u \in Temps : <<n, t>> \in Q(u) => P(n, t)
  OBVIOUS
<1> HIDE DEF Q
<1>4. <<n, t>> \in Behind(f, G) <=> P(n, t)
  BY <1>1, <1>2, <1>3
<1> QED
  BY <1>4 DEF P
(* A block is begun at its end, the least of those left.                   *)
LEMMA WalkBegin ==
  ASSUME NEW f \in Functions, NEW G, NEW ends, NEW l, NEW adj, NEW moves,
         Walk(f, G, ends, 0, l, adj, moves), ends # {}
  PROVE  /\ Min(ends) \in NodesOf(f)
         /\ Walk(f, G, ends \ {Min(ends)}, Min(ends), LiveAfter(f, G, Min(ends)), adj, moves)
<1>1. PICK saved, entry, exit \in 1 .. Len(f.il) : Layout(f, saved, entry, exit)
  BY Positions
<1>2. ends \subseteq f.lastInstr /\ f.lastInstr \subseteq NodesOf(f) /\ NodesOf(f) \subseteq Nat
      /\ 0 \notin NodesOf(f)
  BY <1>1, Ends, Positions DEF Walk
<1>3. \E x \in ends : \A y \in ends : x <= y
  BY <1>2, LeastElement
<1>4. PICK c : c = Min(ends)
  OBVIOUS
<1>5. c \in ends /\ \A y \in ends : c <= y
  BY <1>3, <1>4 DEF Min
<1>6. c \in NodesOf(f) /\ c \in Nat /\ c \in f.lastInstr
  BY <1>2, <1>5
<1> DEFINE old == f.lastInstr \ ends
           new == f.lastInstr \ (ends \ {c})
<1>7. new = old \union {c} /\ \A a \in old, b \in ends : a < b
  BY <1>5, <1>6 DEF Walk
<1>8. \A a \in old : a < c /\ a \in Nat
  BY <1>2, <1>5, <1>7
<1> HIDE DEF old, new
<1>9. ASSUME NEW n \in NodesOf(f)
      PROVE  (\E b \in new : n <= b /\ (c < n \/ b < c)) <=> (\E b \in old : n <= b)
  <2>1. n \in Nat
    BY <1>2
  <2>2. ASSUME NEW b \in new, n <= b, c < n \/ b < c PROVE b \in old
    BY <1>2, <1>6, <1>7, <1>8, <2>1, <2>2
  <2> QED
    BY <1>7, <1>8, <2>2
<1>10. Walked(f, ends \ {c}, c) = Walked(f, ends, 0)
  BY <1>2, <1>6, <1>9 DEF Walked, old, new
<1>11. \A a \in new, b \in ends \ {c} : a < b
  BY <1>2, <1>5, <1>6, <1>7, <1>8
<1>12. c \in new /\ c <= c
  BY <1>6, <1>7
<1>13. Walk(f, G, ends \ {c}, c, LiveAfter(f, G, c), adj, moves)
  <2>1. /\ adj = UNION {EdgesAt(f, LiveAfter(f, G, n), n) : n \in Walked(f, ends \ {c}, c)}
        /\ moves = {n \in Walked(f, ends \ {c}, c) : IsMoveOf(f, n)}
    BY <1>10 DEF Walk
  <2> QED
    BY <1>2, <1>6, <1>11, <1>12, <2>1 DEF Walk, new
<1> QED
  BY <1>4, <1>6, <1>13

(* An instruction has been walked when the walk goes on to the node before *)
(* it, which ends no block, or ends because that does, or there is none.   *)
LEMMA WalkedOn ==
  ASSUME NEW f \in Functions, NEW ends, ends \subseteq f.lastInstr,
         \A a \in f.lastInstr \ ends, b \in ends : a < b,
         NEW c \in NodesOf(f), \E b \in f.lastInstr \ ends : c <= b,
         NEW p, p = Prev(f, c), NEW to,
         \/ to = p /\ p \in NodesOf(f) /\ p \notin f.lastInstr
         \/ to = 0 /\ (p = 0 \/ p \in f.lastInstr)
  PROVE  /\ Walked(f, ends, to) = Walked(f, ends, c) \union {c}
         /\ to # 0 => \E b \in f.lastInstr \ ends : to <= b
<1>1. PICK saved, entry, exit \in 1 .. Len(f.il) : Layout(f, saved, entry, exit)
  BY Positions
<1>2. f.lastInstr \subseteq NodesOf(f) /\ NodesOf(f) \subseteq Nat /\ 0 \notin NodesOf(f)
  BY <1>1, Ends, Positions, SMTT(30)
<1>3. c \in Nat /\ p \in Nat /\ p < c /\ \A m \in NodesOf(f) : m < c => m <= p
  <2>1. c \in Nat /\ c # 0
    BY <1>2
  <2> QED
    BY <2>1, PrevIs
<1>4. PICK e \in f.lastInstr \ ends : c <= e
  OBVIOUS
<1> DEFINE old == f.lastInstr \ ends
<1>5. old \subseteq NodesOf(f) /\ e \in old /\ e \in Nat
  BY <1>2, <1>4
<1>6. ASSUME NEW n \in NodesOf(f), n # c
      PROVE  (\E b \in old : n <= b /\ (to = 0 \/ to < n \/ b < to))
               <=> \E b \in old : n <= b /\ (c < n \/ b < c)
  <2>1. n \in Nat
    BY <1>2
  <2>2. CASE to = p /\ p \in NodesOf(f) /\ p \notin f.lastInstr
    <3>1. p < n <=> c < n
      BY <1>3, <1>6, <2>1
    <3>2. \A b \in old : b < p <=> b < c
      <4> TAKE b \in old
      <4>1. b \in Nat /\ b \in NodesOf(f) /\ b # p
        BY <1>2, <1>5, <2>2
      <4> QED
        BY <1>3, <4>1
    <3>3. to # 0
      BY <1>2, <2>2
    <3> QED
      BY <2>2, <3>1, <3>2, <3>3
  <2>3. CASE to = 0 /\ (p = 0 \/ p \in f.lastInstr)
    <3>1. ASSUME NEW b \in old, n <= b PROVE \E a \in old : n <= a /\ (c < n \/ a < c)
      <4>1. CASE c < n
        BY <3>1, <4>1
      <4>2. CASE ~(c < n)
        <5>1. n < c
          BY <1>3, <1>6, <2>1, <4>2
        <5>2. n <= p /\ n # 0
          BY <1>2, <1>3, <5>1
        <5>3. p \in f.lastInstr
          BY <1>3, <2>1, <2>3, <5>2
        <5>4. p \notin ends
          BY <1>3, <1>4, <1>5
        <5> QED
          BY <1>3, <5>2, <5>3, <5>4
      <4> QED
        BY <4>1, <4>2
    <3> QED
      BY <2>3, <3>1
  <2> QED
    BY <2>2, <2>3
<1>7. \E b \in old : c <= b /\ (to = 0 \/ to < c \/ b < to)
  BY <1>3, <1>4
<1>8. c # 0
  BY <1>2
<1> HIDE DEF old
<1>9. Walked(f, ends, to) = Walked(f, ends, c) \union {c}
  BY <1>6, <1>7, <1>8 DEF Walked, old
<1>10. to # 0 => \E b \in f.lastInstr \ ends : to <= b
  BY <1>3, <1>4, <1>5
<1> QED
  BY <1>9, <1>10

(* Live before c is what is live behind the only node before c.            *)
LEMMA LiveBack ==
  ASSUME NEW f \in Functions, NEW G, NEW c \in NodesOf(f), NEW p \in NodesOf(f), G[p] = {c}
  PROVE  f.il[c].src \union (Held(f, LiveAfter(f, G, c), c) \ f.il[c].dst) = LiveAfter(f, G, p)
<1>1. f.il[c].src \subseteq Temps /\ f.il[c].dst \subseteq Temps
  BY Positions
<1>2. ASSUME NEW t \in Temps
      PROVE  t \in LiveAfter(f, G, p)
               <=> \/ t \in f.il[c].src
                   \/ t \notin f.il[c].dst /\ t \in LiveAfter(f, G, c)
  <2>1. t \in LiveAfter(f, G, p) <=> c \in Live(f, t, G)
    BY BehindIs DEF LiveAfter
  <2>2. t \in LiveAfter(f, G, c) <=> G[c] \intersect Live(f, t, G) # {}
    BY BehindIs DEF LiveAfter
  <2> QED
    BY <2>1, <2>2, LiveEquations
<1>3. \A t \in f.il[c].src \union (Held(f, LiveAfter(f, G, c), c) \ f.il[c].dst) :
        /\ t \in Temps
        /\ t \in f.il[c].src \/ (t \notin f.il[c].dst /\ t \in LiveAfter(f, G, c))
  BY <1>1 DEF Held, LiveAfter
<1>4. \A t \in LiveAfter(f, G, p) : t \in Temps
  BY DEF LiveAfter
<1>5. \A t \in Temps :
        \/ t \in f.il[c].src
        \/ t \notin f.il[c].dst /\ t \in LiveAfter(f, G, c)
        => t \in f.il[c].src \union (Held(f, LiveAfter(f, G, c), c) \ f.il[c].dst)
  BY DEF Held
<1> QED
  BY <1>2, <1>3, <1>4, <1>5

LEMMA WalkStep ==
  ASSUME NEW f \in Functions, NEW su, NEW pr, NEW lm, Up(f, 0, su, pr, lm),
         NEW G, G = Graph(f, su), NEW ends, NEW c, NEW l, NEW adj, NEW moves,
         Walk(f, G, ends, c, l, adj, moves), c # 0, NEW to, NEW m,
         \/ Starts(f, pr, c) /\ to = 0
         \/ ~Starts(f, pr, c) /\ to = Head(pr[c])
            /\ m = f.il[c].src \union (Held(f, l, c) \ f.il[c].dst)
  PROVE  Walk(f, G, ends, to, m, adj \union EdgesAt(f, l, c),
              moves \union (IF IsMoveOf(f, c) THEN {c} ELSE {}))
<1>1. PICK p : p = Prev(f, c)
  OBVIOUS
<1>2. /\ ends \subseteq f.lastInstr
      /\ \A a \in f.lastInstr \ ends, b \in ends : a < b
      /\ c \in NodesOf(f) /\ l = LiveAfter(f, G, c) /\ \E b \in f.lastInstr \ ends : c <= b
      /\ adj = UNION {EdgesAt(f, LiveAfter(f, G, n), n) : n \in Walked(f, ends, c)}
      /\ moves = {n \in Walked(f, ends, c) : IsMoveOf(f, n)}
  BY DEF Walk
<1>3. /\ Starts(f, pr, c) => p = 0 \/ p \in f.lastInstr
      /\ ~Starts(f, pr, c) => /\ p \in NodesOf(f) /\ p \notin f.lastInstr /\ Head(pr[c]) = p
                              /\ G[p] = {c}
  BY <1>1, <1>2, Backwards
<1>4. \/ to = p /\ p \in NodesOf(f) /\ p \notin f.lastInstr
      \/ to = 0 /\ (p = 0 \/ p \in f.lastInstr)
  BY <1>3
<1>5. /\ Walked(f, ends, to) = Walked(f, ends, c) \union {c}
      /\ to # 0 => \E b \in f.lastInstr \ ends : to <= b
  BY <1>1, <1>2, <1>4, WalkedOn
<1>6. to # 0 => m = LiveAfter(f, G, to)
  <2> SUFFICES ASSUME to # 0 PROVE m = LiveAfter(f, G, to)
    OBVIOUS
  <2>1. to = p /\ p \in NodesOf(f) /\ G[p] = {c}
        /\ m = f.il[c].src \union (Held(f, LiveAfter(f, G, c), c) \ f.il[c].dst)
    BY <1>2, <1>3
  <2> QED
    BY <1>2, <2>1, LiveBack
<1>7. adj \union EdgesAt(f, l, c) =
        UNION {EdgesAt(f, LiveAfter(f, G, n), n) : n \in Walked(f, ends, to)}
  BY <1>2, <1>5
<1>8. moves \union (IF IsMoveOf(f, c) THEN {c} ELSE {}) = {n \in Walked(f, ends, to) : IsMoveOf(f, n)}
  BY <1>2, <1>5
<1> QED
  BY <1>2, <1>4, <1>5, <1>6, <1>7, <1>8 DEF Walk

(* With every end taken, every node has been walked.                       *)
LEMMA WalkFull ==
  ASSUME NEW f \in Functions, NEW G, NEW l, NEW adj, NEW moves, Walk(f, G, {}, 0, l, adj, moves)
  PROVE  /\ adj = UNION {EdgesAt(f, LiveAfter(f, G, n), n) : n \in NodesOf(f)}
         /\ moves = {n \in NodesOf(f) : IsMoveOf(f, n)}
<1>1. PICK saved, entry, exit \in 1 .. Len(f.il) : Layout(f, saved, entry, exit)
  BY Positions
<1>2. Len(f.il) \in f.lastInstr \ {} /\ \A n \in NodesOf(f) : n <= Len(f.il)
  <2>1. Len(f.il) \in f.lastInstr
    BY <1>1, Ends
  <2>2. \A n \in NodesOf(f) : n <= Len(f.il)
    BY Positions
  <2> QED
    BY <2>1, <2>2
<1>3. Walked(f, {}, 0) = NodesOf(f)
  BY <1>2 DEF Walked
<1> QED
  BY <1>3 DEF Walk
-------------------------------------------------------------------------------
(* What the recursion has done so far.                                     *)
FGInv ==
  /\ function \in Functions
  /\ fgPhase \in {"down", "up", "done", "aborted"}
  /\ fgPhase = "down" =>
       /\ Down(function, at, headLabels, label_map)
       /\ succs = [n \in NodesOf(function) |-> <<>>]
       /\ preds = [n \in NodesOf(function) |-> <<>>]
  /\ fgPhase \in {"up", "done"} => Up(function, at, succs, preds, label_map)
  /\ fgPhase = "done" => at = 0
  /\ fgPhase = "aborted" => at # 0 /\ ~Inside(function, at)

LEMMA Same ==
  /\ Nodes = NodesOf(function)
  /\ \A n : Fallthrough(n) = NextOf(function, n) /\ Before(n) = Prev(function, n)
BY DEF Nodes, NodesOf, il, Fallthrough, NextOf, Before, Prev

LEMMA FGInitially == FGInit => FGInv
<1> SUFFICES ASSUME FGInit PROVE FGInv
  OBVIOUS
<1>1. function \in Functions /\ fgPhase = "down" /\ at = 1 /\ headLabels = {}
      /\ succs = [n \in NodesOf(function) |-> <<>>] /\ preds = [n \in NodesOf(function) |-> <<>>]
  BY Same DEF FGInit
<1>2. PICK f \in Functions : f = function
  BY <1>1
<1>3. 1 .. 1 - 1 = {} /\ 1 \in 1 .. Len(f.il) + 1
  BY Positions
<1>4. DOMAIN label_map = {}
  BY DEF FGInit
<1>5. Down(f, 1, {}, label_map)
  BY <1>3, <1>4 DEF Down
<1> QED
  BY <1>1, <1>2, <1>5 DEF FGInv

LEMMA TargetsSame ==
  ASSUME FGInv, fgPhase = "up", at # 0
  PROVE  /\ Targets(at) = TargetsOf(function, label_map, Graph(function, succs), at)
         /\ AssertsHold(at) <=> Inside(function, at)
<1>1. Up(function, at, succs, preds, label_map) /\ function \in Functions
  BY DEF FGInv
<1>2. PICK f \in Functions : f = function
  BY <1>1
<1>3. at \in NodesOf(f) /\ LabelsKnown(f, label_map) /\ DOMAIN label_map \subseteq LabelsOf(f)
  BY <1>1, <1>2 DEF Up
<1>4. PICK js : js = f.il[at].jumps
  OBVIOUS
<1>5. PICK nx : nx = NextOf(f, at)
  OBVIOUS
<1>6. il[at].jumps = js /\ Fallthrough(at) = nx
  BY <1>2, <1>4, <1>5, Same DEF il
<1>7. CASE js # <<>>
  <2>1. /\ nx \in NodesOf(f) /\ nx # 0
        /\ \A l \in ToSet(js) \intersect LabelsOf(f) : l \in DOMAIN label_map
    BY <1>3, <1>4, <1>5, <1>7, JumpLabels
  <2>2. AssertsHold(at) <=> Inside(f, at)
    <3>1. AssertsHold(at) <=> ToSet(js) \subseteq DOMAIN label_map
      BY <1>6, <1>7, <2>1 DEF AssertsHold
    <3>2. Inside(f, at) <=> ToSet(js) \subseteq LabelsOf(f)
      BY <1>4 DEF Inside
    <3> QED
      BY <1>3, <2>1, <3>1, <3>2
  <2>3. Graph(f, succs)[nx] = ToSet(succs[nx])
    BY <2>1 DEF Graph
  <2>4. \A l : Target(at, l) = Via(f, Graph(f, succs), at, label_map[l])
    BY <1>5, <1>6, <2>3 DEF Target, Via
  <2>5. Targets(at) = [i \in DOMAIN js |-> Target(at, js[i])]
    BY <1>6, <1>7 DEF Targets
  <2>6. TargetsOf(f, label_map, Graph(f, succs), at)
          = [i \in DOMAIN js |-> Via(f, Graph(f, succs), at, label_map[js[i]])]
    BY <1>4, <1>7 DEF TargetsOf
  <2>7. Targets(at) = TargetsOf(f, label_map, Graph(f, succs), at)
    BY <2>4, <2>5, <2>6
  <2> QED
    BY <1>2, <2>2, <2>7
<1>8. CASE js = <<>>
  <2>1. AssertsHold(at) /\ Inside(f, at)
    <3>1. ToSet(js) = {}
      BY <1>8 DEF ToSet
    <3> QED
      BY <1>4, <1>6, <1>8, <3>1 DEF AssertsHold, Inside
  <2>2. Targets(at) = IF nx # 0 THEN <<nx>> ELSE <<>>
    BY <1>6, <1>8 DEF Targets
  <2>3. TargetsOf(f, label_map, Graph(f, succs), at) = IF nx # 0 THEN <<nx>> ELSE <<>>
    BY <1>4, <1>5, <1>8 DEF TargetsOf
  <2> QED
    BY <1>2, <2>1, <2>2, <2>3
<1> QED
  BY <1>7, <1>8

LEMMA FGStep == FGInv /\ FGNext => FGInv'
<1> SUFFICES ASSUME FGInv, FGNext PROVE FGInv'
  OBVIOUS
<1>1. PICK f \in Functions : f = function /\ function' = f
  BY DEF FGInv, FGNext, Label, Enter, Bottom, Leave, AssertFails, Return
<1>2. Nodes = NodesOf(f) /\ il = f.il
  BY <1>1, Same DEF il
<1>3. CASE Label
  <2>1. /\ fgPhase = "down" /\ fgPhase' = "down" /\ at <= Len(f.il) /\ IsLabelInstr(f.il[at])
        /\ at' = at + 1 /\ headLabels' = headLabels \union {f.il[at].label}
        /\ label_map' = label_map /\ succs' = succs /\ preds' = preds
    BY <1>2, <1>3 DEF Label
  <2>2. Down(f, at, headLabels, label_map)
    BY <1>1, <2>1 DEF FGInv
  <2>3. Down(f, at', headLabels', label_map')
    BY <2>1, <2>2, DownLabel
  <2> QED
    BY <1>1, <2>1, <2>3 DEF FGInv
<1>4. CASE Enter
  <2>1. /\ fgPhase = "down" /\ fgPhase' = "down" /\ at \in NodesOf(f)
        /\ at' = at + 1 /\ headLabels' = {} /\ succs' = succs /\ preds' = preds
        /\ label_map' = [l \in headLabels \union DOMAIN label_map |->
                           IF l \in headLabels THEN at ELSE label_map[l]]
    BY <1>2, <1>4 DEF Enter
  <2>2. Down(f, at, headLabels, label_map)
    BY <1>1, <2>1 DEF FGInv
  <2>3. Down(f, at', headLabels', label_map')
    BY <2>1, <2>2, DownEnter
  <2> QED
    BY <1>1, <2>1, <2>3 DEF FGInv
<1>5. CASE Bottom
  <2>1. /\ fgPhase = "down" /\ fgPhase' = "up" /\ at > Len(f.il)
        /\ at' = Prev(f, at) /\ label_map' = label_map /\ succs' = succs /\ preds' = preds
    BY <1>1, <1>2, <1>5, Same DEF Bottom
  <2>2. Down(f, at, headLabels, label_map)
        /\ succs = [n \in NodesOf(f) |-> <<>>] /\ preds = [n \in NodesOf(f) |-> <<>>]
    BY <1>1, <2>1 DEF FGInv
  <2>3. at = Len(f.il) + 1 /\ LabelsKnown(f, label_map) /\ DOMAIN label_map \subseteq LabelsOf(f)
    BY <2>1, <2>2, DownBottom
  <2>4. Up(f, at', succs', preds', label_map')
    BY <2>1, <2>2, <2>3, UpBottom
  <2> QED
    BY <1>1, <2>1, <2>4 DEF FGInv
<1>6. CASE Leave
  <2>1. PICK ts : ts = Targets(at)
    OBVIOUS
  <2>2. /\ fgPhase = "up" /\ fgPhase' = "up" /\ at # 0 /\ at' = Prev(f, at) /\ label_map' = label_map
        /\ succs' = [succs EXCEPT ![at] = FoldLeft(AddTarget, <<>>, ts)]
        /\ preds' = [n \in NodesOf(f) |-> IF n \in ToSet(ts) THEN <<at>> \o preds[n] ELSE preds[n]]
    BY <1>1, <1>2, <1>6, <2>1, Same DEF Leave
  <2>3. Up(f, at, succs, preds, label_map)
    BY <1>1, <2>2 DEF FGInv
  <2>4. ts = TargetsOf(f, label_map, Graph(f, succs), at) /\ Inside(f, at)
    BY <1>1, <1>6, <2>1, <2>2, TargetsSame DEF Leave
  <2>5. Up(f, at', succs', preds', label_map')
    BY <2>2, <2>3, <2>4, UpLeave
  <2> QED
    BY <1>1, <2>2, <2>5 DEF FGInv
<1>7. CASE Return
  <2>1. /\ fgPhase = "up" /\ fgPhase' = "done" /\ at = 0 /\ at' = 0 /\ label_map' = label_map
        /\ succs' = succs /\ preds' = preds
    BY <1>7 DEF Return
  <2>2. Up(f, at', succs', preds', label_map')
    BY <1>1, <2>1 DEF FGInv
  <2> QED
    BY <1>1, <2>1, <2>2 DEF FGInv
<1>8. CASE AssertFails
  <2>1. fgPhase = "up" /\ at # 0 /\ ~AssertsHold(at) /\ fgPhase' = "aborted" /\ at' = at
    BY <1>8 DEF AssertFails
  <2>2. ~Inside(f, at)
    BY <1>1, <2>1, TargetsSame
  <2> QED
    BY <1>1, <2>1, <2>2 DEF FGInv
<1> QED
  BY <1>3, <1>4, <1>5, <1>6, <1>7, <1>8 DEF FGNext
-------------------------------------------------------------------------------
(* What build has done so far.                                             *)
BuildInv ==
  LET G == Graph(function, succs)
  IN  /\ FGInv
      /\ phase \in {"flow", "build", "done", "aborted"}
      /\ phase = "flow" => cur = 0 /\ adjSet = {} /\ worklistMoves = {}
      /\ phase # "flow" => fgPhase = "done" /\ liveOut = Behind(function, G)
      /\ phase \in {"build", "done"} =>
           Walk(function, G, blockEnds, cur, live, adjSet, worklistMoves)
      /\ phase = "done" => cur = 0 /\ blockEnds = {}
      /\ phase = "aborted" => /\ cur \in NodesOf(function) /\ Len(preds[cur]) # 1
                              /\ ~Starts(function, preds, cur)

LEMMA LiveSame ==
  /\ \A t, s : LiveIn(t, s) = Live(function, t, s)
  /\ \A s : LiveBehind(s) = Behind(function, s)
<1>1. \A t, s : LiveIn(t, s) = Live(function, t, s)
  BY DEF LiveIn, Live, More, Nodes, NodesOf, il
<1>2. ASSUME NEW s PROVE LiveBehind(s) = Behind(function, s)
  BY <1>1, Same DEF LiveBehind, Behind
<1> QED
  BY <1>1, <1>2

LEMMA BuildInitially == Init => BuildInv
<1> SUFFICES ASSUME Init PROVE BuildInv
  OBVIOUS
<1>1. FGInv /\ phase = "flow" /\ cur = 0 /\ adjSet = {} /\ worklistMoves = {}
  BY FGInitially DEF Init
<1> QED
  BY <1>1 DEF BuildInv

LEMMA BuildStep == BuildInv /\ [Next]_vars => BuildInv'
<1> SUFFICES ASSUME BuildInv, [Next]_vars PROVE BuildInv'
  OBVIOUS
<1>1. FGInv
  BY DEF BuildInv
<1>2. CASE MakeFlowGraph
  <2>1. fgPhase # "done"
    BY <1>2 DEF MakeFlowGraph, FGNext, Label, Enter, Bottom, Leave, AssertFails, Return
  <2>2. phase = "flow" /\ phase' = "flow" /\ cur' = cur /\ adjSet' = adjSet
        /\ worklistMoves' = worklistMoves
    BY <1>2, <2>1 DEF MakeFlowGraph, bVars, BuildInv
  <2>3. FGInv'
    BY <1>1, <1>2, FGStep DEF MakeFlowGraph
  <2> QED
    BY <2>2, <2>3 DEF BuildInv
<1>3. ASSUME UNCHANGED fgVars PROVE FGInv'
  BY <1>1, <1>3 DEF FGInv, fgVars
<1>4. PICK f \in Functions : f = function
  BY <1>1 DEF FGInv
<1>5. PICK G : G = Graph(f, succs)
  OBVIOUS
<1>6. ASSUME UNCHANGED fgVars
      PROVE  FGInv' /\ function' = f /\ Graph(f, succs') = G /\ fgPhase' = fgPhase
             /\ preds' = preds
  BY <1>3, <1>4, <1>5, <1>6 DEF fgVars
<1>7. ASSUME phase # "flow"
      PROVE  /\ fgPhase = "done" /\ liveOut = Behind(f, G) /\ Up(f, 0, succs, preds, label_map)
             /\ phase = "build" => Walk(f, G, blockEnds, cur, live, adjSet, worklistMoves)
  BY <1>1, <1>4, <1>5, <1>7 DEF BuildInv, FGInv
<1>8. CASE Analyse
  <2>1. /\ phase = "flow" /\ fgPhase = "done" /\ phase' = "build" /\ UNCHANGED fgVars
        /\ cur = 0 /\ cur' = 0 /\ adjSet' = {} /\ worklistMoves' = {} /\ live' = live
        /\ blockEnds' = f.lastInstr /\ liveOut' = LiveBehind([n \in Nodes |-> ToSet(succs[n])])
    BY <1>4, <1>8 DEF Analyse, BuildInv
  <2>2. liveOut' = Behind(f, G)
    <3>1. [n \in Nodes |-> ToSet(succs[n])] = G
      BY <1>4, <1>5, Same DEF Graph
    <3> QED
      BY <1>4, <2>1, <3>1, LiveSame
  <2>3. Walked(f, f.lastInstr, 0) = {}
    BY DEF Walked
  <2>4. Walk(f, G, f.lastInstr, 0, live, {}, {})
    BY <2>3 DEF Walk
  <2> QED
    BY <1>6, <2>1, <2>2, <2>4 DEF BuildInv
<1>9. CASE NextBlock
  <2>1. /\ phase = "build" /\ phase' = "build" /\ cur = 0 /\ blockEnds # {} /\ cur' = Min(blockEnds)
        /\ live' = {t \in Temps : <<cur', t>> \in liveOut} /\ blockEnds' = blockEnds \ {cur'}
        /\ UNCHANGED fgVars /\ liveOut' = liveOut /\ adjSet' = adjSet
        /\ worklistMoves' = worklistMoves
    BY <1>9 DEF NextBlock
  <2>2. live' = LiveAfter(f, G, cur')
    BY <1>7, <2>1 DEF LiveAfter
  <2>3. Walk(f, G, blockEnds', cur', live', adjSet', worklistMoves')
    BY <1>7, <2>1, <2>2, WalkBegin
  <2> QED
    BY <1>6, <1>7, <2>1, <2>3 DEF BuildInv
<1>10. ASSUME WalkInstr
       PROVE  /\ phase = "build" /\ cur # 0 /\ UNCHANGED fgVars /\ liveOut' = liveOut
              /\ blockEnds' = blockEnds /\ cur \in NodesOf(f)
              /\ live' = f.il[cur].src \union (Held(f, live, cur) \ f.il[cur].dst)
              /\ adjSet' = adjSet \union EdgesAt(f, live, cur)
              /\ worklistMoves' = worklistMoves \union (IF IsMoveOf(f, cur) THEN {cur} ELSE {})
              /\ IsBlockStart <=> Starts(f, preds, cur)
  <2>1. /\ phase = "build" /\ cur # 0 /\ live' = LiveBefore /\ adjSet' = adjSet \union Edges
        /\ worklistMoves' = worklistMoves \union (IF IsMove(cur) THEN {cur} ELSE {})
        /\ UNCHANGED fgVars /\ liveOut' = liveOut /\ blockEnds' = blockEnds
    BY <1>10 DEF WalkInstr
  <2>2. IsMove(cur) <=> IsMoveOf(f, cur)
    BY <1>4 DEF IsMove, IsMoveOf, il
  <2>3. LiveAt = Held(f, live, cur)
    BY <1>4, <2>2 DEF LiveAt, Held, il
  <2>4. LiveBefore = f.il[cur].src \union (Held(f, live, cur) \ f.il[cur].dst)
    BY <1>4, <2>3 DEF LiveBefore, il
  <2>5. Edges = EdgesAt(f, live, cur)
    BY <1>4, <2>3 DEF Edges, EdgesAt, il
  <2>6. IsBlockStart <=> Starts(f, preds, cur)
    BY <1>4 DEF IsBlockStart, Starts
  <2>7. cur \in NodesOf(f)
    BY <1>7, <2>1 DEF Walk
  <2> QED
    BY <2>1, <2>2, <2>4, <2>5, <2>6, <2>7
<1>11. CASE WalkBack
  <2>1. /\ WalkInstr /\ ~Starts(f, preds, cur) /\ cur' = Head(preds[cur]) /\ phase' = phase
    BY <1>10, <1>11 DEF WalkBack
  <2>2. Walk(f, G, blockEnds', cur', live', adjSet', worklistMoves')
    BY <1>5, <1>7, <1>10, <2>1, WalkStep
  <2> QED
    BY <1>6, <1>7, <1>10, <2>1, <2>2 DEF BuildInv
<1>12. CASE EndBlock
  <2>1. /\ WalkInstr /\ Starts(f, preds, cur) /\ cur' = 0 /\ phase' = phase
    BY <1>10, <1>12 DEF EndBlock
  <2>2. Walk(f, G, blockEnds', cur', live', adjSet', worklistMoves')
    BY <1>5, <1>7, <1>10, <2>1, WalkStep
  <2> QED
    BY <1>6, <1>7, <1>10, <2>1, <2>2 DEF BuildInv
<1>13. CASE AbortBuild
  <2>1. /\ WalkInstr /\ ~Starts(f, preds, cur) /\ Len(preds[cur]) # 1 /\ phase' = "aborted"
        /\ cur' = cur
    BY <1>10, <1>13 DEF AbortBuild
  <2> QED
    BY <1>6, <1>7, <1>10, <2>1 DEF BuildInv
<1>14. CASE BuildDone
  <2>1. /\ phase = "build" /\ phase' = "done" /\ cur = 0 /\ blockEnds = {} /\ UNCHANGED fgVars
        /\ cur' = cur /\ blockEnds' = blockEnds /\ liveOut' = liveOut /\ live' = live
        /\ adjSet' = adjSet /\ worklistMoves' = worklistMoves
    BY <1>14 DEF BuildDone
  <2> QED
    BY <1>6, <1>7, <2>1 DEF BuildInv
<1>15. CASE UNCHANGED vars
  <2>1. /\ UNCHANGED fgVars /\ phase' = phase /\ liveOut' = liveOut /\ blockEnds' = blockEnds
        /\ cur' = cur /\ live' = live /\ adjSet' = adjSet /\ worklistMoves' = worklistMoves
    BY <1>15 DEF vars, bVars
  <2>2. FGInv' /\ function' = function /\ succs' = succs /\ preds' = preds /\ fgPhase' = fgPhase
    BY <1>3, <2>1 DEF fgVars
  <2> QED
    BY <2>1, <2>2 DEF BuildInv
<1> QED
  BY <1>2, <1>8, <1>9, <1>11, <1>12, <1>13, <1>14, <1>15 DEF Next, Terminating
(* BuildInv is inductive.                                                  *)
THEOREM BuildInvariant == Spec => []BuildInv
<1>1. Init => BuildInv
  BY BuildInitially
<1>2. BuildInv /\ [Next]_vars => BuildInv'
  BY BuildStep
<1> QED
  BY <1>1, <1>2, PTL DEF Spec

LEMMA FailsHere == BuildInv => FailsOnlyOutside
<1> SUFFICES ASSUME BuildInv PROVE FailsOnlyOutside
  OBVIOUS
<1>1. PICK f \in Functions : f = function
  BY DEF BuildInv, FGInv
<1>2. \A n : Outside(n) = {} <=> Inside(f, n)
  BY <1>1 DEF Outside, Inside, il
<1>3. fgPhase = "aborted" => Outside(at) # {}
  BY <1>1, <1>2 DEF BuildInv, FGInv
<1>4. ASSUME fgPhase = "done" PROVE \A n \in Nodes : Outside(n) = {}
  <2>1. RecordedBy(f, label_map, Graph(f, succs))
    BY <1>1, <1>4, UpDone DEF BuildInv, FGInv
  <2> QED
    BY <1>1, <1>2, <2>1, Same DEF RecordedBy
<1> QED
  BY <1>3, <1>4 DEF FailsOnlyOutside

(* The assertion of FG_AssemFlowGraph fails for a function with a jump out *)
(* of it, and for no other one: no label the function has is looked up in  *)
(* vain, whichever labels stand in a row before a node.                    *)
THEOREM LabelsFound == Spec => []FailsOnlyOutside
<1> QED
  BY BuildInvariant, FailsHere, PTL

LEMMA EdgesFollowHere == BuildInv => EdgesFollowControl
<1> SUFFICES ASSUME BuildInv, fgPhase = "done" PROVE \A n \in Nodes : FollowsControl(n)
  BY DEF EdgesFollowControl
<1>1. PICK f \in Functions : f = function
  BY DEF BuildInv, FGInv
<1>2. Up(f, 0, succs, preds, label_map)
  BY <1>1 DEF BuildInv, FGInv
<1>3. PICK G : G = Graph(f, succs)
  OBVIOUS
<1>4. RecordedBy(f, label_map, G) /\ \A n \in NodesOf(f) : G[n] = ToSet(succs[n])
  BY <1>2, <1>3, UpDone
<1>5. SUFFICES ASSUME NEW n \in NodesOf(f) PROVE FollowsControl(n)
  BY <1>1, Same
<1>6. PICK nx : nx = NextOf(f, n)
  OBVIOUS
<1>7. ControlSuccs(n) = Goes(f, label_map, n) /\ Fallthrough(n) = nx
  BY <1>1, <1>6, Same DEF ControlSuccs, Onward, Goes, il
<1>8. Follows(f, label_map, G, n) /\ G[n] = ToSet(succs[n])
  BY <1>4, EdgesFollow
<1>9. nx \in NodesOf(f) => G[nx] = ToSet(succs[nx])
  BY <1>4
<1>10. /\ \A m \in Goes(f, label_map, n) \ ToSet(succs[n]) :
            /\ nx \in ToSet(succs[n]) /\ f.il[nx].dst = {} /\ f.il[nx].src = {}
            /\ m \in ToSet(succs[nx])
       /\ \A m \in ToSet(succs[n]) \ Goes(f, label_map, n) :
            m = nx /\ nx \in ToSet(succs[n]) /\ f.il[nx].dst = {} /\ f.il[nx].src = {}
  BY <1>6, <1>8, <1>9 DEF Follows
<1> QED
  BY <1>1, <1>7, <1>10 DEF FollowsControl, il

(* For every function: FG_AssemFlowGraph returns a graph whose edges are   *)
(* the ways control goes, but for detours through jumps.                   *)
THEOREM EdgesRight == Spec => []EdgesFollowControl
<1> QED
  BY BuildInvariant, EdgesFollowHere, PTL

LEMMA AbortsHere == BuildInv => AbortsOnlyAtEntry
<1> SUFFICES ASSUME BuildInv, phase = "aborted"
             PROVE  \A m \in 1 .. Head(preds[cur]) : ~IsLabelInstr(il[m])
  BY DEF AbortsOnlyAtEntry
<1>1. PICK f \in Functions : f = function
  BY DEF BuildInv, FGInv
<1>2. /\ Up(f, 0, succs, preds, label_map) /\ cur \in NodesOf(f) /\ ~Starts(f, preds, cur)
      /\ Len(preds[cur]) # 1
  BY <1>1 DEF BuildInv, FGInv
<1>3. \A m \in 1 .. Head(preds[cur]) : m \in NodesOf(f)
  BY <1>2, Backwards
<1> QED
  BY <1>1, <1>3 DEF NodesOf, il

(* The assertion of build fails at the first instruction control reaches   *)
(* from outside the body, and nowhere else, in any function.               *)
THEOREM AbortsAtEntry == Spec => []AbortsOnlyAtEntry
<1> QED
  BY BuildInvariant, AbortsHere, PTL

(* So these two are all the functions the compiler gives up on between     *)
(* instruction selection and the interference graph.                       *)
THEOREM StopsKnown == Spec => []StopsWhereKnown
<1> QED
  BY LabelsFound, AbortsAtEntry, PTL DEF StopsWhereKnown

(* A set of two members that differ has two elements.                      *)
LEMMA TwoElements ==
  ASSUME NEW x, NEW d, NEW e, e = {x, d}
  PROVE  /\ x = d => Cardinality(e) = 1
         /\ x # d => Cardinality(e) = 2
<1>1. ASSUME x = d PROVE Cardinality(e) = 1
  <2>1. e = {d}
    BY <1>1
  <2>2. Cardinality({d}) = 1
    BY FS_Singleton
  <2> QED
    BY <2>1, <2>2, Zenon
<1>2. ASSUME x # d PROVE Cardinality(e) = 2
  <2>1. IsFiniteSet({d}) /\ Cardinality({d}) = 1 /\ x \notin {d}
    BY <1>2, FS_Singleton
  <2>2. Cardinality({d} \union {x}) = Cardinality({d}) + 1
    BY <2>1, FS_AddElement
  <2>3. {d} \union {x} = e
    OBVIOUS
  <2>4. Cardinality(e) = Cardinality({d}) + 1
    BY <2>2, <2>3, Zenon
  <2> QED
    BY <2>1, <2>4
<1> QED
  BY <1>1, <1>2

LEMMA Pairs ==
  ASSUME NEW A, NEW D, NEW e \in {{x, d} : x \in A, d \in D}
  PROVE  e \notin {{d} : d \in D} <=> Cardinality(e) = 2
<1>1. PICK x \in A, d \in D : e = {x, d}
  OBVIOUS
<1>2. PICK k : k = Cardinality(e)
  OBVIOUS
<1>3. (x = d => Cardinality(e) = 1) /\ (x # d => Cardinality(e) = 2)
  BY <1>1, TwoElements
<1>4. k = 2 <=> x # d
  BY <1>2, <1>3
<1>5. x = d => e \in {{y} : y \in D}
  BY <1>1
<1>6. x # d => \A y : e # {y}
  <2>1. x \in e /\ d \in e
    BY <1>1
  <2> QED
    BY <2>1
<1>7. (e \in {{y} : y \in D}) <=> x = d
  BY <1>5, <1>6
<1> QED
  BY <1>2, <1>4, <1>7

LEMMA ConflictsAre ==
  ASSUME BuildInv, fgPhase = "done", NEW f \in Functions, f = function,
         NEW G, G = Graph(f, succs)
  PROVE  Conflicts = UNION {{{t, d} : t \in Held(f, LiveAfter(f, G, n), n), d \in f.il[n].dst} :
                              n \in NodesOf(f)}
<1>1. RecordedBy(f, label_map, G)
  <2>1. Up(f, 0, succs, preds, label_map)
    BY DEF BuildInv, FGInv
  <2> QED
    BY <2>1, UpDone
<1>2. PICK C : C = [n \in Nodes |-> ControlSuccs(n)]
  OBVIOUS
<1>3. \A n \in NodesOf(f) : C[n] = Goes(f, label_map, n)
  BY <1>2, Same DEF ControlSuccs, Onward, Goes, il
<1>4. PICK really : really = LiveBehind(C)
  OBVIOUS
<1>5. ASSUME NEW n \in NodesOf(f), NEW t \in Temps PROVE <<n, t>> \in really <=> t \in LiveAfter(f, G, n)
  <2>1. really = Behind(f, C)
    BY <1>4, LiveSame
  <2>2. <<n, t>> \in really <=> C[n] \intersect Live(f, t, C) # {}
    BY <2>1, BehindIs
  <2>3. t \in LiveAfter(f, G, n) <=> G[n] \intersect Live(f, t, G) # {}
    BY BehindIs DEF LiveAfter
  <2> QED
    BY <1>1, <1>3, <2>2, <2>3, LiveAlongControl
<1> DEFINE against(n) == {t \in Temps : \/ t \in il[n].dst
                                        \/ <<n, t>> \in really /\ ~(IsMove(n) /\ t \in il[n].src)}
<1>6. Conflicts = UNION {{{t, d} : t \in against(n), d \in il[n].dst} : n \in NodesOf(f)}
  BY <1>2, <1>4, Same DEF Conflicts
<1>7. ASSUME NEW n \in NodesOf(f) PROVE against(n) = Held(f, LiveAfter(f, G, n), n)
  <2>1. IsMove(n) <=> IsMoveOf(f, n)
    BY DEF IsMove, IsMoveOf, il
  <2>2. il[n].dst = f.il[n].dst /\ il[n].src = f.il[n].src /\ f.il[n].dst \subseteq Temps
    BY Positions DEF il
  <2>3. LiveAfter(f, G, n) \subseteq Temps
    BY DEF LiveAfter
  <2>4. Held(f, LiveAfter(f, G, n), n) \subseteq Temps
    BY <2>2, <2>3 DEF Held
  <2>5. \A t \in Temps : t \in against(n) <=> t \in Held(f, LiveAfter(f, G, n), n)
    BY <1>5, <2>1, <2>2 DEF Held
  <2>6. against(n) \subseteq Temps
    OBVIOUS
  <2> HIDE DEF against
  <2> QED
    BY <2>4, <2>5, <2>6
<1> HIDE DEF against
<1>8. \A n \in NodesOf(f) : il[n].dst = f.il[n].dst
  BY DEF il
<1> QED
  BY <1>6, <1>7, <1>8

LEMMA ExactHere == BuildInv => BuildExact
<1> SUFFICES ASSUME BuildInv, phase = "done"
             PROVE  /\ adjSet = {e \in Conflicts : Cardinality(e) = 2}
                    /\ worklistMoves = {n \in Nodes : IsMove(n)}
  BY DEF BuildExact
<1>1. PICK f \in Functions : f = function
  BY DEF BuildInv, FGInv
<1>2. PICK G : G = Graph(f, succs)
  OBVIOUS
<1>3. Walk(f, G, {}, 0, live, adjSet, worklistMoves)
  BY <1>1, <1>2 DEF BuildInv
<1>4. /\ adjSet = UNION {EdgesAt(f, LiveAfter(f, G, n), n) : n \in NodesOf(f)}
      /\ worklistMoves = {n \in NodesOf(f) : IsMoveOf(f, n)}
  BY <1>3, WalkFull
<1>5. worklistMoves = {n \in Nodes : IsMove(n)}
  BY <1>1, <1>4, Same DEF IsMove, IsMoveOf, il
<1> DEFINE against(n) == Held(f, LiveAfter(f, G, n), n)
           dst(n) == f.il[n].dst
           pairs(n) == {{t, d} : t \in against(n), d \in dst(n)}
<1>6. Conflicts = UNION {pairs(n) : n \in NodesOf(f)}
  BY <1>1, <1>2, ConflictsAre DEF BuildInv
<1>7. adjSet = UNION {pairs(n) \ {{d} : d \in dst(n)} : n \in NodesOf(f)}
  BY <1>4 DEF EdgesAt
<1>8. ASSUME NEW n \in NodesOf(f), NEW e \in pairs(n)
      PROVE  e \notin {{d} : d \in dst(n)} <=> Cardinality(e) = 2
  <2> HIDE DEF against, dst
  <2> QED
    BY Pairs
<1> HIDE DEF pairs, dst
<1>9. adjSet = {e \in Conflicts : Cardinality(e) = 2}
  BY <1>6, <1>7, <1>8
<1> QED
  BY <1>5, <1>9

(* For every function build finds exactly the pairs that interfere, and    *)
(* all moves, unless its assertion stops it.                               *)
THEOREM BuildFindsAll == Spec => []BuildExact
<1> QED
  BY BuildInvariant, ExactHere, PTL
===============================================================================
