---------------------------- MODULE LivenessProofs ----------------------------
(***************************************************************************)
(* What Live_Liveness guarantees for every flow graph and every set of     *)
(* temporaries.  FixpointOnReturn is not inductive: when a sweep ends      *)
(* without a change, the equations hold because every node the sweep       *)
(* passed was settled and stayed so (QuietPrefixSettled), and because no   *)
(* set ever held more than its equation allows (NeverAhead).  The latter   *)
(* is preserved because a visit only enlarges the sets.                    *)
(***************************************************************************)
EXTENDS Liveness, FiniteSetTheorems, WellFoundedInduction, TLAPS

(* A set of naturals that is not empty has a least element.                *)
LEMMA LeastElement ==
  ASSUME NEW S, S \subseteq Nat, S # {}
  PROVE  \E x \in S : \A y \in S : x <= y
<1>1. PICK x \in S : \A y \in S : ~(<<y, x>> \in OpToRel(<, Nat))
  BY WFMin, NatLessThanWellFounded, Zenon
<1>2. ASSUME NEW y \in S PROVE ~(y < x)
  <2>1. y < x => <<y, x>> \in OpToRel(<, Nat)
    BY Zenon DEF OpToRel
  <2> QED
    BY <2>1, <1>1
<1>3. \A y \in S : x \in Nat /\ y \in Nat
  OBVIOUS
<1> QED
  BY <1>2, <1>3

(* A set with 0 and, with each number, the next one has all of them.       *)
LEMMA InductiveSet ==
  ASSUME NEW S, 0 \in S, \A n \in Nat : n \in S => n + 1 \in S
  PROVE  Nat \subseteq S
<1> SUFFICES ASSUME Nat \ S # {} PROVE FALSE
  OBVIOUS
<1>1. PICK x \in Nat \ S : \A y \in Nat \ S : x <= y
  BY LeastElement
<1>2. x # 0 /\ x - 1 \in S
  BY <1>1
<1> QED
  BY <1>2

LInv == TypeOK /\ NeverAhead /\ QuietPrefixSettled

(* The maps a step of the graph reads have the types its graph has.        *)
LEMMA FlowType ==
  ASSUME TypeOK
  PROVE  flow \in FlowGraph
BY FlowGraphsAssumption DEF TypeOK

LEMMA InitTyped == Init => TypeOK
BY NAssumption DEF Init, TypeOK, Nodes

LEMMA VisitTyped ==
  ASSUME TypeOK, Visit
  PROVE  TypeOK'
<1>1. l \in Nodes /\ l' \in 1 .. N + 1
  BY NAssumption DEF Visit, TypeOK, Nodes
<1>2. in' \in [Nodes -> SUBSET Temps]
  <2>1. Transfer(l, out[l]) \subseteq Temps
    BY <1>1, FlowType DEF Transfer, FG_use, FG_def, TypeOK, FlowGraph
  <2> QED
    BY <1>1, <2>1 DEF Visit, TypeOK
<1>3. out' \in [Nodes -> SUBSET Temps]
  <2>1. Gather(l, in') \subseteq Temps
    BY <1>1, <1>2, FlowType DEF Gather, FromSuccessors, Succ, TypeOK, FlowGraph
  <2> QED
    BY <1>1, <2>1 DEF Visit, TypeOK
<1>4. changed' \in BOOLEAN /\ flow' \in FlowGraphs
  BY DEF Visit, TypeOK, Changed
<1> QED
  BY <1>1, <1>2, <1>3, <1>4 DEF TypeOK

LEMMA StepTyped ==
  ASSUME TypeOK, [Next]_vars
  PROVE  TypeOK'
<1>1. CASE NextPass
  <2>1. l' \in 1 .. N + 1
    BY <1>1, NAssumption DEF NextPass
  <2>2. in' = in /\ out' = out /\ flow' = flow /\ changed' = FALSE
    BY <1>1 DEF NextPass
  <2> QED
    BY <2>1, <2>2 DEF TypeOK
<1>2. CASE Visit
  BY <1>2, VisitTyped
<1>3. CASE UNCHANGED vars
  BY <1>3 DEF vars, TypeOK
<1> QED
  BY <1>1, <1>2, <1>3 DEF Next, Terminating

(* Every reachable state of the analysis is well typed; in particular the  *)
(* position l never leaves the node list by more than one.                 *)
THEOREM TypeCorrect == Spec => []TypeOK
BY InitTyped, StepTyped, PTL DEF Spec

-------------------------------------------------------------------------------
(* What one visit does to the two maps, said once for the lemmas below.    *)
LEMMA VisitStep ==
  ASSUME TypeOK, Visit
  PROVE  /\ l \in Nodes
         /\ flow' = flow
         /\ in'[l] = Transfer(l, out[l])
         /\ out'[l] = Gather(l, in')
         /\ \A n \in Nodes \ {l} : in'[n] = in[n] /\ out'[n] = out[n]
BY NAssumption DEF TypeOK, Visit, Nodes

(* A visit only adds: in[l] is recomputed from an out[l] that has not      *)
(* shrunk since in[l] was last computed, and out[l] is accumulated.        *)
LEMMA VisitGrows ==
  ASSUME TypeOK, NeverAhead, Visit
  PROVE  \A n \in Nodes : in[n] \subseteq in'[n] /\ out[n] \subseteq out'[n]
<1> SUFFICES ASSUME NEW n \in Nodes
             PROVE  in[n] \subseteq in'[n] /\ out[n] \subseteq out'[n]
  OBVIOUS
<1>1. CASE n = l
  BY <1>1, VisitStep DEF NeverAhead, Gather
<1>2. CASE n # l
  BY <1>2, VisitStep
<1> QED
  BY <1>1, <1>2

(* Both right-hand sides of the equations are monotone in what they read.  *)
LEMMA Monotone ==
  ASSUME TypeOK, NeverAhead, Visit, NEW n \in Nodes
  PROVE  /\ Transfer(n, out[n]) \subseteq Transfer(n, out'[n])
         /\ FromSuccessors(n, in) \subseteq FromSuccessors(n, in')
<1>1. Succ(n) \subseteq Nodes
  BY FlowType DEF Succ, FlowGraph
<1> QED
  BY <1>1, VisitGrows DEF Transfer, FromSuccessors

LEMMA NeverAheadPreserved ==
  ASSUME TypeOK, NeverAhead, Visit
  PROVE  NeverAhead'
<1> SUFFICES ASSUME NEW n \in Nodes
             PROVE  /\ in'[n] \subseteq Transfer(n, out'[n])
                    /\ out'[n] \subseteq FromSuccessors(n, in')
  BY VisitStep DEF NeverAhead, Transfer, FromSuccessors, FG_use, FG_def, Succ
<1>1. CASE n = l
  <2>1. in'[n] \subseteq Transfer(n, out'[n])
    BY <1>1, VisitStep, Monotone
  <2>2. out'[n] \subseteq FromSuccessors(n, in')
    BY <1>1, VisitStep, Monotone DEF Gather, NeverAhead
  <2> QED
    BY <2>1, <2>2
<1>2. CASE n # l
  BY <1>2, VisitStep, Monotone DEF NeverAhead
<1> QED
  BY <1>1, <1>2

(* A visit that ends with the flag still down has rewritten both sets with *)
(* what they already held.                                                 *)
LEMMA QuietVisitChangesNothing ==
  ASSUME TypeOK, Visit, ~changed'
  PROVE  ~changed /\ in' = in /\ out' = out
<1>1. ~changed /\ in'[l] = in[l] /\ out'[l] = out[l]
  BY DEF Visit, Changed
<1>2. \A n \in Nodes : in'[n] = in[n] /\ out'[n] = out[n]
  BY <1>1, VisitStep
<1>3. in' \in [Nodes -> SUBSET Temps] /\ out' \in [Nodes -> SUBSET Temps]
  BY VisitTyped DEF TypeOK
<1> QED
  BY <1>1, <1>2, <1>3 DEF TypeOK

LEMMA QuietPrefixPreserved ==
  ASSUME TypeOK, QuietPrefixSettled, Visit
  PROVE  QuietPrefixSettled'
<1> SUFFICES ASSUME ~changed', NEW n \in 1 .. l' - 1
             PROVE  Settled(n)'
  BY DEF QuietPrefixSettled
<1>1. ~changed /\ in' = in /\ out' = out /\ flow' = flow
  BY QuietVisitChangesNothing, VisitStep
<1>2. l' = l + 1 /\ l \in Nat
  BY NAssumption DEF Visit, TypeOK
<1>3. CASE n = l
  <2>1. Transfer(l, out[l]) \subseteq in[l]
    BY <1>1, VisitStep
  <2>2. FromSuccessors(l, in) \subseteq out[l]
    BY <1>1, VisitStep DEF Gather
  <2> QED
    BY <1>1, <1>3, <2>1, <2>2
      DEF Settled, Transfer, FromSuccessors, FG_use, FG_def, Succ
<1>4. CASE n \in 1 .. l - 1
  <2>1. Settled(n)
    BY <1>1, <1>4 DEF QuietPrefixSettled
  <2> QED
    BY <1>1, <2>1 DEF Settled, Transfer, FromSuccessors, FG_use, FG_def, Succ
<1> QED
  BY <1>2, <1>3, <1>4

-------------------------------------------------------------------------------
(* The strengthened invariant holds from the start and survives each step. *)
THEOREM Inductive == Spec => []LInv
<1>1. Init => LInv
  <2> SUFFICES ASSUME Init PROVE LInv
    OBVIOUS
  <2>1. TypeOK
    BY InitTyped
  <2>2. \A n \in Nodes : in[n] = {} /\ out[n] = {}
    BY DEF Init
  <2> QED
    BY <2>1, <2>2 DEF Init, LInv, NeverAhead, QuietPrefixSettled
<1>2. LInv /\ [Next]_vars => LInv'
  <2> SUFFICES ASSUME LInv, [Next]_vars PROVE LInv'
    OBVIOUS
  <2>1. TypeOK'
    BY StepTyped DEF LInv
  <2>2. CASE NextPass
    <3>1. in' = in /\ out' = out /\ flow' = flow /\ l' = 1
      BY <2>2 DEF NextPass
    <3>2. NeverAhead'
      BY <3>1 DEF LInv, NeverAhead, Transfer, FromSuccessors, FG_use, FG_def, Succ
    <3>3. QuietPrefixSettled'
      BY <3>1 DEF QuietPrefixSettled
    <3> QED
      BY <2>1, <3>2, <3>3 DEF LInv
  <2>3. CASE Visit
    BY <2>1, <2>3, NeverAheadPreserved, QuietPrefixPreserved DEF LInv
  <2>4. CASE UNCHANGED vars
    BY <2>1, <2>4
      DEF LInv, vars, NeverAhead, QuietPrefixSettled, Settled, Transfer,
          FromSuccessors, FG_use, FG_def, Succ
  <2> QED
    BY <2>2, <2>3, <2>4 DEF Next, Terminating
<1> QED
  BY <1>1, <1>2, PTL DEF Spec

(* In the middle of a sweep, whatever the graph: no set of Live_Liveness   *)
(* is ahead of its equation, and what a quiet sweep has passed is settled. *)
THEOREM SweepsSettled == Spec => []SweepInvariant
<1>1. LInv => SweepInvariant
  BY DEF LInv, SweepInvariant
<1> QED
  BY <1>1, Inductive, PTL

(* Whatever the flow graph, the maps Live_Liveness returns solve the       *)
(* dataflow equations.                                                     *)
THEOREM ReturnsFixpoint == Spec => []FixpointOnReturn
<1>1. LInv => FixpointOnReturn
  <2> SUFFICES ASSUME LInv, Returned, NEW n \in Nodes
               PROVE  /\ in[n] = Transfer(n, out[n])
                      /\ out[n] = FromSuccessors(n, in)
    BY DEF FixpointOnReturn, IsSolution
  <2>1. n \in 1 .. l - 1
    BY NAssumption DEF Returned, Nodes
  <2>2. Settled(n)
    BY <2>1 DEF LInv, QuietPrefixSettled, Returned
  <2> QED
    BY <2>2 DEF LInv, NeverAhead, Settled
<1> QED
  BY <1>1, Inductive, PTL

(* No step of the analysis ever takes a temporary out of a live set.       *)
THEOREM Growth == Spec => OnlyGrows
<1>1. LInv /\ [Next]_vars =>
        [\A n \in Nodes : in[n] \subseteq in'[n] /\ out[n] \subseteq out'[n]]_vars
  BY VisitGrows DEF LInv, Next, NextPass, Terminating, vars
<1> QED
  BY <1>1, Inductive, PTL DEF Spec, OnlyGrows

(* At no point of the analysis does a set hold a temporary that some       *)
(* solution of the equations leaves out; with ReturnsFixpoint, what is     *)
(* returned is the least solution.                                         *)
LEMMA StepBelow ==
  ASSUME TypeOK, BelowEverySolution, [Next]_vars
  PROVE  BelowEverySolution'
<1> SUFFICES ASSUME NEW inMap \in [Nodes -> SUBSET Temps]
             PROVE  (LET outMap == [n \in Nodes |-> FromSuccessors(n, inMap)]
                     IN  IsSolution(inMap, outMap) =>
                           \A n \in Nodes : /\ in[n] \subseteq inMap[n]
                                            /\ out[n] \subseteq outMap[n])'
  BY DEF BelowEverySolution
<1> DEFINE outMap == [n \in Nodes |-> FromSuccessors(n, inMap)]
<1>0. flow' = flow
  BY DEF Next, NextPass, Visit, Terminating, vars
<1>1. SUFFICES ASSUME IsSolution(inMap, outMap)
               PROVE  \A n \in Nodes : /\ in'[n] \subseteq inMap[n]
                                       /\ out'[n] \subseteq outMap[n]
  BY <1>0 DEF IsSolution, Transfer, FromSuccessors, FG_use, FG_def, Succ
<1>2. \A n \in Nodes : in[n] \subseteq inMap[n] /\ out[n] \subseteq outMap[n]
  BY <1>1 DEF BelowEverySolution
<1>3. \A n \in Nodes : /\ inMap[n] = Transfer(n, outMap[n])
                       /\ outMap[n] = FromSuccessors(n, inMap)
  BY <1>1 DEF IsSolution
<1>4. CASE Visit
  <2>1. in'[l] \subseteq inMap[l]
    BY <1>2, <1>3, <1>4, VisitStep DEF Transfer
  <2>2. \A n \in Nodes : in'[n] \subseteq inMap[n]
    BY <1>2, <1>4, <2>1, VisitStep
  <2>3. FromSuccessors(l, in') \subseteq FromSuccessors(l, inMap)
    <3>1. Succ(l) \subseteq Nodes
      BY <1>4, VisitStep, FlowType DEF Succ, FlowGraph
    <3> QED
      BY <2>2, <3>1 DEF FromSuccessors
  <2>4. out'[l] \subseteq outMap[l]
    BY <1>2, <1>3, <1>4, <2>3, VisitStep DEF Gather
  <2> QED
    BY <1>2, <1>4, <2>2, <2>4, VisitStep
<1>5. CASE ~Visit
  BY <1>2, <1>5 DEF Next, NextPass, Terminating, vars
<1> QED
  BY <1>4, <1>5

THEOREM LeastSolution == Spec => []BelowEverySolution
<1>1. Init => BelowEverySolution
  BY DEF Init, BelowEverySolution
<1> QED
  BY <1>1, StepBelow, TypeCorrect, PTL DEF Spec

-------------------------------------------------------------------------------
(* Liveness as paths define it.  A path that is too long for LiveIn passes *)
(* some node twice, and the part between the two passes can be cut out.    *)
Leads(n, t, k) == \E p \in [1 .. k -> Nodes] : p[1] = n /\ UsedAlong(p, k, t)

LEMMA CutPath ==
  ASSUME NEW t, NEW k \in Nat, NEW p \in [1 .. k -> Nodes], UsedAlong(p, k, t),
         NEW x \in 1 .. k, NEW y \in 1 .. k, x < y, p[x] = p[y]
  PROVE  k - (y - x) \in 1 .. k - 1 /\ Leads(p[1], t, k - (y - x))
<1> DEFINE h == k - (y - x)
           q == [i \in 1 .. h |-> IF i <= x THEN p[i] ELSE p[i + (y - x)]]
<1>1. h \in 1 .. k - 1 /\ x <= h
  OBVIOUS
<1>2. q \in [1 .. h -> Nodes] /\ q[1] = p[1]
  <2>1. \A i \in 1 .. h : i <= x \/ i + (y - x) \in 1 .. k
    OBVIOUS
  <2> QED
    BY <1>1, <2>1
<1>3. t \in FG_use(q[h])
  <2>1. q[h] = p[k]
    <3>1. CASE h = x
      BY <1>1, <3>1
    <3>2. CASE h # x
      <4>1. ~(h <= x) /\ h + (y - x) = k
        BY <1>1, <3>2
      <4> QED
        BY <1>1, <4>1
    <3> QED
      BY <3>1, <3>2
  <2> QED
    BY <2>1 DEF UsedAlong
<1>4. ASSUME NEW i \in 1 .. h - 1 PROVE q[i + 1] \in Succ(q[i]) /\ t \notin FG_def(q[i])
  <2>0. i \in 1 .. h /\ i + 1 \in 1 .. h /\ i \in Nat
    BY <1>1
  <2>1. CASE i + 1 <= x
    <3>1. q[i] = p[i] /\ q[i + 1] = p[i + 1] /\ i \in 1 .. k - 1
      BY <1>1, <2>0, <2>1
    <3> QED
      BY <3>1 DEF UsedAlong
  <2>2. CASE i = x
    <3>1. ~(i + 1 <= x) /\ i + 1 + (y - x) = y + 1 /\ y \in 1 .. k - 1
      BY <1>1, <2>0, <2>2
    <3>2. q[i] = p[y] /\ q[i + 1] = p[y + 1]
      BY <2>0, <2>2, <3>1
    <3> QED
      BY <3>1, <3>2 DEF UsedAlong
  <2>3. CASE i > x
    <3>1. /\ ~(i <= x) /\ ~(i + 1 <= x)
          /\ i + 1 + (y - x) = (i + (y - x)) + 1 /\ i + (y - x) \in 1 .. k - 1
      BY <1>1, <2>0, <2>3
    <3>2. q[i] = p[i + (y - x)] /\ q[i + 1] = p[(i + (y - x)) + 1]
      BY <2>0, <3>1
    <3> QED
      BY <3>1, <3>2 DEF UsedAlong
  <2> QED
    BY <2>0, <2>1, <2>2, <2>3
<1> HIDE DEF h, q
<1>5. UsedAlong(q, h, t)
  BY <1>3, <1>4 DEF UsedAlong
<1> QED
  BY <1>1, <1>2, <1>5 DEF Leads, h

LEMMA AnyPathLeads ==
  ASSUME NEW n \in Nodes, NEW t \in Temps, NEW k \in Nat \ {0}, Leads(n, t, k)
  PROVE  t \in LiveIn(n)
<1> DEFINE long == {j \in Nat \ {0} : Leads(n, t, j)}
<1>1. long \subseteq Nat /\ long # {}
  OBVIOUS
<1>2. PICK j \in long : \A i \in long : j <= i
  <2> HIDE DEF long
  <2> QED
    BY <1>1, LeastElement
<1>3. PICK p \in [1 .. j -> Nodes] : p[1] = n /\ UsedAlong(p, j, t)
  BY DEF Leads
<1>4. j <= N
  <2> SUFFICES ASSUME j > N PROVE FALSE
    BY NAssumption
  <2>1. /\ IsFiniteSet(1 .. j) /\ Cardinality(1 .. j) = j
        /\ IsFiniteSet(Nodes) /\ Cardinality(Nodes) = N
    BY NAssumption, FS_Interval DEF Nodes
  <2>2. PICK x, y \in 1 .. j : x # y /\ p[x] = p[y]
    BY <2>1, FS_PigeonHole
  <2>3. PICK a, b \in 1 .. j : a < b /\ p[a] = p[b]
    BY <2>2
  <2>4. j - (b - a) \in 1 .. j - 1 /\ Leads(p[1], t, j - (b - a))
    BY <1>3, <2>3, CutPath
  <2> QED
    BY <1>2, <1>3, <2>4
<1>5. j \in Nodes
  BY <1>4 DEF Nodes
<1> QED
  BY <1>3, <1>5 DEF LiveIn

(* What LiveIn says solves the dataflow equations ...                      *)
LEMMA LiveIsSolution ==
  ASSUME TypeOK
  PROVE  \A n \in Nodes : LiveIn(n) = Transfer(n, LiveOut(n))
<1> SUFFICES ASSUME NEW n \in Nodes PROVE LiveIn(n) = Transfer(n, LiveOut(n))
  OBVIOUS
<1>1. Succ(n) \subseteq Nodes /\ FG_use(n) \subseteq Temps
  BY FlowType DEF Succ, FG_use, FlowGraph
<1>2. ASSUME NEW t \in FG_use(n) PROVE t \in LiveIn(n)
  <2> DEFINE p == [i \in 1 .. 1 |-> n]
  <2>1. p \in [1 .. 1 -> Nodes] /\ p[1] = n /\ UsedAlong(p, 1, t)
    BY <1>2 DEF UsedAlong
  <2> HIDE DEF p
  <2>2. Leads(n, t, 1) /\ t \in Temps /\ 1 \in Nat \ {0}
    BY <1>1, <2>1 DEF Leads
  <2> QED
    BY <2>2, AnyPathLeads
<1>3. ASSUME NEW s \in Succ(n), NEW t \in LiveIn(s), t \notin FG_def(n)
      PROVE  t \in LiveIn(n)
  <2>0. PICK k \in Nodes : Leads(s, t, k)
    BY DEF LiveIn, Leads
  <2>1. PICK p \in [1 .. k -> Nodes] : p[1] = s /\ UsedAlong(p, k, t)
    BY <2>0 DEF Leads
  <2>2. k \in Nat \ {0}
    BY NAssumption DEF Nodes
  <2> DEFINE q == [i \in 1 .. k + 1 |-> IF i = 1 THEN n ELSE p[i - 1]]
  <2>3. q \in [1 .. k + 1 -> Nodes] /\ q[1] = n
    BY <2>2
  <2>4. \A i \in 1 .. k : q[i + 1] = p[i]
    BY <2>2
  <2>5. ASSUME NEW i \in 1 .. (k + 1) - 1
        PROVE  q[i + 1] \in Succ(q[i]) /\ t \notin FG_def(q[i])
    <3>1. CASE i = 1
      BY <1>3, <2>1, <2>2, <2>3, <2>4, <3>1
    <3>2. CASE i # 1
      <4>1. i - 1 \in 1 .. k - 1 /\ i - 1 \in 1 .. k /\ i \in 1 .. k /\ (i - 1) + 1 = i
        BY <2>2, <3>2
      <4>2. q[i + 1] = p[i] /\ q[i] = p[i - 1]
        BY <2>4, <4>1
      <4>3. p[(i - 1) + 1] \in Succ(p[i - 1]) /\ t \notin FG_def(p[i - 1])
        BY <2>1, <4>1 DEF UsedAlong
      <4> QED
        BY <4>1, <4>2, <4>3
    <3> QED
      BY <3>1, <3>2
  <2>6. t \in FG_use(q[k + 1])
    BY <2>1, <2>2, <2>4 DEF UsedAlong
  <2> HIDE DEF q
  <2>7. Leads(n, t, k + 1)
    BY <2>3, <2>5, <2>6 DEF Leads, UsedAlong
  <2> QED
    BY <2>2, <2>7, AnyPathLeads DEF LiveIn
<1>4. ASSUME NEW t \in LiveIn(n), t \notin FG_use(n)
      PROVE  t \in LiveOut(n) /\ t \notin FG_def(n)
  <2>0. PICK k \in Nodes : Leads(n, t, k)
    BY DEF LiveIn, Leads
  <2>1. PICK p \in [1 .. k -> Nodes] : p[1] = n /\ UsedAlong(p, k, t)
    BY <2>0 DEF Leads
  <2>2. k # 1 /\ k \in Nat \ {0}
    BY <1>4, <2>1, NAssumption DEF UsedAlong, Nodes
  <2>3. p[2] \in Succ(n) /\ t \notin FG_def(n) /\ p[2] \in Nodes
    <3>1. 1 \in 1 .. k - 1 /\ 2 \in 1 .. k
      BY <2>2
    <3> QED
      BY <2>1, <3>1 DEF UsedAlong
  <2> DEFINE q == [i \in 1 .. k - 1 |-> p[i + 1]]
  <2>4. q \in [1 .. k - 1 -> Nodes] /\ q[1] = p[2]
    BY <2>2
  <2>5. ASSUME NEW i \in 1 .. (k - 1) - 1
        PROVE  q[i + 1] \in Succ(q[i]) /\ t \notin FG_def(q[i])
    <3>1. i + 1 \in 1 .. k - 1 /\ i \in 1 .. k - 1
      BY <2>2
    <3>2. q[i] = p[i + 1] /\ q[i + 1] = p[(i + 1) + 1]
      BY <3>1
    <3> QED
      BY <2>1, <3>1, <3>2 DEF UsedAlong
  <2>6. t \in FG_use(q[k - 1])
    <3>1. q[k - 1] = p[k]
      BY <2>2
    <3> QED
      BY <2>1, <3>1 DEF UsedAlong
  <2> HIDE DEF q
  <2>7. Leads(p[2], t, k - 1)
    BY <2>4, <2>5, <2>6 DEF Leads, UsedAlong
  <2>8. t \in LiveIn(p[2])
    <3>1. t \in Temps /\ k - 1 \in Nat \ {0}
      BY <2>2 DEF LiveIn
    <3> QED
      BY <2>3, <2>7, <3>1, AnyPathLeads
  <2> QED
    BY <2>3, <2>8 DEF LiveOut
<1> QED
  BY <1>1, <1>2, <1>3, <1>4 DEF Transfer, LiveOut

(* ... and every solution holds at least as much: from the use at its end  *)
(* back along a path, the temporary is in every set.                       *)
LEMMA LiveIsLeast ==
  ASSUME NEW inMap, NEW outMap, IsSolution(inMap, outMap), NEW n \in Nodes
  PROVE  LiveIn(n) \subseteq inMap[n]
<1> SUFFICES ASSUME NEW t \in LiveIn(n) PROVE t \in inMap[n]
  OBVIOUS
<1>0. PICK k \in Nodes : Leads(n, t, k)
  BY DEF LiveIn, Leads
<1>1. PICK p \in [1 .. k -> Nodes] : p[1] = n /\ UsedAlong(p, k, t)
  BY <1>0 DEF Leads
<1>2. k \in Nat \ {0}
  BY NAssumption DEF Nodes
<1> DEFINE back == {i \in Nat : i < k => t \in inMap[p[k - i]]}
<1>3. 0 \in back
  <2>1. k - 0 = k /\ p[k] \in Nodes
    BY <1>2
  <2>2. t \in Transfer(p[k], outMap[p[k]])
    BY <1>1 DEF UsedAlong, Transfer
  <2>3. inMap[p[k]] = Transfer(p[k], outMap[p[k]])
    BY <2>1 DEF IsSolution
  <2> QED
    BY <1>2, <2>1, <2>2, <2>3
<1>4. ASSUME NEW i \in Nat, i \in back PROVE i + 1 \in back
  <2> SUFFICES ASSUME i + 1 < k PROVE t \in inMap[p[k - (i + 1)]]
    OBVIOUS
  <2> DEFINE a == k - (i + 1)
  <2>1. a \in 1 .. k - 1 /\ a \in 1 .. k /\ a + 1 = k - i /\ k - i \in 1 .. k
    BY <1>2
  <2>2. t \in inMap[p[a + 1]]
    BY <1>4, <1>2, <2>1
  <2> HIDE DEF a
  <2>3. p[a + 1] \in Succ(p[a]) /\ t \notin FG_def(p[a]) /\ p[a] \in Nodes
    BY <1>1, <2>1 DEF UsedAlong
  <2>4. t \in outMap[p[a]]
    BY <2>2, <2>3 DEF IsSolution, FromSuccessors
  <2> QED
    BY <2>3, <2>4 DEF IsSolution, Transfer, a
<1> HIDE DEF back
<1>5. Nat \subseteq back
  BY <1>3, <1>4, InductiveSet
<1>6. k - 1 \in back /\ k - 1 < k /\ k - (k - 1) = 1
  BY <1>2, <1>5
<1> QED
  BY <1>1, <1>6 DEF back

(* Whatever the flow graph, what Live_Liveness returns is liveness as      *)
(* paths define it: a temporary is in a set exactly when some path leads   *)
(* from there to a use with no definition on the way.                      *)
THEOREM ReturnsLiveness == Spec => []ExactOnReturn
<1>1. TypeOK /\ FixpointOnReturn /\ BelowEverySolution => ExactOnReturn
  <2> SUFFICES ASSUME TypeOK, FixpointOnReturn, BelowEverySolution, Returned
               PROVE  \A n \in Nodes : in[n] = LiveIn(n) /\ out[n] = LiveOut(n)
    BY DEF ExactOnReturn
  <2> DEFINE inMap == [n \in Nodes |-> LiveIn(n)]
             outMap == [n \in Nodes |-> FromSuccessors(n, inMap)]
  <2>1. \A n \in Nodes : Succ(n) \subseteq Nodes
    BY FlowType DEF Succ, FlowGraph
  <2>2. \A n \in Nodes : FromSuccessors(n, inMap) = LiveOut(n)
    BY <2>1 DEF FromSuccessors, LiveOut
  <2>3. inMap \in [Nodes -> SUBSET Temps]
    BY DEF LiveIn
  <2>4. \A n \in Nodes : inMap[n] = LiveIn(n) /\ outMap[n] = LiveOut(n)
    BY <2>2
  <2>5. IsSolution(inMap, outMap)
    <3>1. \A n \in Nodes : LiveIn(n) = Transfer(n, LiveOut(n))
      BY LiveIsSolution
    <3> HIDE DEF inMap
    <3> QED
      BY <2>2, <2>4, <3>1 DEF IsSolution
  <2>6. \A n \in Nodes : in[n] \subseteq LiveIn(n) /\ out[n] \subseteq LiveOut(n)
    <3> HIDE DEF inMap
    <3>1. \A n \in Nodes : in[n] \subseteq inMap[n] /\ out[n] \subseteq outMap[n]
      BY <2>3, <2>5 DEF BelowEverySolution
    <3> QED
      BY <2>4, <3>1
  <2>7. \A n \in Nodes : LiveIn(n) \subseteq in[n]
    BY LiveIsLeast DEF FixpointOnReturn
  <2>8. \A n \in Nodes : LiveOut(n) \subseteq out[n]
    BY <2>1, <2>7 DEF FixpointOnReturn, IsSolution, FromSuccessors, LiveOut
  <2> QED
    BY <2>6, <2>7, <2>8
<1> QED
  BY <1>1, TypeCorrect, ReturnsFixpoint, LeastSolution, PTL
===============================================================================
