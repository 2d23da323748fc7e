------------------------------- MODULE Liveness -------------------------------
(***************************************************************************)
(* Live_Liveness (liveness.c): the backward dataflow analysis that gives   *)
(* the register allocator the temporaries live into and out of every       *)
(* instruction of one function.                                            *)
(*                                                                         *)
(* The code sweeps the flow graph's node list, front to back, replacing    *)
(* in[n] and out[n] as it goes, until a whole sweep changes nothing.  One  *)
(* iteration of the inner loop is one step here (Visit); the head of the   *)
(* outer loop is NextPass.  A visit computes in[n] from the OLD out[n],    *)
(* stores it, and only then reads in[s] of the successors, its own new     *)
(* in[n] included when the instruction branches to itself.                 *)
(***************************************************************************)
EXTENDS Integers

CONSTANTS
  N,           \* length of the flow graph's node list
  Temps,       \* the temporaries
  FlowGraphs   \* the flow graphs the analysis may be given

Nodes == 1 .. N

(* A flow graph as the analysis reads it: G_succ, FG_use and FG_def.       *)
FlowGraph == [succ : [Nodes -> SUBSET Nodes],
              use  : [Nodes -> SUBSET Temps],
              def  : [Nodes -> SUBSET Temps]]

ASSUME NAssumption == N \in Nat \ {0}
ASSUME FlowGraphsAssumption == FlowGraphs \subseteq FlowGraph

VARIABLES
  flow,      \* the graph under analysis; never written
  in,        \* in_map
  out,       \* out_map
  l,         \* position in the node list; N + 1 past its end
  changed    \* the outer loop's flag

vars == <<flow, in, out, l, changed>>

Succ(n) == flow.succ[n]
FG_use(n) == flow.use[n]
FG_def(n) == flow.def[n]

(* What is live into n when outSet is live out of it.  (TransferKeepsDefs, *)
(* and every operator below that is introduced as a fault, is a plausible  *)
(* bug that shows a property of this module can fail; no step uses it.)    *)
TransferKeepsDefs(n, outSet) == FG_use(n) \union outSet

Transfer(n, outSet) == FG_use(n) \union (outSet \ FG_def(n))

(* What the successors want, read from an in_map.                          *)
FromSuccessors(n, inMap) == UNION {inMap[s] : s \in Succ(n)}

(* The new out[n].  Fault: start afresh instead of from the old set.       *)
GatherAfresh(n, inMap) == FromSuccessors(n, inMap) \ out[n]

Gather(n, inMap) == out[n] \union FromSuccessors(n, inMap)

(* The flag after a visit of n.  Fault: the sets live in are not compared. *)
ChangedOut(n) == changed \/ out'[n] # out[n]

Changed(n) == changed \/ in'[n] # in[n] \/ out'[n] # out[n]

TypeOK ==
  /\ flow \in FlowGraphs
  /\ in \in [Nodes -> SUBSET Temps]
  /\ out \in [Nodes -> SUBSET Temps]
  /\ l \in 1 .. N + 1
  /\ changed \in BOOLEAN

-------------------------------------------------------------------------------
(* Both maps hold an empty set per node, and the outer loop is entered     *)
(* with changed = TRUE, as if a sweep had just ended.                      *)
Init ==
  /\ flow \in FlowGraphs
  /\ in = [n \in Nodes |-> {}]
  /\ out = [n \in Nodes |-> {}]
  /\ l = N + 1
  /\ changed = TRUE

(* while (changed) { changed = FALSE; l = G_nodes(flow) ...  Faults: the   *)
(* flag is not reset; the list is entered one place too early.             *)
NextPassKeepsFlag ==
  /\ l = N + 1
  /\ changed
  /\ l' = 1
  /\ UNCHANGED <<flow, in, out, changed>>

NextPassFromZero ==
  /\ l = N + 1
  /\ changed
  /\ l' = 0
  /\ changed' = FALSE
  /\ UNCHANGED <<flow, in, out>>

NextPass ==
  /\ l = N + 1
  /\ changed
  /\ l' = 1
  /\ changed' = FALSE
  /\ UNCHANGED <<flow, in, out>>

(* One iteration of the inner loop.                                        *)
Visit ==
  /\ l <= N
  /\ in' = [in EXCEPT ![l] = Transfer(l, out[l])]
  /\ out' = [out EXCEPT ![l] = Gather(l, in')]
  /\ changed' = Changed(l)
  /\ l' = l + 1
  /\ UNCHANGED flow

(* The outer loop's condition is false: Live_Liveness returns the maps.    *)
Returned == l = N + 1 /\ ~changed

Terminating == Returned /\ UNCHANGED vars

Next == NextPass \/ Visit \/ Terminating

Spec == Init /\ [][Next]_vars

(* The compiler is one thread that nothing suspends: the loop body that is *)
(* enabled is the one that runs.                                           *)
FairSpec == Spec /\ WF_vars(NextPass \/ Visit)

-------------------------------------------------------------------------------
(* The reference: a temporary is live at a node when some path of the flow *)
(* graph leads to a use of it and nothing before that use defines it.  A   *)
(* path need not repeat a node, so paths of at most N nodes are enough.    *)
UsedAlong(p, k, t) ==
  /\ \A i \in 1 .. k - 1 : p[i + 1] \in Succ(p[i]) /\ t \notin FG_def(p[i])
  /\ t \in FG_use(p[k])

LiveIn(n) ==
  {t \in Temps : \E k \in Nodes : \E p \in [1 .. k -> Nodes] :
                    p[1] = n /\ UsedAlong(p, k, t)}

LiveOut(n) == UNION {LiveIn(s) : s \in Succ(n)}

(* A solution of the dataflow equations the analysis is after.             *)
IsSolution(inMap, outMap) ==
  \A n \in Nodes : /\ inMap[n] = Transfer(n, outMap[n])
                   /\ outMap[n] = FromSuccessors(n, inMap)

(* The part of the equations a whole quiet sweep is to establish: what the *)
(* node and its successors ask for has arrived.                            *)
Settled(n) == /\ Transfer(n, out[n]) \subseteq in[n]
              /\ FromSuccessors(n, in) \subseteq out[n]

(* In the middle of any sweep no set holds more than its equation allows:  *)
(* the in-place update never runs ahead of what it is computed from.       *)
NeverAhead ==
  \A n \in Nodes : /\ in[n] \subseteq Transfer(n, out[n])
                   /\ out[n] \subseteq FromSuccessors(n, in)

(* While a sweep has reported no change, everything it has passed is       *)
(* settled, although later visits of the same sweep rewrite the maps.      *)
QuietPrefixSettled == ~changed => \A n \in 1 .. l - 1 : Settled(n)

(* In the middle of a sweep, too, no set holds more than its equation      *)
(* gives, and while the flag is down the nodes passed are settled.         *)
SweepInvariant == NeverAhead /\ QuietPrefixSettled

(* What Live_Liveness returns solves the dataflow equations: stopping at   *)
(* the first sweep without a change is not stopping too early.             *)
FixpointOnReturn == Returned => IsSolution(in, out)

(* What it returns is liveness as paths define it, no more (a spurious     *)
(* interference costs registers) and no less (two live temporaries would   *)
(* share one).                                                             *)
ExactOnReturn ==
  Returned => \A n \in Nodes : in[n] = LiveIn(n) /\ out[n] = LiveOut(n)

(* At no moment is a temporary marked live that some solution of the       *)
(* equations leaves out, so the solution returned is the least one.        *)
BelowEverySolution ==
  \A inMap \in [Nodes -> SUBSET Temps] :
    LET outMap == [n \in Nodes |-> FromSuccessors(n, inMap)]
    IN  IsSolution(inMap, outMap) =>
          \A n \in Nodes : in[n] \subseteq inMap[n] /\ out[n] \subseteq outMap[n]

(* No visit takes a temporary out of a set again: the maps only grow,      *)
(* which is what makes the sweeps come to an end.                          *)
OnlyGrows ==
  [][\A n \in Nodes : in[n] \subseteq in'[n] /\ out[n] \subseteq out'[n]]_vars

(* The analysis returns.                                                   *)
Termination == <>Returned
===============================================================================
