-------------------------------- MODULE StaticLink --------------------------------
(***************************************************************************)
(* What static links promise, for programs whose functions are declared    *)
(* inside each other: a variable of an enclosing function is found in the  *)
(* activation that the running one was entered from, by following one link *)
(* for every level between the two.                                        *)
(*                                                                         *)
(* The walk is the chain of fetches that Tr_simpleVar and Tr_callExp       *)
(* (translate.c) build, one fetch a step; how many there are is their loop *)
(* from the level of the use to that of the declaration.                   *)
(***************************************************************************)
EXTENDS Nesting, Sequences

VARIABLES
  frames,           \* the activations: their functions, links and variables
  walk,             \* the walk under way
  got               \* the value fetched last

vars == <<frames, walk, got>>

Top == Len(frames)
Running == frames[Top].fn
Idle == [why |-> "idle", to |-> Main, x |-> NoVar, fn |-> Main, at |-> 0, left |-> 0]
Walking(why) == walk.why = why /\ walk.left = 0

Activation(f, link) == [fn |-> f, link |-> link, val |-> [x \in Locals[f] |-> Fresh]]

Init == /\ frames = <<Activation(Main, 0)>>
        /\ walk = Idle
        /\ got = Fresh

(* To call f: the link is the activation of the function f is declared in. *)
StartCall(f) ==
  /\ walk = Idle
  /\ f # Main /\ <<Parent[f], Running>> \in Encloses
  /\ walk' = [why |-> "call", to |-> Parent[f], x |-> NoVar, fn |-> f, at |-> Top,
              left |-> Depth[Running] - Depth[f] + 1]
  /\ UNCHANGED <<frames, got>>

(* To use the variable x of g.                                             *)
StartUse(g, x) ==
  /\ walk = Idle
  /\ <<g, Running>> \in Encloses /\ x \in Locals[g]
  /\ walk' = [why |-> "use", to |-> g, x |-> x, fn |-> Main, at |-> Top,
              left |-> Depth[Running] - Depth[g]]
  /\ UNCHANGED <<frames, got>>

Follow ==
  /\ walk.left > 0
  /\ walk' = [walk EXCEPT !.at = frames[walk.at].link, !.left = @ - 1]
  /\ UNCHANGED <<frames, got>>

Enter ==
  /\ Walking("call")
  /\ frames' = Append(frames, Activation(walk.fn, walk.at))
  /\ walk' = Idle
  /\ UNCHANGED got

Load ==
  /\ Walking("use")
  /\ got' = frames[walk.at].val[walk.x]
  /\ walk' = Idle
  /\ UNCHANGED frames

Store(v) ==
  /\ Walking("use")
  /\ frames' = [frames EXCEPT ![walk.at].val[walk.x] = v]
  /\ walk' = Idle
  /\ UNCHANGED got

Return ==
  /\ walk = Idle /\ Top > 1
  /\ frames' = SubSeq(frames, 1, Top - 1)
  /\ UNCHANGED <<walk, got>>

Next == \/ \E f \in Fns : StartCall(f)
        \/ \E g \in Fns : \E x \in Locals[g] : StartUse(g, x)
        \/ Follow \/ Enter \/ Load
        \/ \E v \in Values : Store(v)
        \/ Return

Spec == Init /\ [][Next]_vars

-------------------------------------------------------------------------------
(* The activation a frame links to is an older one of the function around  *)
(* its own.                                                                *)
LinksToParent ==
  \A i \in 2 .. Top :
    /\ frames[i].link \in 1 .. i - 1
    /\ frames[i].fn # Main
    /\ frames[frames[i].link].fn = Parent[frames[i].fn]

(* A walk is on its way up to the function it looks for, and has it when   *)
(* no fetch is left: the loops of translate.c count right.                 *)
WalkArrives ==
  walk.why # "idle" =>
    /\ walk.at \in 1 .. Top
    /\ <<walk.to, frames[walk.at].fn>> \in Encloses
    /\ Depth[frames[walk.at].fn] = Depth[walk.to] + walk.left
    /\ walk.left = 0 => frames[walk.at].fn = walk.to
===============================================================================
