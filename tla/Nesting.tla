--------------------------------- MODULE Nesting ---------------------------------
(***************************************************************************)
(* A program as static links see it: functions declared inside each other  *)
(* and the variables of theirs that inner functions use.                   *)
(***************************************************************************)
EXTENDS Integers

CONSTANTS
  Fns,              \* functions; each has a level of its own
  Main,             \* the outermost one
  Parent,           \* of a function: the one it is declared in
  Depth,            \* of a function: how many are around it
  Encloses,         \* pairs <<g, f>>: g is f, or f is declared somewhere in g
  Locals,           \* of a function: its escaping variables
  NoVar,            \* no variable
  Values,
  Fresh             \* the value of a variable before it is assigned

ASSUME NestingAssumption ==
  /\ Main \in Fns
  /\ Parent \in [Fns \ {Main} -> Fns]
  /\ Depth \in [Fns -> Nat]
  /\ Depth[Main] = 0
  /\ \A f \in Fns \ {Main} : Depth[f] = Depth[Parent[f]] + 1
  /\ Encloses \subseteq Fns \X Fns
  /\ \A f \in Fns, g \in Fns :
       <<g, f>> \in Encloses <=> g = f \/ (f # Main /\ <<g, Parent[f]>> \in Encloses)
  /\ Fresh \in Values
===============================================================================
