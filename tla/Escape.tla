-------------------------------- MODULE Escape --------------------------------
(***************************************************************************)
(* Esc_findEscape (escape.c) decides which variables must live in memory:  *)
(* those used by a function nested in the one that declares them.  It      *)
(* walks the syntax tree before semant.c does and resolves names with an   *)
(* environment of its own, which opens a scope for a function only, where  *)
(* semant.c opens one for let and for as well.                             *)
(*                                                                         *)
(* Both meet declarations, uses and the ends of constructs in the same     *)
(* order, so one step is one of these, for both environments at once, and  *)
(* the program is chosen on the way.  The programs are those semant.c      *)
(* accepts: a variable is used where it is visible.                        *)
(***************************************************************************)
EXTENDS Integers, Sequences, SequencesExt, FiniteSetsExt

CONSTANTS
  Names,        \* of variables
  MaxParams,    \* bound: the formals of a function
  MaxDecls,     \* bound: the variables a program declares
  MaxFunctions, \* bound: the functions it declares
  MaxNest       \* bound: the depth of the syntax tree

ASSUME BoundsAssumption == {MaxParams, MaxDecls, MaxFunctions, MaxNest} \subseteq Nat

VARIABLES
  decls,        \* the declarations so far, each with what hides what
  env,          \* the table of escape.c, the newest binder last
  venv,         \* the value environment of semant.c, likewise
  levels,       \* the functions the walk is in, the outermost first
  functions,    \* how many functions there have been
  nest,         \* the constructs the walk is in
  escaped,      \* the declarations whose escape field is TRUE
  needed        \* history: those a nested function has used

vars == <<decls, env, venv, levels, functions, nest, escaped, needed>>

Mark == 0

depth == Len(levels)
Level == IF levels = <<>> THEN 0 ELSE Last(levels)

-------------------------------------------------------------------------------
(* TAB_look: the newest binder of the name, 0 when there is none.          *)
Look(table, x) ==
  LET found == {i \in DOMAIN table : table[i] # Mark /\ decls[table[i]].name = x}
  IN  IF found = {} THEN 0 ELSE table[Max(found)]

(* Binders are popped until the mark is.                                   *)
EndScope(table) ==
  SubSeq(table, 1, Max({i \in DOMAIN table : table[i] = Mark} \union {0}) - 1)

(* EscapeEntry and E_VarEntry: declarations are numbered in the order in   *)
(* which they are met.                                                     *)
Fresh(n) == [i \in 1 .. n |-> Len(decls) + i]

Declaration(x, lev, dep, isFormal) ==
  [name |-> x, level |-> lev, depth |-> dep, formal |-> isFormal,
   hides |-> Look(venv, x)]

In(construct) == nest # <<>> /\ Last(nest) = construct
MayNest == Len(nest) < MaxNest

Init ==
  /\ decls = <<>>
  /\ env = <<>> /\ venv = <<>>
  /\ levels = <<>> /\ functions = 0
  /\ nest = <<>>
  /\ escaped = {} /\ needed = {}

(* A function: its formals, in a scope of their own.                       *)
BeginFunction(params) ==
  /\ In("declarations") /\ MayNest
  /\ functions < MaxFunctions
  /\ Len(decls) + Len(params) <= MaxDecls
  /\ functions' = functions + 1
  /\ levels' = Append(levels, functions')
  /\ decls' = decls \o [i \in DOMAIN params |->
                          Declaration(params[i], functions', depth + 1, TRUE)]
  /\ env' = Append(env, Mark) \o Fresh(Len(params))
  /\ venv' = Append(venv, Mark) \o Fresh(Len(params))
  /\ nest' = Append(nest, "function")
  /\ UNCHANGED <<escaped, needed>>

EndFunction ==
  /\ In("function")
  /\ levels' = Front(levels)
  /\ env' = EndScope(env)
  /\ venv' = EndScope(venv)
  /\ nest' = Front(nest)
  /\ UNCHANGED <<decls, functions, escaped, needed>>

(* A variable is in scope after its initialising expression, in both.      *)
Declare(x) ==
  /\ Len(decls) < MaxDecls
  /\ decls' = Append(decls, Declaration(x, Level, depth, FALSE))
  /\ env' = env \o Fresh(1)
  /\ UNCHANGED <<levels, functions, escaped, needed>>

VarDec(x) ==
  /\ In("declarations")
  /\ Declare(x)
  /\ venv' = venv \o Fresh(1)
  /\ UNCHANGED nest

(* let opens a scope in semant.c only.                                     *)
BeginLet ==
  /\ MayNest
  /\ nest' = Append(nest, "declarations")
  /\ venv' = Append(venv, Mark)
  /\ UNCHANGED <<decls, env, levels, functions, escaped, needed>>

LetBody ==
  /\ In("declarations")
  /\ nest' = Append(Front(nest), "body")
  /\ UNCHANGED <<decls, env, venv, levels, functions, escaped, needed>>

(* Fault: E_endScope is called at the end of a let, which opened no scope. *)
EnvScopeEnded == EndScope(env)
EnvAfterLet == env

EndLet ==
  /\ In("body")
  /\ nest' = Front(nest)
  /\ env' = EnvAfterLet
  /\ venv' = EndScope(venv)
  /\ UNCHANGED <<decls, levels, functions, escaped, needed>>

(* So does for, for its variable; the bounds have been walked before.      *)
BeginFor(x) ==
  /\ MayNest
  /\ Declare(x)
  /\ venv' = Append(venv, Mark) \o Fresh(1)
  /\ nest' = Append(nest, "for")

EndFor ==
  /\ In("for")
  /\ nest' = Front(nest)
  /\ venv' = EndScope(venv)
  /\ UNCHANGED <<decls, env, levels, functions, escaped, needed>>

(* traverseVar marks the declaration escape.c finds when it was made at a  *)
(* smaller depth.  Fault: at another depth than one less, as if it were    *)
(* enough to look at the function around.                                  *)
IsParent(d) == decls[d].depth = depth - 1
IsOuter(d) == decls[d].depth < depth

(* transVar goes by the declaration semant.c finds, and needs it in memory *)
(* when the level is another one.                                          *)
SimpleVar(x) ==
  /\ Look(venv, x) # 0
  /\ escaped' = escaped \union {d \in {Look(env, x)} \ {0} : IsOuter(d)}
  /\ needed' = needed \union {d \in {Look(venv, x)} : decls[d].level # Level}
  /\ UNCHANGED <<decls, env, venv, levels, functions, nest>>

Next ==
  \/ \E params \in SeqOf(Names, MaxParams) : BeginFunction(params)
  \/ EndFunction
  \/ \E x \in Names : VarDec(x)
  \/ BeginLet \/ LetBody \/ EndLet
  \/ \E x \in Names : BeginFor(x)
  \/ EndFor
  \/ \E x \in Names : SimpleVar(x)

Spec == Init /\ [][Next]_vars

-------------------------------------------------------------------------------
(* A name semant.c resolves is known to escape.c, which never finds an     *)
(* older declaration than semant.c: traverseVar follows the entry it looks *)
(* up without a test, and scopes that never end must not uncover anything. *)
VisibleIsFound ==
  \A x \in Names : Look(env, x) >= Look(venv, x)

(* A variable that Tr_simpleVar reaches along static links is in memory,   *)
(* unless the variable of a let or for has hidden it: such a one stays in  *)
(* the environment of escape.c after its scope, and takes the mark.  And   *)
(* only such a one is marked without need.                                 *)
HiddenByVariable(d) ==
  \E e \in DOMAIN decls : decls[e].hides = d /\ ~decls[e].formal

MarkedUnlessHidden ==
  /\ \A d \in needed \ escaped : HiddenByVariable(d)
  /\ \A d \in escaped \ needed : decls[d].hides # 0 /\ ~decls[d].formal
===============================================================================
