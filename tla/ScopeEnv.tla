------------------------------- MODULE ScopeEnv -------------------------------
(***************************************************************************)
(* What symbol.h promises of an S_table: a mapping from symbols to values  *)
(* whose scopes nest.  Entering a binding shadows the symbol's previous    *)
(* one; ending a scope brings back exactly the mapping that held when the  *)
(* scope began.                                                            *)
(***************************************************************************)
EXTENDS Sequences, Naturals

CONSTANTS Symbols, Values, Unbound

VARIABLE env      \* the mapping of each open scope, innermost last

Visible == env[Len(env)]

Init == env = << [s \in Symbols |-> Unbound] >>

Enter(s, v) == env' = [env EXCEPT ![Len(env)][s] = v]

BeginScope == env' = Append(env, Visible)

EndScope == Len(env) > 1 /\ env' = SubSeq(env, 1, Len(env) - 1)

Next ==
  \/ \E s \in Symbols, v \in Values : Enter(s, v)
  \/ BeginScope
  \/ EndScope

Spec == Init /\ [][Next]_env
===============================================================================
