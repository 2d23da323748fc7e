--------------------------------- MODULE MCCalls ---------------------------------
(***************************************************************************)
(* A program for TLC: f is declared in the outermost function, g and h in  *)
(* f, and each may call what it sees.                                      *)
(***************************************************************************)
EXTENDS Calls

CONSTANTS main, f, g, h, p, q, z

MCFns == {main, f, g, h}
MCParent == [k \in {f, g, h} |-> IF k = f THEN main ELSE f]
MCDepth == [k \in MCFns |-> CASE k = main -> 0 [] k = f -> 1 [] OTHER -> 2]
MCEncloses == {<<k, k>> : k \in MCFns} \union ({main} \X {f, g, h}) \union ({f} \X {g, h})
MCOrder == [k \in MCFns |-> CASE k = main -> <<p>> [] k = f -> <<q, z>> [] OTHER -> <<>>]
MCLocals == [k \in MCFns |-> {MCOrder[k][i] : i \in DOMAIN MCOrder[k]}]

(* g has an escaping formal between two in registers.                      *)
MCFormals == [k \in MCFns |-> CASE k = main -> <<>>
                                [] k = f -> <<FALSE>>
                                [] k = g -> <<FALSE, TRUE, FALSE>>
                                [] k = h -> <<>>]
===============================================================================
