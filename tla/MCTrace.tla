-------------------------------- MODULE MCTrace --------------------------------
(***************************************************************************)
(* Lists of statements for TLC: every list of a length with each label     *)
(* once, in the order of their numbers, conditional jumps that have two    *)
(* different labels, and no two plain statements in a row, which would     *)
(* behave as one.                                                          *)
(***************************************************************************)
EXTENDS Trace

CONSTANTS
  Length          \* of the lists

Positions == 1 .. Length

(* The statements between the labels; a statement with an effect is named  *)
(* after its position.                                                     *)
Others ==
  {Plain(0), Jump(Elsewhere)} \union {Jump(n) : n \in 1 .. NLabels}
    \union {Cjump(0, t, f) : t \in 1 .. NLabels, f \in 1 .. NLabels}

Named(s, i) == IF HasEffect(s) THEN [s EXCEPT !.id = i] ELSE s

(* The list with its labels at the positions in at and the statements of   *)
(* rest at the others.                                                     *)
List(at, rest) ==
  LET before(i) == Cardinality({j \in at : j <= i})
      stm(i) == IF i \in at THEN Label(before(i))
                ELSE Named(rest[i - before(i)], i)
  IN  SubSeq([i \in Positions |-> stm(i)], 1, Length)

Lists ==
  {List(at, rest) : at \in kSubset(NLabels, Positions),
                    rest \in [1 .. Length - NLabels -> Others]}

Distinct(p) ==
  /\ \A i \in Positions : p[i].kind = "CJUMP" => p[i].truee # p[i].falsee
  /\ \A i \in 1 .. Length - 1 : p[i].kind = "MOVE" => p[i + 1].kind # "MOVE"

MCPrograms == {p \in Lists : Distinct(p)}
===============================================================================
