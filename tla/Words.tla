---------------------------------- MODULE Words ----------------------------------
(***************************************************************************)
(* Machine words: the integers -MaxInt - 1 .. MaxInt, with the overflow of *)
(* the target, and the operations and comparisons on them.                 *)
(***************************************************************************)
EXTENDS Integers

CONSTANT MaxInt
ASSUME WordsAssumption == MaxInt \in Nat \ {0}

Word(n) == ((n + MaxInt + 1) % (2 * MaxInt + 2)) - MaxInt - 1

Magnitude(n) == IF n < 0 THEN -n ELSE n
Quotient(l, r) == LET q == Magnitude(l) \div Magnitude(r)
                  IN  IF (l < 0) = (r < 0) THEN q ELSE -q

(* The target's quotient of anything by zero is -1.                        *)
Apply(op, l, r) ==
  Word(CASE op \in {"plus", "add", "addi"} -> l + r
         [] op \in {"minus", "sub"} -> l - r
         [] op = "mul" -> l * r
         [] op = "div" -> IF r = 0 THEN -1 ELSE Quotient(l, r))

Holds(rel, l, r) ==
  CASE rel = "eq" -> l = r
    [] rel = "ne" -> l # r
    [] rel = "lt" -> l < r
    [] rel = "le" -> l <= r
    [] rel = "gt" -> l > r
    [] rel = "ge" -> l >= r
===============================================================================
