---------------------------------- MODULE Spill ----------------------------------
(***************************************************************************)
(* RewriteProgram (color.c): temporaries that found no register live in    *)
(* the frame from here on.  An instruction that uses one gets a fetch in   *)
(* front, one that defines it a store behind, each with a temporary of its *)
(* own; the list that comes out goes through the allocation again.         *)
(***************************************************************************)
EXTENDS Munch

(* stack_size of the frame, from what the function reaches from fp: the    *)
(* static link, the formals and the variables in memory.                   *)
Slots(code, formals) ==
  LET reached == {i \in ToSet(code) : i.op \in {"lw", "sw"} /\ i.s # <<>> /\ i.s[1] = F_FP}
      offs == {-i.n : i \in reached} \union {-a.off : a \in {b \in ToSet(formals) : ~b.reg}}
  IN  1 + Max(offs \union {0}) \div F_wordSize

Renamed(ts, v, vi) == [j \in DOMAIN ts |-> IF ts[j] = v THEN vi ELSE ts[j]]

Fetch(vi, off) == Oper("lw", <<vi>>, <<F_FP>>, off)

(* sw `s0, off(`d0): the frame pointer is the destination.                 *)
Store(vi, off) == Oper("store", <<F_FP>>, <<vi>>, off)

(* The slot and the place of the instruction name its new temporaries.     *)
WithMemory(i, v, off, n) ==
  LET used == v \in ToSet(i.s)
      defined == v \in ToSet(i.d)
      forUse == <<off, n, 1>>
      forDef == <<off, n, 2>>
  IN  (IF used THEN <<Fetch(forUse, off)>> ELSE <<>>)
      \o <<[i EXCEPT !.s = Renamed(@, v, forUse), !.d = Renamed(@, v, forDef)]>>
      \o (IF defined THEN <<Store(forDef, off)>> ELSE <<>>)

RewriteOne(code, v, off) ==
  FlattenSeq([n \in DOMAIN code |-> WithMemory(code[n], v, off, n)])

(* One temporary after the other, each with the next slot.                 *)
RewriteProgram(code, spilled, formals) ==
  LET size == Slots(code, formals)
      step[n \in 0 .. Len(spilled)] ==
        IF n = 0 THEN code
        ELSE RewriteOne(step[n - 1], spilled[n], -F_wordSize * (size + n - 1))
  IN  step[Len(spilled)]
===============================================================================
