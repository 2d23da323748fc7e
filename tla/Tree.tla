---------------------------------- MODULE Tree ----------------------------------
(***************************************************************************)
(* The constructors of intermediate trees (tree.c), as records.  A         *)
(* temporary or a label is a pair: the node of the program it was made for *)
(* and its place among the ones made there.  Temp_newtemp and              *)
(* Temp_newlabel number them from counters; only that they are new matters *)
(***************************************************************************)
EXTENDS Integers, Sequences

T_Seq(l, r) == [k |-> "SEQ", l |-> l, r |-> r]
T_Label(lab) == [k |-> "LABEL", lab |-> lab]
T_Jump(e, to) == [k |-> "JUMP", e |-> e, to |-> to]
T_Cjump(op, l, r, t, f) ==
  [k |-> "CJUMP", op |-> op, l |-> l, r |-> r, t |-> t, f |-> f]
T_Move(dst, src) == [k |-> "MOVE", dst |-> dst, src |-> src]
T_Exp(e) == [k |-> "EXP", e |-> e]

T_Binop(op, l, r) == [k |-> "BINOP", op |-> op, l |-> l, r |-> r]
T_Mem(e) == [k |-> "MEM", e |-> e]
T_Temp(t) == [k |-> "TEMP", t |-> t]
T_Eseq(s, e) == [k |-> "ESEQ", s |-> s, e |-> e]
T_Name(lab) == [k |-> "NAME", lab |-> lab]
T_Const(n) == [k |-> "CONST", n |-> n]
T_Call(f, args) == [k |-> "CALL", f |-> f, args |-> args]

(* A right-leaning sequence of statements. *)
Seqs(ss) == LET chain[i \in 1 .. Len(ss)] ==
                  IF i = Len(ss) THEN ss[i] ELSE T_Seq(ss[i], chain[i + 1])
            IN  chain[1]

(* Made for node id; F_FP and F_RV are the two registers the trees name.   *)
Made(id, i) == <<id, i>>
F_FP == <<0, 1>>
F_RV == <<0, 11>>
NoLabel == <<0, 0>>

F_wordSize == 4

(* Functions of the runtime library.                                       *)
initArray == <<0, 3>>
initRecord == <<0, 4>>
stringEqual == <<0, 5>>
printInt == <<0, 6>>
===============================================================================
