---------------------------------- MODULE Munch ----------------------------------
(***************************************************************************)
(* Instruction selection: munchStm, munchExp, munchArgs and popStack       *)
(* (riscv_codegen.c), before registers are allocated.                      *)
(*                                                                         *)
(* An instruction has an opcode, what it defines (d) and uses (s), a       *)
(* number and labels.  munchExp returns the code and the temporary with    *)
(* the value.  The temporary made is named by the place in the list of     *)
(* statements.  fs gives, for the label of a function, which of its        *)
(* formals are in registers: the level that the tables of entries hold.    *)
(***************************************************************************)
EXTENDS Tree, Words, SequencesExt, FiniteSetsExt

F_SP == <<0, 7>>
F_args == [i \in 1 .. 8 |-> <<0, 10 + i>>]
F_callerSaves == F_args

Oper(op, d, s, n) == [op |-> op, d |-> d, s |-> s, n |-> n, to |-> <<>>]
Jump(op, s, labels) == [op |-> op, d |-> <<>>, s |-> s, n |-> 0, to |-> labels]

Opcode == [plus |-> "add", minus |-> "sub", mul |-> "mul", div |-> "div"]

IsConst(e) == e.k = "CONST"
PlusConst(e) == e.k = "BINOP" /\ e.op = "plus" /\ IsConst(e.r)
ConstPlus(e) == e.k = "BINOP" /\ e.op = "plus" /\ IsConst(e.l)

(* Base and displacement of an address, the constant on either side.       *)
Displaced(e) == CASE PlusConst(e) -> <<e.l, e.r.n>>
                  [] ConstPlus(e) -> <<e.r, e.l.n>>
                  [] OTHER -> <<e, 0>>

RECURSIVE munchExp(_, _, _)

(* A constant on either side of a difference is taken for the right one.   *)
munchBinop(e, where, r, fs) ==
  CASE IsConst(e.l) /\ IsConst(e.r) ->
         <<Oper("li", <<r>>, <<>>, Apply(e.op, e.l.n, e.r.n))>>
    [] (IsConst(e.l) \/ IsConst(e.r)) /\ e.op \in {"plus", "minus"} ->
         LET x == munchExp(IF IsConst(e.l) THEN e.r ELSE e.l, Append(where, 1), fs)
             constt == IF IsConst(e.l) THEN e.l.n ELSE e.r.n
         IN  Append(x.code,
                    Oper("addi", <<r>>, <<x.r>>, IF e.op = "plus" THEN constt ELSE -constt))
    [] OTHER ->
         LET x == munchExp(e.l, Append(where, 1), fs)
             y == munchExp(e.r, Append(where, 2), fs)
         IN  x.code \o y.code \o <<Oper(Opcode[e.op], <<r>>, <<x.r, y.r>>, 0)>>

munchMem(e, where, r, fs) ==
  IF IsConst(e.e) THEN <<Oper("lw", <<r>>, <<>>, e.e.n)>>
  ELSE LET at == Displaced(e.e)
           x == munchExp(at[1], Append(where, 1), fs)
       IN  Append(x.code, Oper("lw", <<r>>, <<x.r>>, at[2]))

(* Fault: the register is the one of the argument's place in the call.     *)
HandedByPlace(inReg, i, r) ==
  IF inReg[i]
  THEN <<Oper("mv", <<F_args[i]>>, <<r>>, 0)>>
  ELSE <<Oper("addi", <<F_SP>>, <<F_SP>>, -4), Oper("push", <<F_SP>>, <<r>>, 0)>>

(* In the next argument register or on the stack (the sw of a push has sp  *)
(* as its destination).                                                    *)
Handed(inReg, i, r) ==
  IF inReg[i]
  THEN <<Oper("mv", <<F_args[Cardinality({j \in 1 .. i : inReg[j]})]>>, <<r>>, 0)>>
  ELSE <<Oper("addi", <<F_SP>>, <<F_SP>>, -4), Oper("push", <<F_SP>>, <<r>>, 0)>>

(* Fault: each argument is handed over when it has been evaluated.         *)
munchArgsInTurn(args, inReg, where, fs) ==
  LET x == [i \in DOMAIN inReg |-> munchExp(args[i], Append(where, i), fs)]
      rs == [i \in DOMAIN inReg |-> x[i].r]
  IN  [code |-> FlattenSeq([i \in DOMAIN inReg |-> x[i].code \o Handed(inReg, i, rs[i])]),
       rs |-> rs]

(* The arguments are evaluated from the first to the last; then they are   *)
(* handed over from the last to the first.                                 *)
munchArgs(args, inReg, where, fs) ==
  LET x == [i \in DOMAIN inReg |-> munchExp(args[i], Append(where, i), fs)]
      rs == [i \in DOMAIN inReg |-> x[i].r]
      codes == FlattenSeq([i \in DOMAIN inReg |-> x[i].code])
  IN  [code |-> codes \o FlattenSeq(Reverse([i \in DOMAIN rs |-> Handed(inReg, i, rs[i])])),
       rs |-> rs]

popStack(inReg) ==
  LET n == Cardinality({i \in DOMAIN inReg : ~inReg[i]})
  IN  IF n = 0 THEN <<>> ELSE <<Oper("addi", <<F_SP>>, <<F_SP>>, 4 * n)>>

(* The value stays in the return register, result takes it from there.     *)
munchCall(e, where, result, fs) ==
  LET inReg == fs[e.f.lab]
      a == munchArgs(e.args, inReg, where, fs)
  IN  a.code \o <<[Oper("call", F_callerSaves, a.rs, 0) EXCEPT !.to = <<e.f.lab>>]>>
      \o result \o popStack(inReg)

munchExp(e, where, fs) ==
  LET r == Append(where, 9)
      value(code) == [code |-> code, r |-> r]
  IN  CASE e.k = "BINOP" -> value(munchBinop(e, where, r, fs))
        [] e.k = "MEM" -> value(munchMem(e, where, r, fs))
        [] e.k = "TEMP" -> [code |-> <<>>, r |-> e.t]
        [] e.k = "CONST" -> value(<<Oper("li", <<r>>, <<>>, e.n)>>)
        [] e.k = "NAME" -> value(<<[Oper("la", <<r>>, <<>>, 0) EXCEPT !.to = <<e.lab>>]>>)
        [] e.k = "CALL" -> value(munchCall(e, where, <<>>, fs))

-------------------------------------------------------------------------------
munchMove(s, where, fs) ==
  IF s.dst.k = "MEM"
  THEN LET at == Displaced(s.dst.e)
           x == munchExp(at[1], Append(where, 1), fs)
           y == munchExp(s.src, Append(where, 2), fs)
       IN  x.code \o y.code \o <<Oper("sw", <<>>, <<x.r, y.r>>, at[2])>>
  ELSE IF s.src.k = "CALL"
  THEN munchCall(s.src, where, <<Oper("mv", <<s.dst.t>>, <<F_RV>>, 0)>>, fs)
  ELSE IF IsConst(s.src) THEN <<Oper("li", <<s.dst.t>>, <<>>, s.src.n)>>
  ELSE LET x == munchExp(s.src, where, fs)
       IN  Append(x.code, Oper("mv", <<s.dst.t>>, <<x.r>>, 0))

(* Behind the branch on both labels a jump to the false one.               *)
munchCjump(s, where, fs) ==
  LET x == munchExp(s.l, Append(where, 1), fs)
      y == munchExp(s.r, Append(where, 2), fs)
      r1 == Append(where, 7)
      r2 == Append(where, 8)
  IN  x.code \o y.code
      \o <<Oper("mv", <<r1>>, <<x.r>>, 0), Oper("mv", <<r2>>, <<y.r>>, 0),
           Jump(s.op, <<r1, r2>>, <<s.t, s.f>>), Jump("j", <<>>, <<s.f>>)>>

(* Jumps are to labels: JUMP(e) with another operand is made nowhere.      *)
munchStm(s, where, fs) ==
  CASE s.k = "MOVE" -> munchMove(s, where, fs)
    [] s.k = "JUMP" -> <<Jump("j", <<>>, <<s.to>>)>>
    [] s.k = "CJUMP" -> munchCjump(s, where, fs)
    [] s.k = "LABEL" -> <<Jump("label", <<>>, <<s.lab>>)>>
    [] s.k = "EXP" -> munchExp(s.e, where, fs).code

(* F_codegen: all statements, in order.                                    *)
F_codegen(stms, fs) == FlattenSeq([i \in DOMAIN stms |-> munchStm(stms[i], <<i, 0>>, fs)])
===============================================================================
