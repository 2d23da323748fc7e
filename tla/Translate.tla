-------------------------------- MODULE Translate --------------------------------
(***************************************************************************)
(* The translation functions Tr_... of translate.c.                        *)
(*                                                                         *)
(* A Tr_exp is "ex" (an expression), "nx" (a statement) or "cx" (a jump    *)
(* that lacks its targets).  A patch list holds pointers to the label      *)
(* fields of the jump: here trues and falses are the names of these        *)
(* fields.  id is the node that labels and temporaries are made for.       *)
(*                                                                         *)
(* A level is the sequence of the nodes of the functions around it, the    *)
(* outermost one first, so that its parent is its front.  An access is a   *)
(* level with a temporary or an offset.                                    *)
(***************************************************************************)
EXTENDS Tree, SequencesExt


Tr_Ex(e) == [k |-> "ex", e |-> e]
Tr_Nx(s) == [k |-> "nx", s |-> s]
Tr_Cx(trues, falses, s, id) ==
  [k |-> "cx", s |-> s, trues |-> trues, falses |-> falses, id |-> id]

doPatch(cx, t, f) ==
  [x \in DOMAIN cx.s |-> IF x \in cx.trues THEN t
                         ELSE IF x \in cx.falses THEN f ELSE cx.s[x]]

JumpTo(lab) == T_Jump(T_Name(lab), lab)

(* r := 1, unless the jump goes to f, which stands in front of r := 0.     *)
ValueOf(e, onTrue, onFalse) ==
  LET r == T_Temp(Made(e.id, 1)) t == Made(e.id, 2) f == Made(e.id, 3)
  IN  T_Eseq(T_Move(r, T_Const(onTrue)),
        T_Eseq(doPatch(e, t, f),
          T_Eseq(T_Label(f),
            T_Eseq(T_Move(r, T_Const(onFalse)),
              T_Eseq(JumpTo(t), T_Eseq(T_Label(t), r))))))

unEx(e) ==
  CASE e.k = "ex" -> e.e
    [] e.k = "nx" -> T_Eseq(e.s, T_Const(0))
    [] OTHER -> ValueOf(e, 1, 0)

unNx(e) ==
  CASE e.k = "ex" -> T_Exp(e.e)
    [] e.k = "nx" -> e.s
    [] OTHER ->
         LET r == T_Temp(Made(e.id, 1)) t == Made(e.id, 2) f == Made(e.id, 3)
         IN  Seqs(<<T_Move(r, T_Const(1)), doPatch(e, t, f), T_Label(f),
                    T_Move(r, T_Const(0)), T_Label(t), T_Exp(r)>>)

(* A constant becomes a jump one way; its operand is a label nothing       *)
(* places, only the patched target counts.  An nx is asserted away:        *)
(* conditions are integers.                                                *)
unCx(e) ==
  CASE e.k = "cx" -> e
    [] e.e.k = "CONST" /\ e.e.n = 0 -> Tr_Cx({}, {"to"}, JumpTo(NoLabel), 0)
    [] e.e.k = "CONST" -> Tr_Cx({"to"}, {}, JumpTo(NoLabel), 0)
    [] OTHER -> Tr_Cx({"t"}, {"f"},
                      T_Cjump("ne", e.e, T_Const(0), NoLabel, NoLabel), 0)

-------------------------------------------------------------------------------
(* F_Exp: the variable itself, in a temporary or at an offset of a frame.  *)
F_Exp(acc, fp) ==
  IF acc.reg THEN T_Temp(acc.t) ELSE T_Mem(T_Binop("plus", fp, T_Const(acc.off)))

Fetches(e, n) == LET mem[i \in 0 .. n] == IF i = 0 THEN e ELSE T_Mem(mem[i - 1])
                 IN  mem[n]

(* One fetch of a static link for each level between the use and the       *)
(* declaration.                                                            *)
Tr_simpleVar(acc, level) ==
  Tr_Ex(F_Exp(acc, Fetches(T_Temp(F_FP), Len(level) - Len(acc.lev))))

Tr_fieldVar(record, offset) ==
  Tr_Ex(T_Mem(T_Binop("plus", record.e, T_Const(F_wordSize * offset))))

Tr_subscriptVar(arr, index) ==
  Tr_Ex(T_Mem(T_Binop("plus", arr.e, T_Binop("mul", index.e, T_Const(F_wordSize)))))

Tr_nilExp == Tr_Ex(T_Const(0))
Tr_intExp(n) == Tr_Ex(T_Const(n))
Tr_stringExp(id) == Tr_Ex(T_Name(Made(id, 1)))

(* The frame of the function the callee is declared in: the caller's own,  *)
(* or that many links up.  A library function gets no link.                *)
Tr_callExp(lab, args, caller, callee, extern) ==
  LET link == Fetches(T_Temp(F_FP), Len(caller) - Len(callee) + 1)
  IN  Tr_Ex(T_Call(T_Name(lab), IF extern THEN args ELSE <<link>> \o args))

Arithmetic == [plus |-> "plus", minus |-> "minus", times |-> "mul", divide |-> "div"]

Tr_opExp(l, op, r, id) ==
  IF op \in DOMAIN Arithmetic
  THEN Tr_Ex(T_Binop(Arithmetic[op], unEx(l), unEx(r)))
  ELSE Tr_Cx({"t"}, {"f"}, T_Cjump(op, unEx(l), unEx(r), NoLabel, NoLabel), id)

(* Both = and <> become the same call.                                     *)
Tr_eqExpString(l, r) == Tr_Ex(T_Call(T_Name(stringEqual), <<l.e, r.e>>))

(* fields[i] is the tree of the i-th field, taken for an expression.       *)
Tr_recordExp(fields, id) ==
  LET r == T_Temp(Made(id, 1))
      alloc == T_Move(r, T_Call(T_Name(initRecord),
                                <<T_Const(F_wordSize * Len(fields))>>))
      put(i) == T_Move(T_Mem(T_Binop("plus", r, T_Const(F_wordSize * (i - 1)))),
                       fields[i].e)
  IN  Tr_Ex(T_Eseq(Seqs(<<alloc>> \o [i \in DOMAIN fields |-> put(i)]), r))

Tr_arrayExp(init, size) ==
  Tr_Ex(T_Call(T_Name(initArray), <<unEx(size), unEx(init)>>))

Tr_seqExp(es) ==
  LET n == Len(es)
  IN  IF n = 1 THEN es[1]
      ELSE Tr_Ex(T_Eseq(Seqs([i \in 1 .. n - 1 |-> unNx(es[i])]), unEx(es[n])))

Tr_assignExp(lvalue, e) == Tr_Nx(T_Move(lvalue.e, unEx(e)))

(* elsee is a sequence, empty for an if without else.                      *)
Tr_ifExp(test, then, elsee, id) ==
  LET r == T_Temp(Made(id, 1))
      t == Made(id, 2) f == Made(id, 3) merge == Made(id, 4)
      branch(lab, es) == Seqs(<<T_Label(lab)>>
                              \o [i \in DOMAIN es |-> T_Move(r, unEx(es[i]))]
                              \o <<JumpTo(merge)>>)
      code == T_Seq(doPatch(unCx(test), t, f),
                    T_Seq(T_Seq(branch(t, <<then>>), branch(f, elsee)),
                          T_Label(merge)))
  IN  IF elsee = <<>> THEN Tr_Nx(code) ELSE Tr_Ex(T_Eseq(code, r))

Tr_whileExp(cond, body, done, id) ==
  LET t == Made(id, 1) test == Made(id, 2)
  IN  Tr_Nx(Seqs(<<T_Label(test), doPatch(unCx(cond), t, done), T_Label(t),
                   unNx(body), JumpTo(test), T_Label(done)>>))

(* hi is evaluated before every round, and the variable grows after the    *)
(* last one too.                                                           *)
Tr_forExp(body, var, lo, hi, done, id) ==
  LET test == Made(id, 1) start == Made(id, 2)
  IN  Tr_Nx(Seqs(<<T_Move(var.e, unEx(lo)), T_Label(test),
                   T_Cjump("le", var.e, unEx(hi), start, done),
                   T_Label(start), unNx(body),
                   T_Move(var.e, T_Binop("plus", var.e, T_Const(1))),
                   JumpTo(test), T_Label(done)>>))

Tr_breakExp(done) == Tr_Nx(JumpTo(done))

(* There is a declaration: see transLet in Semant.                         *)
Tr_letExp(decs, body) ==
  Tr_Ex(T_Eseq(Seqs([i \in DOMAIN decs |-> unNx(decs[i])]), unEx(body)))

Tr_procEntryExit(body, returns) ==
  IF returns THEN T_Move(T_Temp(F_RV), unEx(body)) ELSE unNx(body)
===============================================================================
