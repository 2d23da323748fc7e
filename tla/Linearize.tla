-------------------------------- MODULE Linearize --------------------------------
(***************************************************************************)
(* C_linearize (canon.c): from a tree to a list of statements without SEQ  *)
(* and ESEQ, calls isolated.                                               *)
(*                                                                         *)
(* reorder gets a list of references into a tree and overwrites what they  *)
(* point to; here it takes the expressions and returns what stands in      *)
(* their places (es), with the statement (s) to be done before.  The       *)
(* temporaries it makes are named by the place in the tree, where.         *)
(***************************************************************************)
EXTENDS Tree

Nop == T_Exp(T_Const(0))
isNop(s) == s.k = "EXP" /\ s.e.k = "CONST"

seq(x, y) == CASE isNop(x) -> y
               [] isNop(y) -> x
               [] OTHER -> T_Seq(x, y)

(* Whether y may be evaluated behind x.  Fault: a temporary too.           *)
CommuteTemp(x, y) == isNop(x) \/ y.k \in {"NAME", "CONST", "TEMP"}
commute(x, y) == isNop(x) \/ y.k \in {"NAME", "CONST"}

StmExp(s, e) == [s |-> s, e |-> e]

RECURSIVE reorder(_, _), do_exp(_, _), do_stm(_, _)

(* A call is replaced by a temporary that gets its value.                  *)
reorder(es, where) ==
  IF es = <<>> THEN [s |-> Nop, es |-> <<>>]
  ELSE IF Head(es).k = "CALL"
  THEN LET t == T_Temp(where \o <<Len(es), 1>>)
       IN  reorder(<<T_Eseq(T_Move(t, Head(es)), t)>> \o Tail(es), where)
  ELSE LET hd == do_exp(Head(es), Append(where, Len(es)))
           rest == reorder(Tail(es), where)
           t == T_Temp(where \o <<Len(es), 2>>)
       IN  IF commute(rest.s, hd.e)
           THEN [s |-> seq(hd.s, rest.s), es |-> <<hd.e>> \o rest.es]
           ELSE [s |-> seq(hd.s, seq(T_Move(t, hd.e), rest.s)),
                 es |-> <<t>> \o rest.es]

(* get_call_rlist: the function, then the arguments.                       *)
Parts(call) == <<call.f>> \o call.args
WithParts(call, es) == [call EXCEPT !.f = Head(es), !.args = Tail(es)]

do_exp(e, where) ==
  CASE e.k = "BINOP" -> LET r == reorder(<<e.l, e.r>>, where)
                        IN  StmExp(r.s, [e EXCEPT !.l = r.es[1], !.r = r.es[2]])
    [] e.k = "MEM" -> LET r == reorder(<<e.e>>, where)
                      IN  StmExp(r.s, [e EXCEPT !.e = r.es[1]])
    [] e.k = "ESEQ" -> LET x == do_exp(e.e, Append(where, 1))
                       IN  StmExp(seq(do_stm(e.s, Append(where, 2)), x.s), x.e)
    [] e.k = "CALL" -> LET r == reorder(Parts(e), where)
                       IN  StmExp(r.s, WithParts(e, r.es))
    [] OTHER -> StmExp(Nop, e)

StoreMove(s, where) ==
  LET r == reorder(<<s.dst.e, s.src>>, where)
  IN  seq(r.s, T_Move(T_Mem(r.es[1]), r.es[2]))

(* A call stays the child of an EXP or of a MOVE to a temporary.  The code *)
(* has a case for a MOVE to an ESEQ, which no translation makes.           *)
do_move(s, where) ==
  CASE s.dst.k = "TEMP" /\ s.src.k = "CALL" ->
         LET r == reorder(Parts(s.src), where)
         IN  seq(r.s, [s EXCEPT !.src = WithParts(@, r.es)])
    [] s.dst.k = "TEMP" -> LET r == reorder(<<s.src>>, where)
                           IN  seq(r.s, [s EXCEPT !.src = r.es[1]])
    [] s.dst.k = "MEM" -> StoreMove(s, where)
    [] s.dst.k = "ESEQ" -> do_stm(T_Seq(s.dst.s, [s EXCEPT !.dst = @.e]), where)

do_stm(s, where) ==
  CASE s.k = "SEQ" -> seq(do_stm(s.l, Append(where, 1)), do_stm(s.r, Append(where, 2)))
    [] s.k = "JUMP" -> LET r == reorder(<<s.e>>, where)
                       IN  seq(r.s, [s EXCEPT !.e = r.es[1]])
    [] s.k = "CJUMP" -> LET r == reorder(<<s.l, s.r>>, where)
                        IN  seq(r.s, [s EXCEPT !.l = r.es[1], !.r = r.es[2]])
    [] s.k = "MOVE" -> do_move(s, where)
    [] s.k = "EXP" ->
         LET call == s.e.k = "CALL"
             r == reorder(IF call THEN Parts(s.e) ELSE <<s.e>>, where)
         IN  seq(r.s, T_Exp(IF call THEN WithParts(s.e, r.es) ELSE r.es[1]))
    [] OTHER -> s

RECURSIVE linear(_)
linear(s) == IF s.k = "SEQ" THEN linear(s.l) \o linear(s.r) ELSE <<s>>

C_linearize(s) == linear(do_stm(s, <<0>>))
===============================================================================
