-------------------------------- MODULE MCPipeline --------------------------------
(***************************************************************************)
(* Programs for TLC.  Every one is a frame, with the variables, functions  *)
(* and types that its statements use, around statements put together from  *)
(* small sets of expressions.                                              *)
(***************************************************************************)
EXTENDS Pipeline

N(n) == A_IntExp(n)
Var(x) == A_VarExp(A_SimpleVar(x))
Out(e) == A_CallExp("printInt", <<e>>)

-------------------------------------------------------------------------------
(* x stays in its function; y is used by f and g, which add to it.         *)
Variables == <<A_VarDec("x", "", N(1), 0), A_VarDec("y", "", N(2), 1)>>
AddTo(v, e) == A_AssignExp(A_SimpleVar(v), A_OpExp("plus", Var(v), e))
Functions ==
  A_FunctionDec(<<A_Fundec("f", <<A_Field("n", "int", 0)>>, "int",
                           A_SeqExp(<<AddTo("y", Var("n")), Var("y")>>)),
         A_Fundec("g", <<A_Field("n", "int", 0), A_Field("m", "int", 0)>>, "int",
                A_SeqExp(<<AddTo("y", N(1)), A_OpExp("minus", Var("n"), Var("m"))>>))>>)
Around(es) == A_LetExp(Variables \o <<Functions>>, A_SeqExp(es))

Atoms == {N(0), N(3), Var("x"), Var("y")}
Effects == {A_CallExp("f", <<N(1)>>), A_CallExp("f", <<Var("x")>>),
            A_SeqExp(<<A_AssignExp(A_SimpleVar("x"), N(5)), Var("x")>>),
            A_SeqExp(<<Out(N(8)), A_CallExp("f", <<N(2)>>)>>),
            A_SeqExp(<<AddTo("y", N(1)), Var("y")>>)}
Mistakes == {A_StringExp("a"), A_NilExp, Unit, A_BreakExp}
Exprs == Atoms \union Effects
         \union {A_OpExp("lt", Var("x"), Var("y")),
                 A_IfExp(A_OpExp("lt", Var("x"), N(2)), N(4), A_CallExp("f", <<N(0)>>)),
                 Negation(Var("x")), A_OpExp("minus", Var("y"), N(1)),
                 AND(Var("x"), A_CallExp("f", <<N(3)>>)),
                 OR(A_OpExp("gt", Var("y"), N(1)), Var("x"))}

Binary == {Around(<<Out(A_OpExp(op, l, r)), Out(Var("x")), Out(Var("y"))>>) :
             op \in {"plus", "minus", "divide", "lt", "eq"}, l \in Exprs, r \in Exprs}
Calls == {Around(<<Out(A_CallExp("g", <<l, r>>)), Out(Var("y"))>>) : l \in Exprs,
          r \in Exprs}
Ill == {Around(<<Out(A_OpExp("plus", e, N(1)))>>) : e \in Mistakes}
       \union {Around(<<Out(A_CallExp("g", <<N(1), e>>))>>) : e \in Mistakes}
       \union {Around(<<A_AssignExp(A_SimpleVar("x"), e),
                        Out(Var("x"))>>) : e \in Mistakes}
       \union {Around(<<A_OpExp(op, l, r), Out(N(1))>>) :
                 op \in {"eq", "lt"}, l \in {A_StringExp("a"), N(1), A_NilExp},
                 r \in {A_StringExp("b"), A_StringExp("a"), A_NilExp, Unit}}

(* Conditions, loops and breaks.                                           *)
Bodies == {Out(Var("i")), AddTo("y", Var("i")), A_BreakExp,
           A_IfExp(A_OpExp("eq", Var("i"), N(2)), A_BreakExp, Out(Var("i"))),
           A_IfExp(A_OpExp("eq", Var("i"), N(2)), A_BreakExp, Unit),
           A_LetExp(<<A_FunctionDec(<<A_Fundec("h", <<>>, "", A_BreakExp)>>)>>,
                    A_CallExp("h", <<>>)),
           A_WhileExp(A_OpExp("lt", Var("x"), N(3)),
                      A_SeqExp(<<AddTo("x", N(1)), Out(Var("x")), A_BreakExp>>)),
           Unit}
Bounds == {N(0), N(2), N(MaxInt), Var("y"), A_CallExp("f", <<N(1)>>),
           A_OpExp("lt", Var("x"), N(2))}
For == {Around(<<A_ForExp("i", 0, lo, hi, b), Out(Var("y"))>>) :
          lo \in Bounds \ {N(0)}, hi \in Bounds, b \in Bodies}
Whiles == {Around(<<A_WhileExp(c, A_SeqExp(<<AddTo("x", N(1)), b>>)), Out(Var("x"))>>) :
             c \in {A_OpExp("lt", Var("x"), N(3)),
                    A_OpExp("lt", A_CallExp("f", <<N(1)>>), N(6)),
                    N(1), N(0), A_OpExp("minus", Var("x"), N(4))},
             b \in {A_BreakExp, Out(Var("y")), A_IfExp(Var("x"), A_BreakExp, Unit), Unit,
                    A_IfExp(A_OpExp("gt", Var("x"), N(2)), A_BreakExp, Out(Var("x")))}}
Ifs == {Around(<<A_IfExp(c, Out(t), b), Out(Var("x")), Out(Var("y"))>>) :
          c \in Exprs, t \in {N(1), A_CallExp("f", <<N(7)>>)},
          b \in {Unit, Out(N(2)), A_AssignExp(A_SimpleVar("y"), Var("x"))}}

(* Functions in functions: h sees k's variable, and both see y.            *)
Chain(hbody, kbody) ==
  A_LetExp(Variables \o
        <<A_FunctionDec(<<A_Fundec("k", <<A_Field("n", "int", 0)>>, "int",
            A_LetExp(<<A_VarDec("z", "", Var("n"), 1),
                    A_FunctionDec(<<A_Fundec("h", <<A_Field("m", "int", 0)>>, "int",
                                             hbody)>>)>>, kbody))>>)>>,
        A_SeqExp(<<Out(A_CallExp("k", <<N(2)>>)), Out(Var("y"))>>))
Inner == {A_OpExp("plus", Var("z"), Var("y")),
          A_SeqExp(<<A_AssignExp(A_SimpleVar("z"), Var("m")), Var("y")>>),
          A_IfExp(A_OpExp("lt", Var("m"), N(1)), Var("z"),
                  A_CallExp("k", <<A_OpExp("minus", Var("m"), N(1))>>)),
          A_IfExp(A_OpExp("lt", Var("m"), N(1)), Var("z"),
                  A_CallExp("h", <<A_OpExp("minus", Var("m"), N(1))>>)),
          A_OpExp("minus", N(7), Var("z"))}
Outer == {A_CallExp("h", <<N(1)>>), A_OpExp("plus", A_CallExp("h", <<N(2)>>), Var("z")),
          A_OpExp("minus", Var("z"), A_CallExp("h", <<Var("z")>>)),
          A_IfExp(A_OpExp("lt", Var("z"), N(1)), N(0),
                  A_CallExp("h", <<A_OpExp("minus", Var("z"), N(1))>>))}
Nested == {Chain(h, k) : h \in Inner, k \in Outer}

(* A formal that escapes, in front of or behind one that does not.         *)
Escaping ==
  {A_LetExp(<<A_FunctionDec(<<A_Fundec("e", ps, "int",
       A_LetExp(<<A_FunctionDec(<<A_Fundec("h", <<A_Field("m", "int", 0)>>, "int",
                                           b)>>)>>,
                A_OpExp(op, A_CallExp("h", <<Var("o")>>), Var("n"))))>>)>>,
            Out(A_CallExp("e", <<N(6), N(9)>>))) :
     ps \in {<<A_Field("n", "int", 1), A_Field("o", "int", 0)>>,
             <<A_Field("o", "int", 0), A_Field("n", "int", 1)>>},
     b \in {A_SeqExp(<<AddTo("n", Var("m")), Var("n")>>),
            A_OpExp("minus", Var("m"), Var("n"))},
     op \in {"plus", "minus"}}

(* Records and arrays.                                                     *)
DataTypes == A_TypeDec(<<A_Namety("r", A_RecordTy(<<A_Field("a", "int", 0),
                                                    A_Field("next", "r", 0)>>)),
                     A_Namety("q", A_RecordTy(<<A_Field("b", "int", 0)>>)),
                     A_Namety("t", A_ArrayTy("int"))>>)
NewR(e, n) == A_RecordExp("r", <<A_Efield("a", e), A_Efield("next", n)>>)
Data == <<DataTypes, A_VarDec("v", "r", NewR(N(1), A_NilExp), 0),
          A_VarDec("w", "t", A_ArrayExp("t", N(3), N(4)), 0),
          A_VarDec("u", "r", A_NilExp, 0)>>
Readers == {A_VarExp(A_FieldVar(A_SimpleVar("v"), "a")),
            A_VarExp(A_FieldVar(A_FieldVar(A_SimpleVar("v"), "next"), "a")),
            A_VarExp(A_SubscriptVar(A_SimpleVar("w"), N(1))),
            A_VarExp(A_SubscriptVar(A_SimpleVar("w"),
                                    A_VarExp(A_FieldVar(A_SimpleVar("v"), "a")))),
            A_VarExp(A_FieldVar(A_SimpleVar("v"), "b")),
            A_VarExp(A_SubscriptVar(A_SimpleVar("v"), N(0))),
            A_VarExp(A_SubscriptVar(A_SimpleVar("w"), A_OpExp("lt", N(0), N(1)))),
            A_OpExp("eq", Var("v"), A_NilExp), A_OpExp("eq", Var("v"), Var("u")),
            A_OpExp("lt", Var("v"), Var("u")),
            A_VarExp(A_FieldVar(A_SimpleVar("u"), "a")),
            A_OpExp("eq", Var("v"), Var("w"))}
Writers == {A_AssignExp(A_FieldVar(A_SimpleVar("v"), "a"), N(2)),
            A_AssignExp(A_FieldVar(A_SimpleVar("v"), "next"), Var("v")),
            A_AssignExp(A_SimpleVar("v"), NewR(N(2), Var("v"))),
            A_AssignExp(A_SimpleVar("v"), A_NilExp),
            A_AssignExp(A_FieldVar(A_SimpleVar("v"), "next"), NewR(N(9), A_NilExp)),
            A_AssignExp(A_SubscriptVar(A_SimpleVar("w"),
                                       A_VarExp(A_SubscriptVar(A_SimpleVar("w"), N(0)))),
                                       N(1)),
            A_AssignExp(A_SubscriptVar(A_SimpleVar("w"), N(2)),
                        A_VarExp(A_FieldVar(A_SimpleVar("v"), "a"))),
            A_AssignExp(A_SubscriptVar(A_SimpleVar("w"), N(1)),
                        A_SeqExp(<<A_AssignExp(A_FieldVar(A_SimpleVar("v"), "a"), N(0)),
                                   N(6)>>)),
            A_AssignExp(A_SimpleVar("v"), A_RecordExp("q", <<A_Efield("b", N(1))>>)),
            A_AssignExp(A_SimpleVar("v"), A_RecordExp("r", <<A_Efield("a", N(1))>>)),
            A_AssignExp(A_SimpleVar("v"), NewR(A_OpExp("lt", N(1), N(2)), A_NilExp)),
            A_AssignExp(A_SimpleVar("u"), Var("v"))}
Structures == {A_LetExp(Data, A_SeqExp(<<s1, s2, Out(e)>>)) : s1 \in Writers,
               s2 \in Writers, e \in Readers}

(* Strings are seen by comparing them.                                     *)
Strings == {A_LetExp(<<A_VarDec("s", "string", A_StringExp("a"), 0)>>,
                  A_SeqExp(<<A_AssignExp(A_SimpleVar("s"), e),
                             A_IfExp(A_OpExp(op, Var("s"), A_StringExp("a")), Out(N(1)),
                                     Out(N(2)))>>)) :
              e \in {A_StringExp("a"), A_StringExp("b"), N(1),
                     A_IfExp(N(1), A_StringExp("b"), A_StringExp("a"))},
              op \in {"eq", "ne", "le"}}

(* Three types declared together, and a variable of the first.             *)
TyExprs == {A_NameTy("int"), A_NameTy("a"), A_NameTy("b"), A_NameTy("c"),
            A_ArrayTy("b"), A_ArrayTy("int"), A_RecordTy(<<A_Field("p", "b", 0)>>)}
Inits == {N(1), A_NilExp, A_ArrayExp("a", N(1), N(1)),
          A_RecordExp("a", <<A_Efield("p", N(1))>>)}
TypeGroups == {A_LetExp(<<A_TypeDec(<<A_Namety("a", t1), A_Namety("b", t2),
                                      A_Namety("c", t3)>>),
                       A_VarDec("v", "a", e, 0)>>,
                       A_SeqExp(<<Out(N(1)), Out(A_OpExp("plus", Var("v"), N(1)))>>)) :
                 t1 \in TyExprs, t2 \in TyExprs, t3 \in TyExprs, e \in Inits}

(* A function with a formal of such a type.                                *)
FormalTypes == {A_LetExp(<<A_TypeDec(<<A_Namety("a", t1), A_Namety("b", t2),
                                       A_Namety("c", t3)>>),
                           A_FunctionDec(<<A_Fundec("f", <<A_Field("p", "a", 0)>>, "int",
                                                    N(1))>>)>>, Out(N(1))) :
                  t1 \in TyExprs, t2 \in TyExprs, t3 \in TyExprs}

(* An x that another one hides for a while.  A function behind that uses   *)
(* the first and leaves the mark with the second; one inside uses the      *)
(* second, whose mark is its own.                                          *)
Hidden ==
  {A_LetExp(<<A_VarDec("x", "", N(1), 0), A_VarDec("w", "", hider, 0),
              A_FunctionDec(<<A_Fundec("h", <<A_Field("m", "int", 0)>>, "int", b)>>)>>,
            A_SeqExp(<<Out(A_CallExp("h", <<N(3)>>)), Out(Var("x")), Out(Var("w"))>>)) :
     hider \in {A_LetExp(<<A_VarDec("x", "", N(2), 1)>>, Var("x")),
                A_SeqExp(<<A_ForExp("x", 1, N(1), N(2), Out(Var("x"))), N(4)>>)},
     b \in {A_OpExp("plus", Var("x"), Var("m")), A_SeqExp(<<AddTo("x", Var("m")), N(6)>>),
            A_SeqExp(<<A_AssignExp(A_SimpleVar("x"), Var("m")), Var("x")>>)}}
  \union
  {A_LetExp(<<A_VarDec("x", "", N(1), 0)>>,
            A_SeqExp(<<A_LetExp(<<A_VarDec("x", "", N(2), 1),
                                  A_FunctionDec(<<A_Fundec("h", <<>>, "int", b)>>)>>,
                                Out(A_CallExp("h", <<>>))), Out(Var("x"))>>)) :
     b \in {A_OpExp("plus", Var("x"), N(4)),
            A_SeqExp(<<AddTo("x", N(1)), Var("x")>>)}}

AllPrograms == Binary \union Calls \union Ill \union For \union Whiles \union Ifs
               \union Nested \union Escaping \union Structures \union Strings
               \union TypeGroups \union FormalTypes \union Hidden
===============================================================================
