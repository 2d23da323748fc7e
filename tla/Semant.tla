---------------------------------- MODULE Semant ----------------------------------
(***************************************************************************)
(* The semantic analysis (semant.c), which checks an abstract syntax tree  *)
(* and builds its intermediate tree on the way.                            *)
(*                                                                         *)
(* The i-th child of node id is Child(id, i).                              *)
(*                                                                         *)
(* The environment holds the two symbol tables (v, t), what the types      *)
(* point to (st), the level, the break label, breakLevel, and whether a    *)
(* write behind an object is fatal (wild).  Its being a value makes the    *)
(* end of a scope the return to the caller, which ScopeTable justifies.    *)
(* A result is the pair of transExp with the        *)
(* fragments made, or how the compiler stopped: with EM_error, with a      *)
(* failed assertion or a bad pointer ("crash"), or not at all ("hang").    *)
(***************************************************************************)
EXTENDS Absyn, Translate, FiniteSets, TLC

Child(id, i) == 8 * id + i

Ty(k, id) == [k |-> k, id |-> id]
Ty_Int == Ty("int", 0)
Ty_String == Ty("string", 0)
Ty_Nil == Ty("nil", 0)
Ty_Void == Ty("void", 0)
Null == Ty("null", 0)

Stops == {"error", "crash", "hang"}

Stopped(why) == [stop |-> why, ty |-> Ty_Void, ex |-> Tr_nilExp, frags |-> {}]
expTy(ex, ty) == [stop |-> "", ty |-> ty, ex |-> ex, frags |-> {}]
Ok == expTy(Tr_nilExp, Ty_Void)
ErrorIf(b) == IF b THEN Stopped("error") ELSE Ok
CrashIf(b) == IF b THEN Stopped("crash") ELSE Ok
StopOf(ty) == IF ty.k \in Stops THEN Stopped(ty.k) ELSE Ok

(* Translations and checks in the order they are made: the first one that  *)
(* stops, or res with the fragments of all.                                *)
Join(steps, res) ==
  LET bad == SelectSeq(steps, LAMBDA s : s.stop # "")
  IN  IF bad # <<>> THEN bad[1]
      ELSE [res EXCEPT !.frags = @ \union UNION {steps[i].frags : i \in DOMAIN steps}]

S_look(table, x) == IF x \in DOMAIN table THEN table[x] ELSE Null

(* The chain of names may come back to its start, which is an error, or go *)
(* round without it.  A name whose declaration is not done yet points      *)
(* nowhere.                                                                *)
RECURSIVE Follow(_, _, _, _)
Follow(st, start, ty, n) ==
  LET next == st[ty]
  IN  CASE next = start -> Ty("error", 0)
        [] next = Null -> Ty("crash", 0)
        [] next.k # "name" -> next
        [] n = 0 -> Ty("hang", 0)
        [] OTHER -> Follow(st, start, next, n - 1)

(* Fault: no check for the start.                                          *)
NeverError(st, ty) ==
  CASE ty = Null -> Ty("error", 0)
    [] ty.k = "name" -> Follow(st, Null, ty, Cardinality(DOMAIN st))
    [] OTHER -> ty

actual_ty(st, ty) ==
  CASE ty = Null -> Ty("error", 0)
    [] ty.k = "name" -> Follow(st, ty, ty, Cardinality(DOMAIN st))
    [] OTHER -> ty

makeFormalTyList(env, params) ==
  [i \in DOMAIN params |-> actual_ty(env.st, S_look(env.t, params[i].typ))]

(* The place of a field in a record, 0 if it has none of that name.        *)
fieldOffset(st, ty, name) ==
  IF ty.k = "record" THEN SelectInSeq(st[ty], LAMBDA f : f.name = name) ELSE 0

fieldType(st, ty, name) ==
  LET i == fieldOffset(st, ty, name)
  IN  IF i = 0 THEN Ty("error", 0) ELSE actual_ty(st, st[ty][i].ty)

(* A local variable: F_allocLocal.                                         *)
Access(env, id, esc) ==
  [lev |-> env.lev, reg |-> esc = 0, t |-> Made(id, 1), off |-> -(F_wordSize * esc)]

VarEntry(ty, acc) == [k |-> "var", ty |-> ty, acc |-> acc]
IsVar(entry) == entry.k = "var"
IsFun(entry) == entry.k = "fun"

(* nil goes where a record is expected.  Fault: anywhere.                  *)
NilAnywhere(from, to) == from.k = "nil"
NilFor(from, to) == from.k = "nil" /\ to.k = "record"
SameKind(from, to) == NilFor(from, to) \/ from.k = to.k
SameType(from, to) == NilFor(from, to) \/ from = to

-------------------------------------------------------------------------------
RECURSIVE transVar(_, _, _), transExp(_, _, _), transDecs(_, _, _, _)

(* For a variable in a register that an inner function uses Tr_simpleVar   *)
(* writes the link behind the temporary's number, where nothing is         *)
(* allocated.  The write is fatal or not (env.wild); if not, the variable  *)
(* is taken for a temporary of the inner function.                         *)
transSimple(env, v) ==
  LET x == S_look(env.v, v.x)
      ty == actual_ty(env.st, x.ty)
  IN  IF ~IsVar(x) THEN Stopped("error")
      ELSE Join(<<StopOf(ty), CrashIf(env.wild /\ x.acc.reg /\ x.acc.lev # env.lev)>>,
                expTy(Tr_simpleVar(x.acc, env.lev), ty))

transField(env, v, id) ==
  LET var == transVar(env, v.v, Child(id, 1))
      ty == fieldType(env.st, var.ty, v.f)
  IN  Join(<<var, ErrorIf(var.ty.k # "record"), StopOf(ty)>>,
           expTy(Tr_fieldVar(var.ex, fieldOffset(env.st, var.ty, v.f) - 1), ty))

(* The subscript is translated without a break label, and its tree must be *)
(* an expression, which that of a comparison is not.                       *)
transSubscript(env, v, id) ==
  LET var == transVar(env, v.v, Child(id, 1))
      index == transExp([env EXCEPT !.brk = NoLabel], v.e, Child(id, 2))
      ty == IF var.ty.k = "array" THEN actual_ty(env.st, env.st[var.ty]) ELSE Ty_Int
  IN  Join(<<var, index, ErrorIf(var.ty.k # "array"), ErrorIf(index.ty.k # "int"),
             CrashIf(index.ex.k # "ex"), StopOf(ty)>>,
           expTy(Tr_subscriptVar(var.ex, index.ex), ty))

transVar(env, v, id) ==
  CASE v.k = "simple" -> transSimple(env, v)
    [] v.k = "field" -> transField(env, v, id)
    [] v.k = "subscript" -> transSubscript(env, v, id)

-------------------------------------------------------------------------------
transCall(env, a, id) ==
  LET f == S_look(env.v, a.f)
      n == IF Len(a.args) < Len(f.formals) THEN Len(a.args) ELSE Len(f.formals)
      arg == [i \in 1 .. n |-> transExp(env, a.args[i], Child(id, i))]
      steps == [i \in 1 .. 2 * n |->
                  IF i % 2 = 1 THEN arg[(i + 1) \div 2]
                  ELSE ErrorIf(~SameType(arg[i \div 2].ty, f.formals[i \div 2]))]
      ty == actual_ty(env.st, f.result)
  IN  IF ~IsFun(f) THEN Stopped("error")
      ELSE Join(steps \o <<ErrorIf(Len(a.args) # Len(f.formals)), StopOf(ty)>>,
                expTy(Tr_callExp(f.lab, [i \in 1 .. n |-> unEx(arg[i].ex)],
                                 env.lev, f.lev, f.extern), ty))

(* Two sides of a comparison must be of one kind.  Strings can be compared *)
(* for equality only, by assertion.                                        *)
transOp(env, a, id) ==
  LET l == transExp(env, a.l, Child(id, 1))
      r == transExp(env, a.r, Child(id, 2))
      code == expTy(Tr_opExp(l.ex, a.op, r.ex, id), Ty_Int)
  IN  CASE a.op \in DOMAIN Arithmetic ->
             Join(<<l, r, ErrorIf(l.ty.k # "int" \/ r.ty.k # "int")>>, code)
        [] NilFor(l.ty, r.ty) \/ NilFor(r.ty, l.ty) -> Join(<<l, r>>, code)
        [] l.ty.k = "string" ->
             Join(<<l, r, ErrorIf(r.ty.k # "string"), CrashIf(a.op \notin {"eq", "ne"})>>,
                  expTy(Tr_eqExpString(l.ex, r.ex), Ty_Int))
        [] OTHER -> Join(<<l, r, ErrorIf(l.ty.k # r.ty.k),
                           ErrorIf(l.ty.k \notin {"int", "record", "array"})>>, code)

(* Of several initialisations of a field the last one counts, and a field  *)
(* without one is whatever the array held.                                 *)
transRecord(env, a, id) ==
  LET ty == actual_ty(env.st, S_look(env.t, a.typ))
      init == [i \in DOMAIN a.fields |-> transExp(env, a.fields[i].e, Child(id, i))]
      want(i) == fieldType(env.st, ty, a.fields[i].name)
      steps == [i \in 1 .. 3 * Len(init) |->
                  LET j == (i + 2) \div 3
                  IN  CASE i % 3 = 1 -> StopOf(want(j))
                        [] i % 3 = 2 -> init[j]
                        [] OTHER -> ErrorIf(~SameType(init[j].ty, want(j)))]
      fields == IF ty.k = "record" THEN env.st[ty] ELSE <<>>
      given(i) == {j \in DOMAIN init : a.fields[j].name = fields[i].name}
      last(i) == init[CHOOSE j \in given(i) : \A m \in given(i) : m <= j].ex
  IN  Join(<<StopOf(ty), ErrorIf(ty.k # "record")>> \o steps \o
           <<CrashIf(fields = <<>>),
             CrashIf(\E i \in DOMAIN fields :
                       given(i) = {} \/ last(i).k # "ex")>>,
           expTy(Tr_recordExp([i \in DOMAIN fields |-> last(i)], id), ty))

transSeq(env, a, id) ==
  LET es == [i \in DOMAIN a.es |-> transExp(env, a.es[i], Child(id, i))]
  IN  IF es = <<>> THEN Stopped("error")
      ELSE Join(es, expTy(Tr_seqExp([i \in DOMAIN es |-> es[i].ex]), es[Len(es)].ty))

(* Only the kinds are compared.                                            *)
transAssign(env, a, id) ==
  LET lvalue == transVar(env, a.v, Child(id, 1))
      e == transExp(env, a.e, Child(id, 2))
  IN  Join(<<lvalue, e, ErrorIf(~SameKind(e.ty, lvalue.ty))>>,
           expTy(Tr_assignExp(lvalue.ex, e.ex), Ty_Void))

transIf(env, a, id) ==
  LET test == transExp(env, a.c, Child(id, 1))
      then == transExp(env, a.t, Child(id, 2))
      elsee == transExp(env, a.e, Child(id, 3))
      ty == actual_ty(env.st, IF NilFor(elsee.ty, then.ty) THEN then.ty ELSE elsee.ty)
      head == <<CrashIf(a.c = Unit \/ a.t = Unit), test,
                ErrorIf(test.ty.k # "int"), then>>
  IN  IF a.e = Unit
      THEN Join(Append(head, ErrorIf(then.ty.k # "void")),
                expTy(Tr_ifExp(test.ex, then.ex, <<>>, id), Ty_Void))
      ELSE Join(head \o <<elsee, ErrorIf(~(SameKind(then.ty, elsee.ty)
                                            \/ NilFor(elsee.ty, then.ty)))>>,
                expTy(Tr_ifExp(test.ex, then.ex, <<elsee.ex>>, id), ty))

(* Fault: the label of the loop is not handed on.                          *)
LoopWithoutLabel(env, done) == [env EXCEPT !.loops = @ + 1]
InLoop(env, done) == [env EXCEPT !.brk = done, !.loops = @ + 1]

transWhile(env, a, id) ==
  LET done == Made(id, 3)
      test == transExp(env, a.c, Child(id, 1))
      body == transExp(InLoop(env, done), a.b, Child(id, 2))
  IN  Join(<<CrashIf(a.c = Unit), test, ErrorIf(test.ty.k # "int"), body,
             ErrorIf(body.ty.k # "void")>>,
           expTy(Tr_whileExp(test.ex, body.ex, done, id), Ty_Void))

transFor(env, a, id) ==
  LET done == Made(id, 3)
      acc == Access(env, Child(id, 4), a.esc)
      lo == transExp(env, a.lo, Child(id, 1))
      hi == transExp(env, a.hi, Child(id, 2))
      body == transExp([InLoop(env, done) EXCEPT !.v = (a.x :> VarEntry(lo.ty, acc)) @@ @],
                       a.b, Child(id, 3))
      var == Tr_simpleVar(acc, env.lev)
  IN  Join(<<CrashIf(Unit \in {a.lo, a.hi, a.b}), lo, hi, ErrorIf(lo.ty.k # "int"),
             ErrorIf(hi.ty.k # "int"), body, ErrorIf(body.ty.k # "void")>>,
           expTy(Tr_forExp(body.ex, var, lo.ex, hi.ex, done, id), Ty_Void))

(* The label is that of the loop, or of none inside a subscript.           *)
transBreak(env) ==
  Join(<<ErrorIf(env.loops <= 0), CrashIf(env.brk = NoLabel)>>,
       expTy(Tr_breakExp(env.brk), Ty_Void))

(* Without declarations the last one, decs[-1], is read all the same.      *)
transLet(env, a, id) ==
  LET ds == transDecs(env, a.ds, Child(id, 1), 1)
      body == transExp(ds.env, a.b, Child(id, 2))
  IN  Join(ds.steps \o <<body, CrashIf(a.ds = <<>>)>>,
           expTy(Tr_letExp(ds.code, body.ex), body.ty))

transArray(env, a, id) ==
  LET ty == actual_ty(env.st, S_look(env.t, a.typ))
      size == transExp(env, a.size, Child(id, 1))
      init == transExp(env, a.init, Child(id, 2))
  IN  Join(<<StopOf(ty), ErrorIf(ty.k # "array"), size, ErrorIf(size.ty.k # "int"),
             init, ErrorIf(ty.k = "array" /\ init.ty # env.st[ty])>>,
           expTy(Tr_arrayExp(init.ex, size.ex), ty))

transExp(env, a, id) ==
  CASE a.k = "unit" -> expTy(Tr_nilExp, Ty_Void)
    [] a.k = "nil" -> expTy(Tr_nilExp, Ty_Nil)
    [] a.k = "int" -> expTy(Tr_intExp(a.n), Ty_Int)
    [] a.k = "string" ->
         [expTy(Tr_stringExp(id), Ty_String) EXCEPT
            !.frags = {[k |-> "string", lab |-> Made(id, 1), s |-> a.s]}]
    [] a.k = "var" -> transVar(env, a.v, id)
    [] a.k = "call" -> transCall(env, a, id)
    [] a.k = "op" -> transOp(env, a, id)
    [] a.k = "record" -> transRecord(env, a, id)
    [] a.k = "seq" -> transSeq(env, a, id)
    [] a.k = "assign" -> transAssign(env, a, id)
    [] a.k = "if" -> transIf(env, a, id)
    [] a.k = "while" -> transWhile(env, a, id)
    [] a.k = "for" -> transFor(env, a, id)
    [] a.k = "break" -> transBreak(env)
    [] a.k = "let" -> transLet(env, a, id)
    [] a.k = "array" -> transArray(env, a, id)

-------------------------------------------------------------------------------
(* First all heads, each at a level of its own and with the types of its   *)
(* formals looked through, then the bodies; the break label and breakLevel *)
(* are those around the declaration.                                       *)
FunHead(env, f, id) ==
  [k |-> "fun", formals |-> makeFormalTyList(env, f.params),
   result |-> IF f.result = "" THEN Ty_Void ELSE S_look(env.t, f.result),
   lab |-> Made(id, 1), lev |-> Append(env.lev, id), extern |-> FALSE]

Heads(env, fs, id) ==
  LET enter[i \in 0 .. Len(fs)] ==
        IF i = 0 THEN env.v
        ELSE (fs[i].name :> FunHead(env, fs[i], Child(id, i))) @@ enter[i - 1]
  IN  [env EXCEPT !.v = enter[Len(fs)]]

(* The formals, behind the static link, have the accesses F_newFrame gave. *)
Formals(env, f, id) ==
  [j \in DOMAIN f.params |-> Access([env EXCEPT !.lev = Append(@, id)],
                                    Child(id, j), f.params[j].esc)]

FunctionBody(env, f, id) ==
  LET head == env.v[f.name]
      accs == Formals(env, f, id)
      enter[j \in 0 .. Len(f.params)] ==
        IF j = 0 THEN env.v
        ELSE (f.params[j].name :> VarEntry(head.formals[j], accs[j])) @@ enter[j - 1]
      body == transExp([env EXCEPT !.v = enter[Len(f.params)], !.lev = head.lev],
                       f.body, Child(id, 7))
      want == actual_ty(env.st, head.result)
  IN  Join(<<body, StopOf(want), ErrorIf(~SameKind(body.ty, want))>>,
           [Ok EXCEPT !.frags =
              {[k |-> "proc", lab |-> head.lab, formals |-> accs,
                stm |-> Tr_procEntryExit(body.ex, body.ty.k # "void")]}])

transFunctions(env, fs, id) ==
  LET inner == Heads(env, fs, id)
      formals(f) == makeFormalTyList(env, f.params)
      heads == [i \in DOMAIN fs |->
                  [j \in DOMAIN fs[i].params |-> StopOf(formals(fs[i])[j])]]
  IN  [env |-> inner,
       steps |-> FlattenSeq(heads)
                 \o [i \in DOMAIN fs |-> FunctionBody(inner, fs[i], Child(id, i))],
       ex |-> Tr_nilExp]

(* A declared type is compared by identity for arrays and records; the     *)
(* variable gets the type of its value, unless that is nil.                *)
transVarDec(env, d, id) ==
  LET e == transExp(env, d.init, Child(id, 1))
      ty == actual_ty(env.st, S_look(env.t, d.typ))
      acc == Access(env, id, d.esc)
      check == IF d.typ = "" THEN <<ErrorIf(e.ty.k = "nil")>>
               ELSE <<StopOf(ty), ErrorIf(~SameType(e.ty, ty))>>
      own == IF d.typ # "" /\ NilFor(e.ty, ty) THEN ty ELSE e.ty
  IN  [env |-> [env EXCEPT !.v = (d.x :> VarEntry(own, acc)) @@ @],
       steps |-> <<e>> \o check,
       ex |-> Tr_assignExp(Tr_simpleVar(acc, env.lev), e.ex)]

(* What a declared name stands for.  The element type of an array is       *)
(* looked through at once, the types of fields when they are used.         *)
transTy(env, ty, id) ==
  CASE ty.k = "nameTy" -> [ty |-> S_look(env.t, ty.n), st |-> env.st]
    [] ty.k = "recordTy" ->
         LET rec == Ty("record", id)
             fields == [i \in DOMAIN ty.fields |->
                          [name |-> ty.fields[i].name,
                           ty |-> S_look(env.t, ty.fields[i].typ)]]
         IN  [ty |-> rec, st |-> (rec :> fields) @@ env.st]
    [] ty.k = "arrayTy" ->
         LET arr == Ty("array", id)
             of == actual_ty(env.st, S_look(env.t, ty.n))
         IN  IF of.k \in Stops THEN [ty |-> of, st |-> env.st]
             ELSE [ty |-> arr, st |-> (arr :> of) @@ env.st]

(* Headers that point nowhere, then what each stands for, in order.        *)
transTypes(env, ts, id) ==
  LET name(i) == Ty("name", Child(id, i))
      heads[i \in 0 .. Len(ts)] ==
        IF i = 0 THEN env
        ELSE [heads[i - 1] EXCEPT !.t = (ts[i].name :> name(i)) @@ @,
                                  !.st = (name(i) :> Null) @@ @]
      fill[i \in 0 .. Len(ts)] ==
        IF i = 0 THEN [env |-> heads[Len(ts)], steps |-> <<>>]
        ELSE LET prev == fill[i - 1].env
                 real == transTy(prev, ts[i].ty, Child(id, i))
                 bad == IF real.ty = Null THEN Stopped("error") ELSE StopOf(real.ty)
             IN  [env |-> [prev EXCEPT !.st = (prev.t[ts[i].name] :> real.ty) @@ real.st],
                  steps |-> Append(fill[i - 1].steps, bad)]
  IN  [env |-> fill[Len(ts)].env, steps |-> fill[Len(ts)].steps, ex |-> Tr_nilExp]

transDec(env, d, id) ==
  CASE d.k = "fun" -> transFunctions(env, d.fs, id)
    [] d.k = "vardec" -> transVarDec(env, d, id)
    [] d.k = "types" -> transTypes(env, d.ts, id)

transDecs(env, ds, id, i) ==
  IF i > Len(ds) THEN [env |-> env, steps |-> <<>>, code |-> <<>>]
  ELSE LET d == transDec(env, ds[i], Child(id, i))
           rest == transDecs(d.env, ds, id, i + 1)
       IN  [env |-> rest.env, steps |-> d.steps \o rest.steps,
            code |-> <<d.ex>> \o rest.code]

-------------------------------------------------------------------------------
(* One of the library functions stands for all.                            *)
E_base_venv ==
  ("printInt" :> [k |-> "fun", formals |-> <<Ty_Int>>, result |-> Ty_Void,
                  lab |-> printInt, lev |-> <<0, 0>>, extern |-> TRUE])
E_base_tenv == [int |-> Ty_Int, string |-> Ty_String]
Tr_outermost == <<0>>

(* The body of the program is a procedure without value.                  *)
Whole(res) == [stop |-> res.stop, frags |-> res.frags,
               stm |-> Tr_procEntryExit(res.ex, FALSE)]

SEM_transProg(a, wild) ==
  Whole(transExp([v |-> E_base_venv, t |-> E_base_tenv, st |-> <<>>,
                  lev |-> Tr_outermost, brk |-> NoLabel, loops |-> 0,
                  wild |-> wild], a, 1))
===============================================================================
