-------------------------------- MODULE Reference --------------------------------
(***************************************************************************)
(* What a Tiger program means: an interpreter of abstract syntax, written  *)
(* without regard to the translation, that the translated programs are     *)
(* compared with.                                                          *)
(*                                                                         *)
(* A state has the variables (vars), the records and arrays (heap) and the *)
(* output.  halt is "" while the program runs, "break" from a break to its *)
(* loop, and otherwise why it ended: it went "wrong" (an operation on      *)
(* values it is not for, which a type checker is there to exclude), a      *)
(* break left its function ("escaped"), "nil" was dereferenced, a          *)
(* subscript was out of bounds, a divisor was 0, or the fuel was used up.  *)
(* known collects what the program did that the compiler is known to treat *)
(* otherwise.                                                              *)
(***************************************************************************)
EXTENDS Words, Sequences, SequencesExt, TLC

CONSTANT Fuel       \* calls and rounds of loops until a run is given up

Num(n) == [k |-> "num", n |-> n]
Text(s) == [k |-> "text", s |-> s]
Ref(a) == [k |-> "ref", a |-> a]
NilOf(typ) == [k |-> "nil", typ |-> typ]
NoValue == [k |-> "none"]
Truth(b) == Num(IF b THEN 1 ELSE 0)

Start == [vars |-> <<>>, heap |-> <<>>, out |-> <<>>, halt |-> "", fuel |-> Fuel,
          known |-> {}]

Gives(s, v) == [s |-> s, v |-> v]
Ends(s, why) == Gives(IF s.halt = "" THEN [s EXCEPT !.halt = why] ELSE s, NoValue)
Runs(s) == s.halt = ""
Known(s, what, b) == IF b THEN [s EXCEPT !.known = @ \union {what}] ELSE s
Burn(s) == IF s.fuel = 0 THEN Ends(s, "fuel").s ELSE [s EXCEPT !.fuel = @ - 1]

NewVar(s, v) == [s EXCEPT !.vars = Append(@, v)]
NewObject(s, o) == Gives([s EXCEPT !.heap = Append(@, o)], Ref(Len(s.heap) + 1))

(* A place is a variable, or a cell of a record or an array.  Of variables *)
(* is kept whether they escape (reg if not) and are another function's.    *)
VarPlace(i, esc) == [k |-> "var", i |-> i, reg |-> esc = 0, far |-> FALSE]
Cell(a, x) == [k |-> "cell", a |-> a, x |-> x]
Nowhere == [k |-> "nowhere"]
Get(s, p) == IF p.k = "var" THEN s.vars[p.i] ELSE s.heap[p.a].cells[p.x]
Put(s, p, v) == IF p.k = "var" THEN [s EXCEPT !.vars[p.i] = v]
                ELSE [s EXCEPT !.heap[p.a].cells[p.x] = v]

(* An object, or a nil, of another type in its place: the types are only   *)
(* compared by kind.  A nil takes the type of its place.                   *)
TypeOf(s, v) == CASE v.k = "ref" -> s.heap[v.a].typ
                  [] v.k = "nil" -> v.typ
                  [] OTHER -> ""
Mixed(s, v, w) == TypeOf(s, v) # TypeOf(s, w) /\ "" \notin {TypeOf(s, v), TypeOf(s, w)}
Fit(s, v, w) == IF w.k = "nil" /\ w.typ = "" THEN NilOf(TypeOf(s, v)) ELSE w

Operation(op, l, r, s) ==
  CASE l.k = "num" /\ r.k = "num" /\ op = "divide" /\ r.n = 0 -> Ends(s, "div")
    [] l.k = "num" /\ r.k = "num" ->
         Gives(s, IF op \in {"plus", "minus"} THEN Num(Apply(op, l.n, r.n))
                  ELSE IF op = "times" THEN Num(Apply("mul", l.n, r.n))
                  ELSE IF op = "divide" THEN Num(Apply("div", l.n, r.n))
                  ELSE Truth(Holds(op, l.n, r.n)))
    [] op = "eq" /\ {l.k, r.k} \in {{"text"}, {"ref"}, {"nil"}, {"ref", "nil"}} ->
         Gives(s, Truth(l.k = r.k /\ (l.k = "nil" \/ l = r)))
    [] op = "ne" /\ {l.k, r.k} \in {{"text"}, {"ref"}, {"nil"}, {"ref", "nil"}} ->
         Gives(Known(s, "string inequality", l.k = "text"),
               Truth(~(l.k = r.k /\ (l.k = "nil" \/ l = r))))
    [] OTHER -> Ends(Known(s, "order of references",
                           {l.k, r.k} \in {{"ref"}, {"nil"}, {"ref", "nil"}}), "wrong")

-------------------------------------------------------------------------------
RECURSIVE Ev(_, _, _), Place(_, _, _), EvAll(_, _, _), Rounds(_, _, _, _, _),
          While(_, _, _), Declare(_, _, _)

(* Expressions from left to right, with the values of all.                 *)
EvAll(env, es, s) ==
  IF es = <<>> THEN [s |-> s, vs |-> <<>>]
  ELSE LET first == Ev(env, Head(es), s)
           rest == EvAll(env, Tail(es), first.s)
       IN  [s |-> rest.s, vs |-> <<first.v>> \o rest.vs]

CellOf(s, v, kind, x) ==
  CASE ~Runs(s) -> Gives(s, Nowhere)
    [] v.k = "nil" -> Gives(Ends(s, "nil").s, Nowhere)
    [] v.k # "ref" -> Gives(Ends(s, "wrong").s, Nowhere)
    [] s.heap[v.a].k # kind -> Gives(Ends(s, "wrong").s, Nowhere)
    [] x \notin DOMAIN s.heap[v.a].cells ->
         Gives(Ends(s, IF kind = "array" THEN "bounds" ELSE "wrong").s, Nowhere)
    [] OTHER -> Gives(s, Cell(v.a, x))

Place(env, v, s) ==
  IF ~Runs(s) THEN Gives(s, Nowhere)
  ELSE CASE v.k = "simple" ->
              IF v.x \in DOMAIN env /\ env[v.x].k = "var"
              THEN Gives(Known(s, "another's register", env[v.x].reg /\ env[v.x].far), env[v.x])
              ELSE Gives(Ends(s, "wrong").s, Nowhere)
         [] v.k = "field" ->
              LET of == Ev(env, [k |-> "var", v |-> v.v], s) IN CellOf(of.s, of.v, "record", v.f)
         [] v.k = "subscript" ->
              LET of == Ev(env, [k |-> "var", v |-> v.v], s)
                  index == Ev(env, v.e, of.s)
              IN  IF Runs(index.s) /\ index.v.k # "num"
                  THEN Gives(Ends(index.s, "wrong").s, Nowhere)
                  ELSE CellOf(index.s, of.v, "array", IF Runs(index.s) THEN index.v.n + 1 ELSE 0)

(* A closure is a declaration with the environment of its group.           *)
Closures(env, fs) ==
  [x \in {fs[i].name : i \in DOMAIN fs} |->
     [k |-> "fun", f |-> fs[CHOOSE i \in DOMAIN fs : fs[i].name = x],
      fs |-> fs, env |-> env]] @@ env

Bound(env, params, from) ==
  [x \in {params[i].name : i \in DOMAIN params} |->
     LET i == CHOOSE j \in DOMAIN params : params[j].name = x
     IN  VarPlace(from + i, params[i].esc)] @@ env

(* The environment of a function, seen from one declared in it.            *)
Inside(env) == [x \in DOMAIN env |-> IF env[x].k = "var" THEN [env[x] EXCEPT !.far = TRUE]
                                     ELSE env[x]]

EvCall(env, a, s) ==
  LET args == EvAll(env, a.args, s)
      c == env[a.f]
  IN  CASE ~Runs(args.s) -> Gives(args.s, NoValue)
        [] a.f = "printInt" ->
             IF Len(args.vs) = 1 /\ args.vs[1].k = "num"
             THEN Gives([args.s EXCEPT !.out = Append(@, args.vs[1].n)], NoValue)
             ELSE Ends(args.s, "wrong")
        [] a.f \notin DOMAIN env -> Ends(args.s, "wrong")
        [] c.k # "fun" -> Ends(args.s, "wrong")
        [] Len(c.f.params) # Len(args.vs) -> Ends(args.s, "wrong")
        [] OTHER ->
             LET inner == Bound(Closures(Inside(c.env), c.fs), c.f.params, Len(args.s.vars))
                 entered == FoldLeft(NewVar, Burn(args.s), args.vs)
                 res == Ev(inner, c.f.body, entered)
             IN  IF res.s.halt = "break"
                 THEN Gives([res.s EXCEPT !.halt = "escaped"], NoValue)
                 ELSE Gives(res.s, IF c.f.result = "" THEN NoValue ELSE res.v)

EvCond(v, s) == IF Runs(s) /\ v.k # "num" THEN Ends(s, "wrong").s ELSE s

AfterLoop(s) == Gives(IF s.halt = "break" THEN [s EXCEPT !.halt = ""] ELSE s, NoValue)

While(env, a, s) ==
  LET test == Ev(env, a.c, Burn(s))
      s2 == EvCond(test.v, test.s)
  IN  IF ~Runs(s2) \/ test.v.n = 0 THEN s2
      ELSE LET body == Ev(env, a.b, s2)
           IN  IF Runs(body.s) THEN While(env, a, body.s) ELSE body.s

(* The bound is evaluated once.  That it would be another value now, or    *)
(* have effects, is noted, and that the variable cannot grow beyond it.    *)
Same(s, t) == s.vars = t.vars /\ s.heap = t.heap /\ s.out = t.out /\ s.halt = t.halt

Rounds(env, a, s, i, hi) ==
  LET again == Ev(env, a.hi, s)
      s2 == Known(s, "bound of a for", again.v # Num(hi) \/ ~Same(again.s, s) \/ hi = MaxInt)
  IN  IF ~Runs(s) \/ i > hi THEN s2
      ELSE LET body == Ev(Bound(env, <<[name |-> a.x, esc |-> a.esc]>>, Len(s.vars)), a.b,
                          NewVar(Burn(s2), Num(i)))
           IN  IF Runs(body.s) THEN Rounds(env, a, body.s, i + 1, hi) ELSE body.s

EvFor(env, a, s) ==
  LET lo == Ev(env, a.lo, s)
      hi == Ev(env, a.hi, lo.s)
  IN  IF ~Runs(hi.s) THEN hi
      ELSE IF lo.v.k # "num" \/ hi.v.k # "num" THEN Ends(hi.s, "wrong")
      ELSE AfterLoop(Rounds(env, a, hi.s, lo.v.n, hi.v.n))

EvAssign(env, a, s) ==
  LET p == Place(env, a.v, s)
      e == Ev(env, a.e, p.s)
  IN  IF ~Runs(e.s) THEN e
      ELSE LET old == Get(e.s, p.v)
           IN  Gives(Put(Known(e.s, "types of one kind", Mixed(e.s, old, e.v)),
                         p.v, Fit(e.s, old, e.v)), NoValue)

EvRecord(env, a, s) ==
  LET all == EvAll(env, [i \in DOMAIN a.fields |-> a.fields[i].e], s)
      given == {a.fields[i].name : i \in DOMAIN a.fields}
      place(f) == CHOOSE i \in DOMAIN a.fields : a.fields[i].name = f
  IN  IF ~Runs(all.s) THEN Gives(all.s, NoValue)
      ELSE NewObject(all.s, [k |-> "record", typ |-> a.typ,
                             cells |-> [f \in given |-> all.vs[place(f)]]])

EvArray(env, a, s) ==
  LET all == EvAll(env, <<a.size, a.init>>, s)
  IN  CASE ~Runs(all.s) -> Gives(all.s, NoValue)
        [] all.vs[1].k # "num" -> Ends(all.s, "wrong")
        [] OTHER -> NewObject(all.s, [k |-> "array", typ |-> a.typ,
                                      cells |-> [i \in 1 .. all.vs[1].n |-> all.vs[2]]])

Declare(env, ds, s) ==
  IF ds = <<>> THEN [env |-> env, s |-> s]
  ELSE LET d == Head(ds)
       IN  CASE d.k = "vardec" ->
                  LET e == Ev(env, d.init, s)
                  IN  Declare(Bound(env, <<[name |-> d.x, esc |-> d.esc]>>, Len(e.s.vars)), Tail(ds),
                              NewVar(e.s, Fit(e.s, NilOf(d.typ), e.v)))
             [] d.k = "fun" -> Declare(Closures(env, d.fs), Tail(ds), s)
             [] d.k = "types" -> Declare(env, Tail(ds), s)

EvIf(env, a, s) ==
  LET test == Ev(env, a.c, s)
      s2 == EvCond(test.v, test.s)
  IN  IF ~Runs(s2) THEN Gives(s2, NoValue)
      ELSE Ev(env, IF test.v.n # 0 THEN a.t ELSE a.e, s2)

Ev(env, a, s) ==
  IF ~Runs(s) THEN Gives(s, NoValue)
  ELSE CASE a.k = "unit" -> Gives(s, NoValue)
         [] a.k = "nil" -> Gives(s, NilOf(""))
         [] a.k = "int" -> Gives(s, Num(a.n))
         [] a.k = "string" -> Gives(s, Text(a.s))
         [] a.k = "var" -> LET p == Place(env, a.v, s)
                           IN  Gives(p.s, IF Runs(p.s) THEN Get(p.s, p.v) ELSE NoValue)
         [] a.k = "call" -> EvCall(env, a, s)
         [] a.k = "op" -> LET both == EvAll(env, <<a.l, a.r>>, s)
                          IN  IF Runs(both.s)
                              THEN Operation(a.op, both.vs[1], both.vs[2], both.s)
                              ELSE Gives(both.s, NoValue)
         [] a.k = "record" -> EvRecord(env, a, s)
         [] a.k = "seq" -> LET all == EvAll(env, a.es, s)
                           IN  Gives(all.s, IF a.es = <<>> THEN NoValue ELSE Last(all.vs))
         [] a.k = "assign" -> EvAssign(env, a, s)
         [] a.k = "if" -> EvIf(env, a, s)
         [] a.k = "while" -> AfterLoop(While(env, a, s))
         [] a.k = "for" -> EvFor(env, a, s)
         [] a.k = "break" -> Ends(s, "break")
         [] a.k = "let" -> LET d == Declare(env, a.ds, s) IN Ev(d.env, a.b, d.s)
         [] a.k = "array" -> EvArray(env, a, s)

Meaning(a) == LET end == Ev(<<>>, a, Start).s
              IN  IF end.halt = "break" THEN [end EXCEPT !.halt = "escaped"] ELSE end
===============================================================================
