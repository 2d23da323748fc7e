--------------------------------- MODULE Pipeline ---------------------------------
(***************************************************************************)
(* The compiler as main and doProc (main.c) run it on one program, from    *)
(* the abstract syntax to instructions: SEM_transProg, then C_linearize    *)
(* and F_codegen for every function, and RewriteProgram for one that needs *)
(* more registers than there are.  Escapes are marked (Escape models       *)
(* that), and the lists go from C_linearize to F_codegen as they are:      *)
(* what basic blocks and traces make of a list is the subject of Trace.    *)
(*                                                                         *)
(* Whether the program that comes out is right is asked of the meaning of  *)
(* the source (Reference) and of a run of the lists (Runtime).             *)
(***************************************************************************)
EXTENDS Semant, Linearize, Spill, Runtime

CONSTANTS Programs, Fuel

ASSUME PipelineAssumption == Fuel \in Nat

Source == INSTANCE Reference

VARIABLES program, phase, unit

vars == <<program, phase, unit>>

Init == /\ program \in Programs
        /\ phase = "parsed"
        /\ unit = <<>>

Texts == <<"", "a", "b">>
Procs(frags) == {f \in frags : f.k = "proc"}
Fragment(frags, lab) == CHOOSE f \in frags : f.lab = lab

(* The fragments by their labels.                                          *)
UnitOf(r) ==
  [main |-> [formals |-> <<>>, stm |-> r.stm],
   procs |-> [lab \in {f.lab : f \in Procs(r.frags)} |->
                [formals |-> Fragment(r.frags, lab).formals,
                 stm |-> Fragment(r.frags, lab).stm]],
   strings |-> [lab \in {f.lab : f \in r.frags \ Procs(r.frags)} |->
                  CHOOSE i \in DOMAIN Texts : Texts[i] = Fragment(r.frags, lab).s]]

(* SEM_transProg has come to an end, or stopped the compiler.              *)
Translated(r) ==
  IF r.stop = ""
  THEN /\ phase' = "translated"
       /\ unit' = UnitOf(r)
  ELSE /\ phase' = r.stop
       /\ UNCHANGED unit

(* Whether a write behind an object is fatal is up to the allocator.       *)
SemTransProg ==
  /\ phase = "parsed"
  /\ \E wild \in BOOLEAN : Translated(SEM_transProg(program, wild))
  /\ UNCHANGED program

EachProc(Do(_)) == [unit EXCEPT !.main = Do(@),
                                !.procs = [lab \in DOMAIN @ |-> Do(@[lab])]]

CLinearize ==
  /\ phase = "translated"
  /\ phase' = "canonical"
  /\ unit' = EachProc(LAMBDA f : [stms |-> C_linearize(f.stm)] @@ f)
  /\ UNCHANGED program

(* Which formals F_allocFormals has put in registers, the static link      *)
(* first; the library has no links.                                        *)
FormalsInReg ==
  [lab \in DOMAIN unit.procs |->
     <<FALSE>> \o [i \in DOMAIN unit.procs[lab].formals |-> unit.procs[lab].formals[i].reg]]
  @@ (printInt :> <<TRUE>>) @@ (initRecord :> <<TRUE>>)
  @@ (initArray :> <<TRUE, TRUE>>) @@ (stringEqual :> <<TRUE, TRUE>>)

RECURSIVE Subtrees(_)
Subtrees(t) ==
  {t} \union UNION {Subtrees(t[x]) : x \in DOMAIN t \intersect {"e", "l", "r", "dst", "src", "s"}}
      \union UNION {Subtrees(t.args[i]) : i \in IF "args" \in DOMAIN t THEN DOMAIN t.args ELSE {}}
Lists == {unit.main.stms} \union {unit.procs[lab].stms : lab \in DOMAIN unit.procs}
Statements == UNION {ToSet(list) : list \in Lists}

(* The compiler itself divides two constants.                              *)
DividesByZero(t) == t.k = "BINOP" /\ t.op = "div" /\ IsConst(t.l) /\ t.r = T_Const(0)

(* F_procEntryExit2: the formals in registers come from the argument       *)
(* registers in turn.                                                      *)
EntryMoves(formals) ==
  LET inReg == SelectSeq(formals, LAMBDA a : a.reg)
  IN  [i \in DOMAIN inReg |-> Oper("mv", <<inReg[i].t>>, <<F_args[i]>>, 0)]

FCodegen ==
  /\ phase = "canonical"
  /\ IF \E st \in Statements : \E t \in Subtrees(st) : DividesByZero(t)
     THEN /\ phase' = "crash"
          /\ UNCHANGED unit
     ELSE /\ phase' = "selected"
          /\ unit' = EachProc(LAMBDA f : [code |-> EntryMoves(f.formals)
                                                    \o F_codegen(f.stms, FormalsInReg)] @@ f)
  /\ UNCHANGED program

(* Bound: of the temporaries of a function only those that occur often, or *)
(* are handed to a function, are tried; they live longest.                 *)
Occurs(v, i) == v \in ToSet(i.d) \union ToSet(i.s)
Temporaries(code) == UNION {ToSet(code[i].d) \union ToSet(code[i].s) : i \in DOMAIN code}
                     \ ({F_FP, F_SP} \union Shared)
Spillable(code) ==
  {v \in Temporaries(code) :
     \/ Cardinality({i \in DOMAIN code : Occurs(v, code[i])}) > 3
     \/ \E i \in DOMAIN code : code[i].op = "call" /\ v \in ToSet(code[i].s)}

Rewritten(f, spilled) == [f EXCEPT !.code = RewriteProgram(@, SetToSeq(spilled), f.formals)]

(* Color_Main has found no register for one temporary of a function or two.*)
Spilled(f) == {vs \in SUBSET Spillable(f.code) : Cardinality(vs) \in 1 .. 2}

SpillMain ==
  /\ phase = "selected"
  /\ phase' = "rewritten"
  /\ \E vs \in Spilled(unit.main) : unit' = [unit EXCEPT !.main = Rewritten(@, vs)]
  /\ UNCHANGED program

SpillProc ==
  /\ phase = "selected"
  /\ phase' = "rewritten"
  /\ \E lab \in DOMAIN unit.procs : \E vs \in Spilled(unit.procs[lab]) :
       unit' = [unit EXCEPT !.procs[lab] = Rewritten(@, vs)]
  /\ UNCHANGED program

Next == SemTransProg \/ CLinearize \/ FCodegen \/ SpillMain \/ SpillProc

Spec == Init /\ [][Next]_vars

-------------------------------------------------------------------------------
(* The nodes of a program.                                                 *)
RECURSIVE VarParts(_), Nodes(_)
VarParts(v) == CASE v.k = "simple" -> {}
                 [] v.k = "field" -> VarParts(v.v)
                 [] v.k = "subscript" -> VarParts(v.v) \union {v.e}

DecParts(d) == CASE d.k = "vardec" -> {d.init}
                 [] d.k = "fun" -> {d.fs[i].body : i \in DOMAIN d.fs}
                 [] OTHER -> {}

Children(a) ==
  CASE a.k = "var" -> VarParts(a.v)
    [] a.k = "call" -> ToSet(a.args)
    [] a.k = "op" -> {a.l, a.r}
    [] a.k = "record" -> {a.fields[i].e : i \in DOMAIN a.fields}
    [] a.k = "seq" -> ToSet(a.es)
    [] a.k = "assign" -> VarParts(a.v) \union {a.e}
    [] a.k = "if" -> {a.c, a.t, a.e}
    [] a.k = "while" -> {a.c, a.b}
    [] a.k = "for" -> {a.lo, a.hi, a.b}
    [] a.k = "let" -> UNION {DecParts(a.ds[i]) : i \in DOMAIN a.ds} \union {a.b}
    [] a.k = "array" -> {a.size, a.init}
    [] OTHER -> {}

Nodes(a) == {a} \union UNION {Nodes(c) : c \in Children(a)}

(* The types declared together, and where a chain of names leads.          *)
Groups == UNION {{n.ds[i].ts : i \in {j \in DOMAIN n.ds : n.ds[j].k = "types"}} :
                   n \in {m \in Nodes(program) : m.k = "let"}}
Alias(ts, x) == {ts[i].ty.n : i \in {j \in DOMAIN ts : ts[j].name = x /\ ts[j].ty.k = "nameTy"}}
Reached(ts, x) ==
  LET step[n \in Nat] == IF n = 0 THEN Alias(ts, x)
                         ELSE step[n - 1] \union UNION {Alias(ts, y) : y \in step[n - 1]}
  IN  step[Len(ts)]
OnCycle(ts, x) == x \in Reached(ts, x)

Comparisons == {"eq", "ne", "lt", "le", "gt", "ge"}
IsComparison(a) == a.k = "op" /\ a.op \in Comparisons
Empties(a) == CASE a.k = "if" -> Unit \in {a.c, a.t}
                [] a.k = "while" -> a.c = Unit
                [] a.k = "for" -> Unit \in {a.lo, a.hi, a.b}
                [] a.k = "let" -> a.ds = <<>>
                [] OTHER -> FALSE
OddSubscript(a) == a.k \in {"var", "assign"}
                   /\ \E e \in VarParts(a.v) :
                        IsComparison(e) \/ \E n \in Nodes(e) : n.k = "break"
OrderOfTexts(a) == IsComparison(a) /\ a.op \notin {"eq", "ne"}
NamesOf(fields) == {fields[i].name : i \in DOMAIN fields}
RecordsOf(ts) == {ts[i].ty : i \in {j \in DOMAIN ts : ts[j].ty.k = "recordTy"}}
RecordTypes == UNION {RecordsOf(ts) : ts \in Groups}
FieldsAmiss(a) == /\ a.k = "record"
                  /\ \/ a.fields = <<>>
                     \/ \E i \in DOMAIN a.fields : IsComparison(a.fields[i].e)
                     \/ \A ty \in RecordTypes : NamesOf(a.fields) # NamesOf(ty.fields)
ArrayAhead(ts) ==
  \E i \in DOMAIN ts : \E j \in DOMAIN ts :
    /\ ts[i].ty.k = "arrayTy" /\ j >= i
    /\ ts[j].name \in {ts[i].ty.n} \union Reached(ts, ts[i].ty.n)

(* A declaration that escape.c has marked in place of one that it hides.   *)
Declared(a) ==
  CASE a.k = "for" -> {a}
    [] a.k = "let" -> {d \in ToSet(a.ds) : d.k = "vardec"}
    [] OTHER -> {}
MarkedInstead ==
  \E d1, d2 \in UNION {Declared(a) : a \in Nodes(program)} :
    d1.x = d2.x /\ d1.esc = 0 /\ d2.esc # 0

-------------------------------------------------------------------------------
(* A program the semantic analysis accepts never performs an operation on  *)
(* values the operation is not for, with two exceptions that semant.c has: *)
(* assignments compare kinds and not types, and < is let through on        *)
(* records and arrays.                                                     *)
AcceptedRunsRight ==
  phase = "translated" =>
    LET end == Source!Meaning(program)
    IN  end.halt = "wrong" =>
          end.known \intersect {"types of one kind", "order of references"} # {}

(* The compiler ends in an assertion, a bad pointer or a division only for *)
(* a program with one of the constructs that semant.c, translate.c and     *)
(* riscv_codegen.c do not handle.                                          *)
CrashesAreKnown ==
  phase = "crash" =>
    \/ \E a \in Nodes(program) : \/ Empties(a)
                                 \/ OddSubscript(a)
                                 \/ OrderOfTexts(a)
                                 \/ FieldsAmiss(a)
                                 \/ a.k = "op" /\ a.op = "divide" /\ a.r.k = "int"
    \/ \E ts \in Groups : ArrayAhead(ts)
    \/ MarkedInstead

(* actual_ty goes round for ever only where a name that is on no cycle     *)
(* leads into one; the other cycles are reported.                          *)
HangsOnlyIntoCycles ==
  phase = "hang" =>
    \E ts \in Groups : \E i \in DOMAIN ts :
      /\ ~OnCycle(ts, ts[i].name)
      /\ \E y \in Reached(ts, ts[i].name) : OnCycle(ts, y)

Kinds(t) == {e.k : e \in Subtrees(t)}

(* A call is all of an expression statement or of the source of a move.    *)
Operands(st) ==
  CASE st.k = "EXP" /\ st.e.k = "CALL" -> ToSet(st.e.args)
    [] st.k = "EXP" -> {st.e}
    [] st.k = "MOVE" /\ st.dst.k = "TEMP" /\ st.src.k = "CALL" -> ToSet(st.src.args)
    [] st.k = "MOVE" -> {st.dst, st.src}
    [] st.k = "CJUMP" -> {st.l, st.r}
    [] OTHER -> {}
Isolated(st) == \A e \in Operands(st) : "CALL" \notin Kinds(e)

(* C_linearize leaves no SEQ and no ESEQ (canon.c:156), and what the lists *)
(* print, where calls are isolated, is what the source means, unless the   *)
(* program is one of those that translate.c is known to treat otherwise.   *)
(* A jump leads to a label of the same function unless a break left its    *)
(* function.                                                               *)
SameMeaning ==
  phase = "canonical" =>
    /\ \A st \in Statements : Kinds(st) \intersect {"SEQ", "ESEQ"} = {}
    /\ (\A st \in Statements : Isolated(st)) =>
         LET end == Source!Meaning(program)
             run == OutputOfLists(unit)
         IN  /\ end.halt = "" /\ end.known = {} => run.halt = "" /\ run.out = end.out
             /\ run.halt = "lost" => end.halt = "escaped"

(* The comment at canon.c:157: the parent of every CALL is an EXP or a     *)
(* MOVE to a temporary.                                                    *)
CallsIsolated == phase = "canonical" => \A st \in Statements : Isolated(st)

(* A constant minus an expression is selected as the negated difference.   *)
FromConstant(e) == e.k = "BINOP" /\ e.op = "minus" /\ IsConst(e.l) /\ ~IsConst(e.r)
Subtracts(st) == \E e \in Subtrees(st) : FromConstant(e)

(* The instructions print what the lists print, if the calls are isolated, *)
(* nothing is subtracted from a constant and every formal has a register.  *)
SelectionFaithful ==
  phase \in {"selected", "rewritten"} =>
    LET lists == OutputOfLists(unit)
        code == OutputOfCode(unit)
    IN  /\ \A st \in Statements : Isolated(st) /\ ~Subtracts(st)
        /\ \A lab \in DOMAIN unit.procs : \A i \in DOMAIN unit.procs[lab].formals :
             unit.procs[lab].formals[i].reg
        /\ lists.halt = ""
        => code.halt = "" /\ code.out = lists.out

(* The copies of arguments to their registers, and the call they are for.  *)
Copies(code) == {n \in DOMAIN code : code[n].op = "mv" /\ ToSet(code[n].d) \subseteq Shared}
CallBehind(code, n) == SelectInSubSeq(code, n, Len(code), LAMBDA i : i.op = "call")

(* From the move of an argument into its register to the call, a register  *)
(* is live that the liveness analysis does not know to be: call lists the  *)
(* arguments' temporaries as its uses (riscv_codegen.c:105).  So nothing   *)
(* may come between that would want a register, and munchArgs sees to it;  *)
(* after RewriteProgram the fetches of spilled arguments do come between.  *)
ArgumentsUndisturbed ==
  phase \in {"selected", "rewritten"} =>
    \A f \in {unit.main} \union {unit.procs[lab] : lab \in DOMAIN unit.procs} :
      \A n \in Copies(f.code) : \A i \in n + 1 .. CallBehind(f.code, n) - 1 :
        \/ ToSet(f.code[i].d) \subseteq Shared \union {F_SP}
        \/ phase = "rewritten" /\ f.code[i].op = "lw" /\ f.code[i].s = <<F_FP>>
===============================================================================
