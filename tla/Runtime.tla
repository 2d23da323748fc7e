--------------------------------- MODULE Runtime ---------------------------------
(***************************************************************************)
(* What a translated program does when it runs, once as lists of canonical *)
(* statements and once as lists of instructions.  Both are machines to     *)
(* compare the compiler's stages with; only the library (runtime.c) is     *)
(* taken from how the translation calls it.                                *)
(*                                                                         *)
(* A program gives, for the label of a function, the accesses of its       *)
(* formals and its code, and for the label of a string a number that       *)
(* stands for its content.  A state has the temporaries of the running     *)
(* function (t), the memory, where the heap goes on, the output and        *)
(* how it ended, "lost" for a jump to a label the function does not have.  *)
(* The stack grows down to address 0, the heap is below it.                *)
(***************************************************************************)
EXTENDS Munch, TLC

CONSTANT Doublings  \* 2^Doublings statements, eight times as many instructions: the longest run

ASSUME RuntimeAssumption == Doublings \in Nat

FrameBytes == 32            \* at least the slots of any frame, and its saved registers
Unset == 7                  \* what a word nobody wrote holds

At(f, x) == IF x \in DOMAIN f THEN f[x] ELSE Unset
With(f, x, v) == (x :> v) @@ f

Begun == [t |-> <<>>, mem |-> <<>>, heap |-> -MaxInt + 3, out |-> <<>>, halt |-> ""]

Allocated(s, n, v) ==
  [s EXCEPT !.heap = @ + F_wordSize * n, !.t = With(@, F_RV, s.heap),
            !.mem = [i \in {s.heap + F_wordSize * j : j \in 0 .. n - 1} |-> v] @@ @]

(* The library.                                                            *)
Library == {printInt, initRecord, initArray, stringEqual}
CallLibrary(lab, args, s) ==
  CASE lab = printInt -> [s EXCEPT !.out = Append(@, args[1])]
    [] lab = initRecord -> Allocated(s, args[1] \div F_wordSize, 0)
    [] lab = initArray -> Allocated(s, args[1], args[2])
    [] lab = stringEqual -> [s EXCEPT !.t = With(@, F_RV, IF args[1] = args[2] THEN 1 ELSE 0)]

-------------------------------------------------------------------------------
(* Where a run stands: the next position n of a list, the state, and for   *)
(* the activations below what they go on with.                             *)
Standing(list, n, s, stack) ==
  [list |-> list, n |-> n, s |-> s, stack |-> stack,
   over |-> s.halt # "" \/ (n > Len(list) /\ stack = <<>>)]

GoesOn(c, s) == Standing(c.list, c.n + 1, s, c.stack)
Halts(c, why) == GoesOn(c, [c.s EXCEPT !.halt = why])
JumpsTo(c, to) == IF to = 0 THEN Halts(c, "lost") ELSE Standing(c.list, to, c.s, c.stack)

-------------------------------------------------------------------------------
(* Lists of statements, whose calls are isolated.                          *)
RECURSIVE Value(_, _, _)
Value(p, e, s) ==
  CASE e.k = "CONST" -> e.n
    [] e.k = "NAME" -> At(p.strings, e.lab)
    [] e.k = "TEMP" -> At(s.t, e.t)
    [] e.k = "MEM" -> At(s.mem, Value(p, e.e, s))
    [] e.k = "BINOP" -> Apply(e.op, Value(p, e.l, s), Value(p, e.r, s))

(* The formals behind the static link get the arguments behind it.         *)
Entered(p, lab, args, s) ==
  LET fp == At(s.t, F_FP) - FrameBytes
      accs == p.procs[lab].formals
      byReg(b) == {i \in DOMAIN accs : accs[i].reg = b}
      at(off) == CHOOSE i \in byReg(FALSE) : accs[i].off = off
      of(t) == CHOOSE i \in byReg(TRUE) : accs[i].t = t
      offs == {accs[i].off : i \in byReg(FALSE)}
  IN  [s EXCEPT !.t = With([t \in {accs[i].t : i \in byReg(TRUE)} |-> args[of(t) + 1]], F_FP, fp),
                !.mem = With([x \in {fp + off : off \in offs} |-> args[at(x - fp) + 1]] @@ @,
                             fp, args[1])]

(* The result of the call goes to dst.                                     *)
CallList(p, c, call, dst) ==
  LET lab == call.f.lab
      args == [i \in DOMAIN call.args |-> Value(p, call.args[i], c.s)]
      after == CallLibrary(lab, args, c.s)
      rest == [list |-> c.list, n |-> c.n + 1, t |-> c.s.t, dst |-> dst]
  IN  CASE lab \in Library -> GoesOn(c, [after EXCEPT !.t = With(@, dst, At(@, F_RV))])
        [] lab \notin DOMAIN p.procs -> Halts(c, "lost")
        [] At(c.s.t, F_FP) < 2 * FrameBytes -> Halts(c, "deep")
        [] OTHER -> Standing(p.procs[lab].stms, 1, Entered(p, lab, args, c.s), Append(c.stack, rest))

ReturnList(c) ==
  LET to == Last(c.stack)
  IN  Standing(to.list, to.n, [c.s EXCEPT !.t = With(to.t, to.dst, At(@, F_RV))], Front(c.stack))

StepList(p, c) ==
  LET st == c.list[c.n]
      place(lab) == SelectInSeq(c.list, LAMBDA x : x.k = "LABEL" /\ x.lab = lab)
      value(e) == Value(p, e, c.s)
      set(t, v) == GoesOn(c, [c.s EXCEPT !.t = With(@, t, v)])
  IN  CASE c.n > Len(c.list) -> ReturnList(c)
        [] st.k = "LABEL" -> GoesOn(c, c.s)
        [] st.k = "JUMP" -> JumpsTo(c, place(st.to))
        [] st.k = "CJUMP" ->
             JumpsTo(c, place(IF Holds(st.op, value(st.l), value(st.r)) THEN st.t ELSE st.f))
        [] st.k = "EXP" ->
             IF st.e.k = "CALL" THEN CallList(p, c, st.e, F_RV) ELSE GoesOn(c, c.s)
        [] st.k = "MOVE" /\ st.dst.k = "TEMP" ->
             IF st.src.k = "CALL" THEN CallList(p, c, st.src, st.dst.t)
             ELSE set(st.dst.t, value(st.src))
        [] st.k = "MOVE" /\ st.dst.k = "MEM" ->
             GoesOn(c, [c.s EXCEPT !.mem = With(@, value(st.dst.e), value(st.src))])

-------------------------------------------------------------------------------
(* Lists of instructions.  An activation has temporaries of its own, which *)
(* stands for the registers saved around it; argument registers and sp are *)
(* shared, and a caller finds its argument registers destroyed.            *)
Shared == {F_args[i] : i \in DOMAIN F_args}

(* F_procEntryExit3: the frame pointer is where the stack pointer was, the *)
(* frame below it.                                                         *)
EnteredCode(s) ==
  LET sp == At(s.t, F_SP)
  IN  [s EXCEPT !.t = (F_FP :> sp) @@ (F_SP :> sp - FrameBytes) @@ [a \in Shared |-> At(s.t, a)]]

(* The temporaries t of the caller again, with the result.                 *)
Restored(s, t) == (F_RV :> At(s.t, F_RV)) @@ [x \in DOMAIN t \ Shared |-> t[x]]

CallCode(p, c, lab) ==
  LET after == CallLibrary(lab, [i \in 1 .. 2 |-> At(c.s.t, F_args[i])], c.s)
      rest == [list |-> c.list, n |-> c.n + 1, t |-> c.s.t]
  IN  CASE lab \in Library -> GoesOn(c, [after EXCEPT !.t = Restored(after, c.s.t)])
        [] lab \notin DOMAIN p.procs -> Halts(c, "lost")
        [] At(c.s.t, F_SP) < 2 * FrameBytes -> Halts(c, "deep")
        [] OTHER -> Standing(p.procs[lab].code, 1, EnteredCode(c.s), Append(c.stack, rest))

(* The function leaves sp as it is without its frame.                      *)
ReturnCode(c) ==
  LET to == Last(c.stack)
      sp == At(c.s.t, F_SP) + FrameBytes
  IN  Standing(to.list, to.n, [c.s EXCEPT !.t = (F_SP :> sp) @@ Restored(c.s, to.t)],
          Front(c.stack))

Branches == {"eq", "ne", "lt", "le", "gt", "ge"}

(* One instruction that does not jump.                                     *)
After(p, i, s) ==
  LET v == [j \in DOMAIN i.s |-> At(s.t, i.s[j])]
      def(x) == [s EXCEPT !.t = With(@, i.d[1], x)]
  IN  CASE i.op \in {"add", "sub", "mul", "div"} -> def(Apply(i.op, v[1], v[2]))
        [] i.op = "addi" -> def(Word(v[1] + i.n))
        [] i.op = "mv" -> def(v[1])
        [] i.op = "li" -> def(i.n)
        [] i.op = "la" -> def(At(p.strings, i.to[1]))
        [] i.op = "lw" -> def(At(s.mem, i.n + IF v = <<>> THEN 0 ELSE v[1]))
        [] i.op = "sw" -> [s EXCEPT !.mem = With(@, v[1] + i.n, v[2])]
        [] i.op \in {"push", "store"} ->
             [s EXCEPT !.mem = With(@, At(s.t, i.d[1]) + i.n, v[1])]
        [] OTHER -> s

StepCode(p, c) ==
  LET i == c.list[c.n]
      place(lab) == SelectInSeq(c.list, LAMBDA x : x.op = "label" /\ x.to[1] = lab)
  IN  CASE c.n > Len(c.list) -> ReturnCode(c)
        [] i.op = "call" -> CallCode(p, c, i.to[1])
        [] i.op = "j" -> JumpsTo(c, place(i.to[1]))
        [] i.op \in Branches /\ Holds(i.op, At(c.s.t, i.s[1]), At(c.s.t, i.s[2])) ->
             JumpsTo(c, place(i.to[1]))
        [] OTHER -> GoesOn(c, After(p, i, c.s))

-------------------------------------------------------------------------------
(* 2^k steps are twice half of them.                                       *)
RECURSIVE Run(_, _, _, _)
Run(p, form, c, k) ==
  CASE c.over -> c
    [] ~c.over /\ k = 0 -> IF form = "stms" THEN StepList(p, c) ELSE StepCode(p, c)
    [] OTHER -> Run(p, form, Run(p, form, c, k - 1), k - 1)

EndOf(c) == IF c.over THEN c.s ELSE [c.s EXCEPT !.halt = "long"]

(* The program's own code has an empty frame at the top of the stack.      *)
Top == MaxInt - 3
OutputOfLists(p) ==
  EndOf(Run(p, "stms", Standing(p.main.stms, 1, [Begun EXCEPT !.t = F_FP :> Top], <<>>), Doublings))
OutputOfCode(p) ==
  LET start == [Begun EXCEPT !.t = (F_FP :> Top) @@ (F_SP :> Top - FrameBytes)]
  IN  EndOf(Run(p, "code", Standing(p.main.code, 1, start, <<>>), Doublings + 3))
===============================================================================
