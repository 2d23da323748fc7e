---------------------------------- MODULE Calls ----------------------------------
(***************************************************************************)
(* Frames and calls on the machine: where F_newFrame, F_allocFormals and   *)
(* F_allocLocal (riscv_frame.c) put formals and variables, what munchArgs  *)
(* and popStack (riscv_codegen.c) do around a call, and the entry and exit *)
(* of a function by F_procEntryExit2 and F_procEntryExit3.                 *)
(*                                                                         *)
(* Memory is a function from addresses to words.  Every activation has     *)
(* temporaries of its own (saved by their callers); the ones that matter   *)
(* here are the saved frame pointer and the fetched formals.  What the     *)
(* activations are to hold, sent and saved, is kept beside.                *)
(***************************************************************************)
EXTENDS Nesting, Sequences, SequencesExt, FiniteSets

CONSTANTS
  Order,            \* of a function: its escaping variables as declared
  Formals,          \* of a function: which formals escape (TRUE), in order
  Bottom,           \* the address the stack starts at
  MaxFrames         \* bound: activations at a time

ASSUME CallsAssumption ==
  /\ \A f \in Fns : /\ Order[f] \in Seq(Locals[f]) /\ Formals[f] \in Seq(BOOLEAN)
                   /\ Locals[f] = ToSet(Order[f]) /\ Len(Order[f]) = Cardinality(Locals[f])
  /\ Bottom \in Nat /\ MaxFrames \in Nat

F_wordSize == 4

VARIABLES
  mem, fp, sp,
  regs,             \* the argument registers
  t,                \* the temporary that fetches go to
  step,             \* the expression under way
  acts,             \* the temporaries of the activations, the running one last
  got

vars == <<mem, fp, sp, regs, t, step, acts, got>>

-------------------------------------------------------------------------------
(* The layout of a frame, compile time.  F_newFrame: the static link, then *)
(* the formals; F_allocLocal comes behind.  What is in memory gets the     *)
(* next word below.                                                        *)
EscapingBefore(f, i) == Cardinality({j \in 1 .. i - 1 : Formals[f][j]})
InFrame(n) == -(n * F_wordSize)
FormalOffset(f, i) == InFrame(1 + EscapingBefore(f, i))

(* Fault: the link is not counted.                                         *)
LocalOverLink(f, x) ==
  InFrame(EscapingBefore(f, Len(Formals[f]) + 1) + SelectInSeq(Order[f], LAMBDA y : y = x) - 1)
F_allocLocal(f, x) ==
  InFrame(EscapingBefore(f, Len(Formals[f]) + 1) + SelectInSeq(Order[f], LAMBDA y : y = x))

stack_size(f) == 1 + EscapingBefore(f, Len(Formals[f]) + 1) + Len(Order[f])
frameSize(f) == F_wordSize * stack_size(f)

ARG_IN_REG == 7

(* F_allocFormals asserts that a register is left for the formal.          *)
ASSUME RegistersAssumption ==
  \A f \in Fns : \A i \in DOMAIN Formals[f] :
    ~Formals[f][i] => i - 1 - EscapingBefore(f, i) < ARG_IN_REG

(* The arguments behind the link that travel on the stack.  For another    *)
(* one, the argument register that munchArgs copies it to, and the one     *)
(* that the entry of the function fetches it from.                         *)
OnStack(f) == {i \in DOMAIN Formals[f] : Formals[f][i]}
ArgRegs == 1 .. ARG_IN_REG
(* Fault: every argument takes a register, pushed or not.                  *)
ByPosition(f, i) == i
PassedIn(f, i) == i - EscapingBefore(f, i)
FetchedFrom(f, i) == i - EscapingBefore(f, i)

-------------------------------------------------------------------------------
Act == Last(acts)
Running == Act.fn
Idle == [why |-> "idle", to |-> Main, x |-> NoVar, fn |-> Main, left |-> 0, args |-> <<>>, n |-> 0]
Read(a) == IF a \in DOMAIN mem THEN mem[a] ELSE Fresh
NoArgs == [r \in ArgRegs |-> Fresh]
Write(a, v) == [b \in DOMAIN mem \union {a} |-> IF b = a THEN v ELSE mem[b]]

(* _start runs in a frame like any other.                                  *)
Init == /\ fp = Bottom
        /\ sp = Bottom - frameSize(Main)
        /\ mem = <<>>
        /\ regs = NoArgs
        /\ t = 0
        /\ step = Idle
        /\ acts = <<[fn |-> Main, fp |-> Bottom, copyFP |-> 0, fetched |-> <<>>, sent |-> <<>>,
                     link |-> 0]>>
        /\ got = Fresh

(* The fetches from the running frame: to the one that a call of f hands   *)
(* over as the link, and to the one that holds the variables of g.         *)
(* Fault: the loop stops at the level of the called function.              *)
HopsToCallee(f) == Depth[Running] - Depth[f]
CallHops(f) == Depth[Running] - Depth[f] + 1
UseHops(g) == Depth[Running] - Depth[g]

StartCall(f, args) ==
  /\ step = Idle
  /\ f # Main /\ <<Parent[f], Running>> \in Encloses
  /\ Len(acts) < MaxFrames
  /\ step' = [why |-> "call", to |-> Parent[f], x |-> NoVar, fn |-> f,
              left |-> CallHops(f), args |-> args, n |-> Len(args)]
  /\ t' = fp
  /\ UNCHANGED <<mem, fp, sp, regs, acts, got>>

StartUse(g, x) ==
  /\ step = Idle
  /\ <<g, Running>> \in Encloses /\ x \in Locals[g]
  /\ step' = [Idle EXCEPT !.why = "use", !.to = g, !.x = x, !.left = UseHops(g)]
  /\ t' = fp
  /\ UNCHANGED <<mem, fp, sp, regs, acts, got>>

(* MEM of the frame pointer reached so far: the link is at offset 0.       *)
Follow ==
  /\ step.left > 0
  /\ t' = Read(t)
  /\ step' = [step EXCEPT !.left = @ - 1]
  /\ UNCHANGED <<mem, fp, sp, regs, acts, got>>

Found(why) == step.why = why /\ step.left = 0

(* munchArgs, from the last argument to the first.                         *)
HandOver ==
  /\ Found("call") /\ step.n > 0
  /\ IF Formals[step.fn][step.n]
     THEN /\ sp' = sp - F_wordSize
          /\ mem' = Write(sp', step.args[step.n])
          /\ UNCHANGED regs
     ELSE /\ regs' = [regs EXCEPT ![PassedIn(step.fn, step.n)] = step.args[step.n]]
          /\ UNCHANGED <<mem, sp>>
  /\ step' = [step EXCEPT !.n = @ - 1]
  /\ UNCHANGED <<fp, t, acts, got>>

(* The link is pushed last, then the call, and the function's entry.       *)
Enter ==
  /\ Found("call") /\ step.n = 0
  /\ mem' = Write(sp - F_wordSize, t)
  /\ fp' = sp - F_wordSize
  /\ sp' = fp' - frameSize(step.fn)
  /\ acts' = Append(acts, [fn |-> step.fn, fp |-> fp', copyFP |-> fp,
                           fetched |-> [i \in DOMAIN Formals[step.fn] \ OnStack(step.fn) |->
                                          regs[FetchedFrom(step.fn, i)]],
                           sent |-> step.args, link |-> t])
  /\ step' = Idle
  /\ t' = 0
  /\ UNCHANGED <<regs, got>>

Slot == t + F_allocLocal(step.to, step.x)

Load ==
  /\ Found("use")
  /\ got' = Read(Slot)
  /\ step' = Idle
  /\ t' = 0
  /\ UNCHANGED <<mem, fp, sp, regs, acts>>

Store(v) ==
  /\ Found("use")
  /\ mem' = Write(Slot, v)
  /\ step' = Idle
  /\ t' = 0
  /\ UNCHANGED <<fp, sp, regs, acts, got>>

(* popStack in the caller takes back the link and the arguments.           *)
(* Fault: not the link.                                                    *)
PopArguments(f) == F_wordSize * Cardinality(OnStack(f))
popStack(f) == F_wordSize * (1 + Cardinality(OnStack(f)))

Return ==
  /\ step = Idle /\ Len(acts) > 1
  /\ sp' = sp + frameSize(Running) + popStack(Running)
  /\ fp' = Act.copyFP
  /\ acts' = Front(acts)
  /\ mem' = [a \in {b \in DOMAIN mem : b >= sp'} |-> mem[a]]
  /\ regs' = NoArgs
  /\ UNCHANGED <<t, step, got>>

Next == \/ \E f \in Fns : \E args \in [DOMAIN Formals[f] -> Values] : StartCall(f, args)
        \/ \E g \in Fns : \E x \in Locals[g] : StartUse(g, x)
        \/ Follow \/ HandOver \/ Enter \/ Load
        \/ \E v \in Values : Store(v)
        \/ Return

Spec == Init /\ [][Next]_vars

-------------------------------------------------------------------------------
(* Between two calls the stack pointer is a frame below the frame pointer, *)
(* which is the one the running function was entered with: what a call     *)
(* pushed is taken back, the saved frame pointer restored.                 *)
StackBalanced ==
  step = Idle => /\ fp = Act.fp
                 /\ sp = fp - frameSize(Running)

(* A formal that does not hold what was passed is one that escapes.  (Its  *)
(* word is below the frame pointer, where the locals are; the argument was *)
(* pushed above.)                                                          *)
FormalHolds(i) == IF i \in OnStack(Running) THEN Read(fp + FormalOffset(Running, i))
                  ELSE Act.fetched[i]
OnlyEscapingFormalsLost ==
  step = Idle => \A i \in DOMAIN Act.sent :
    FormalHolds(i) # Act.sent[i] => Formals[Running][i]

(* The frames as StaticLink has them: links and addresses of frames are    *)
(* places in the sequence of activations, variables are read from memory.  *)
FrameAt(a) == SelectInSeq(acts, LAMBDA act : act.fp = a)
Frames ==
  [i \in DOMAIN acts |->
     [fn |-> acts[i].fn,
      link |-> IF i = 1 THEN 0 ELSE FrameAt(Read(acts[i].fp)),
      val |-> [x \in Locals[acts[i].fn] |-> Read(acts[i].fp + F_allocLocal(acts[i].fn, x))]]]
Walk == [why |-> step.why, to |-> step.to, x |-> step.x, fn |-> step.fn,
         at |-> IF step = Idle THEN 0 ELSE FrameAt(t), left |-> step.left]

Abstract == INSTANCE StaticLink WITH frames <- Frames, walk <- Walk

(* The machine does what static links promise: every link leads to the     *)
(* activation it should, every load gets what the last store to that       *)
(* variable of that activation put there, and calls disturb no frame.      *)
ImplementsStaticLink == Abstract!Spec
WalkArrives == Abstract!WalkArrives
===============================================================================
