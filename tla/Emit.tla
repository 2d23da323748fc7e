---------------------------------- MODULE Emit ----------------------------------
(***************************************************************************)
(* From a scheduled list of statements to the instructions of a function:  *)
(* munchStm and F_codegen (riscv_codegen.c), F_procEntryExit2              *)
(* (riscv_frame.c) and the end of doProc's preparations (main.c).          *)
(*                                                                         *)
(* Of expressions only the temporaries they use are kept.  One             *)
(* callee-saved register stands for all, the copy of the frame pointer     *)
(* included, one argument register for all, and one operand of a           *)
(* comparison for both.                                                    *)
(***************************************************************************)
EXTENDS Integers, Sequences, SequencesExt, FiniteSetsExt

CONSTANTS
  CalleeSave, Saved,   \* the register and the temporary that keeps it
  Argument,            \* a register that holds an argument
  Copy                 \* the safe copy of an operand

Oper(d, s, jumps) == [kind |-> "OPER", dst |-> d, src |-> s, jumps |-> jumps]
Move(d, s) == [kind |-> "MOVE", dst |-> d, src |-> s, jumps |-> <<>>]
LabelInstr(l) == [kind |-> "LABEL", label |-> l]

(* munchStm: a conditional jump becomes a branch with both labels and a    *)
(* jump to the false one.                                                  *)
munchStm(s) ==
  CASE s.kind = "LABEL" -> <<LabelInstr(s.label)>>
    [] s.kind = "JUMP" -> <<Oper({}, {}, <<s.label>>)>>
    [] s.kind = "CJUMP" -> <<Move({Copy}, {s.left}),
                             Oper({}, {Copy}, <<s.truee, s.falsee>>),
                             Oper({}, {}, <<s.falsee>>)>>
    [] s.kind = "MOVE" -> <<Move(s.dst, s.src)>>
    [] OTHER -> <<Oper(s.dst, s.src, <<>>)>>

Body(stms) == FlattenSeq([i \in DOMAIN stms |-> munchStm(stms[i])])

(* F_codegen: a block ends before a label and after a branch with two      *)
(* labels.                                                                 *)
BlockEnds(body) ==
  {i \in 1 .. Len(body) - 1 :
     /\ body[i].kind # "LABEL"
     /\ \/ body[i + 1].kind = "LABEL"
        \/ body[i].kind = "OPER" /\ Len(body[i].jumps) >= 2}

(* F_procEntryExit2: a use of the registers that must survive, the saves,  *)
(* of which the last ends a block, the formals taken from registers; and   *)
(* the restores behind the body, with the use again.                       *)
Save == <<Oper({}, {CalleeSave}, <<>>), Move({Saved}, {CalleeSave})>>
Restore == <<Move({CalleeSave}, {Saved}), Oper({}, {CalleeSave}, <<>>)>>

procEntryExit2(stms, formals) ==
  LET entry == Save \o [i \in DOMAIN formals |-> Move({formals[i]}, {Argument})]
      code == entry \o Body(stms) \o Restore
  IN  [il |-> code,
       lastInstr |-> {Len(Save)} \union {Len(entry) + i : i \in BlockEnds(Body(stms))}
                       \union {Len(code)}]
===============================================================================
