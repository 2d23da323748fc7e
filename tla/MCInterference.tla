----------------------------- MODULE MCInterference -----------------------------
(***************************************************************************)
(* Functions for TLC: every schedule of a number of blocks with properties *)
(* 3 to 7 of canon.c and of module Trace.  A block has a label, at most    *)
(* one statement, and falls through, jumps back, to the exit or out of the *)
(* function, or has a conditional jump whose false label follows.          *)
(***************************************************************************)
EXTENDS Interference

CONSTANTS
  NBlocks,
  Statements,   \* of a block: none or one
  Formals       \* the lists of formals in registers

\* The registers and temporaries.
MCTemps == {"s1", "saved", "a0", "copy", "v", "w"}
MCFormals == {<<>>, <<"v">>}
Exit == NBlocks + 1
Elsewhere == Exit + 1
MCLabels == 1 .. Exit
MCAllLabels == 1 .. Elsewhere

E == INSTANCE Emit WITH CalleeSave <- "s1", Saved <- "saved",
                        Argument <- "a0", Copy <- "copy"

Stm(kind, d, s) == <<[kind |-> kind, dst |-> d, src |-> s]>>

MCStatements == {<<>>, Stm("MOVE", {"w"}, {"v"}), Stm("OPER", {"v"}, {"w"})}

Endings(b) ==
  {<<[kind |-> "JUMP", label |-> l]>> : l \in 1 .. b \union {Exit, Elsewhere}}
    \union {<<[kind |-> "CJUMP", left |-> "v", truee |-> t, falsee |-> b + 1]>> :
              t \in MCLabels \ {b + 1}}
    \union (IF b < NBlocks THEN {<<>>} ELSE {})

LabelStm(b) == <<[kind |-> "LABEL", label |-> b]>>

Blocks(b) == {LabelStm(b) \o x \o y : x \in Statements, y \in Endings(b)}

Schedules ==
  {FlattenSeq(p) \o LabelStm(Exit) :
     p \in {q \in [1 .. NBlocks -> UNION {Blocks(b) : b \in 1 .. NBlocks}] :
              \A b \in 1 .. NBlocks : q[b] \in Blocks(b)}}

MCFunctions == {E!procEntryExit2(x, f) : x \in Schedules, f \in Formals}
===============================================================================
