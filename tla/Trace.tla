--------------------------------- MODULE Trace ---------------------------------
(***************************************************************************)
(* C_basicBlocks and C_traceSchedule (canon.c): the statements of one      *)
(* function are cut into basic blocks, and the blocks are put in an order  *)
(* in which every conditional jump is followed by its false label and many *)
(* jumps are not needed.                                                   *)
(*                                                                         *)
(* The recursion of mkBlocks and next is unrolled: one call is one step,   *)
(* and cur, the block under construction, says which of the two it is.     *)
(* So is the recursion of trace and getNext, which splice lists together   *)
(* front to back: out is the list as far as it is spliced, and target the  *)
(* block trace is called with (0: getNext is called).                      *)
(*                                                                         *)
(* A statement is a label, a jump to one label (translate.c makes no       *)
(* other), a conditional jump, or one that falls through.  Of an operator  *)
(* and its operands only the identity is kept, and whether T_notRel has    *)
(* been applied.                                                           *)
(***************************************************************************)
EXTENDS Integers, Sequences, FiniteSets, SequencesExt

CONSTANTS
  NLabels,     \* the labels of a program are 1 .. NLabels
  Programs     \* the lists C_linearize may return

Label(n) == [kind |-> "LABEL", label |-> n]
Jump(n) == [kind |-> "JUMP", label |-> n]
Cjump(id, t, f) == [kind |-> "CJUMP", id |-> id, truee |-> t, falsee |-> f,
                    negated |-> FALSE]
Plain(id) == [kind |-> "MOVE", id |-> id]

(* A break in a function declared inside a loop jumps to the label behind  *)
(* the loop, which another function has.                                   *)
Elsewhere == 0
Leaves(s) == s.kind = "JUMP" /\ s.label = Elsewhere

IsLabel(s) == s.kind = "LABEL"
EndsBlock(s) == s.kind \in {"JUMP", "CJUMP"}
HasEffect(s) == s.kind \in {"CJUMP", "MOVE"}

(* Every label is defined once, every label that is named is defined, but  *)
(* for that of a break, and no two statements with an effect are the same. *)
WellFormed(p) ==
  /\ p # <<>> /\ p \in Seq(ToSet(p))
  /\ \A n \in 1 .. NLabels : Cardinality({i \in DOMAIN p : p[i] = Label(n)}) = 1
  /\ \A i \in DOMAIN p :
       \/ \E n \in 1 .. NLabels : p[i] \in {Label(n), Jump(n)}
       \/ p[i] = Jump(Elsewhere)
       \/ \E t, f \in 1 .. NLabels : p[i] = Cjump(p[i].id, t, f)
       \/ p[i] = Plain(p[i].id)
  /\ \A i, j \in DOMAIN p :
       HasEffect(p[i]) /\ HasEffect(p[j]) /\ p[i].id = p[j].id => i = j

ASSUME NLabelsAssumption == NLabels \in Nat
ASSUME ProgramsAssumption == \A p \in Programs : WellFormed(p)

VARIABLES
  program,     \* what C_linearize returned; never written
  phase,
  labels,      \* the last label Temp_newlabel has made
  done,        \* b.label, where control goes at the end
  stms,        \* the statements mkBlocks and next have not reached
  cur,         \* next's block so far; empty in mkBlocks
  blocks,      \* b.stmLists
  env,         \* block_env: the block of a label, 0 (NULL) once it is traced
  sList,       \* the first element of global_block.stmLists
  target,
  out          \* the scheduled statements

cutting == <<stms, cur, blocks>>
scheduling == <<env, sList, target, out>>
vars == <<program, phase, labels, done, cutting, scheduling>>

-------------------------------------------------------------------------------
(* C_basicBlocks has made the exit label and calls mkBlocks.               *)
Init ==
  /\ program \in Programs
  /\ phase = "blocks"
  /\ labels = NLabels + 1
  /\ done = NLabels + 1
  /\ stms = program
  /\ cur = <<>>
  /\ blocks = <<>>
  /\ env = <<>>
  /\ sList = 1
  /\ target = 0
  /\ out = <<>>

(* mkBlocks(stms, done), stms not empty: a block begins, with a label of   *)
(* its own when the code has none.                                         *)
MkBlocks ==
  /\ phase = "blocks" /\ cur = <<>> /\ stms # <<>>
  /\ IF IsLabel(Head(stms))
     THEN /\ cur' = <<Head(stms)>>
          /\ stms' = Tail(stms)
          /\ UNCHANGED labels
     ELSE /\ labels' = labels + 1
          /\ cur' = <<Label(labels')>>
          /\ UNCHANGED stms
  /\ UNCHANGED <<program, phase, done, blocks, scheduling>>

(* next(prevstms, stms, done): the jump that ends the block, found or      *)
(* made, when the block ends here.  (What is introduced as a fault is a    *)
(* plausible bug no action uses.)                                          *)
Ending ==
  IF stms = <<>> THEN <<Jump(done)>>
  ELSE IF EndsBlock(Head(stms)) THEN <<Head(stms)>>
  ELSE IF IsLabel(Head(stms)) THEN <<Jump(Head(stms).label)>>
  ELSE <<>>

(* next: the block goes on.                                                *)
NextStm ==
  /\ phase = "blocks" /\ cur # <<>> /\ Ending = <<>>
  /\ cur' = Append(cur, Head(stms))
  /\ stms' = Tail(stms)
  /\ UNCHANGED <<program, phase, labels, done, blocks, scheduling>>

(* next: the block ends, and mkBlocks is called for what follows it.  A    *)
(* label is left for the next block, a jump of the program is consumed.    *)
EndBlock ==
  /\ phase = "blocks" /\ cur # <<>> /\ Ending # <<>>
  /\ blocks' = Append(blocks, cur \o Ending)
  /\ cur' = <<>>
  /\ stms' = IF stms # <<>> /\ EndsBlock(Head(stms)) THEN Tail(stms) ELSE stms
  /\ UNCHANGED <<program, phase, labels, done, scheduling>>

BlockLabel(b) == blocks[b][1].label

(* mkBlocks at the end of the list; C_traceSchedule enters all blocks in   *)
(* block_env and calls getNext.                                            *)
Schedule ==
  /\ phase = "blocks" /\ cur = <<>> /\ stms = <<>>
  /\ phase' = "schedule"
  /\ env' = [n \in {BlockLabel(b) : b \in DOMAIN blocks} |->
               CHOOSE b \in DOMAIN blocks : BlockLabel(b) = n]
  /\ UNCHANGED <<program, labels, done, cutting, sList, target, out>>

-------------------------------------------------------------------------------
(* S_look(block_env, n)                                                    *)
Look(n) == IF n \in DOMAIN env THEN env[n] ELSE 0

GetNext == phase = "schedule" /\ target = 0

(* getNext: no block is left.                                              *)
GetNextExit ==
  /\ GetNext /\ sList > Len(blocks)
  /\ out' = Append(out, Label(done))
  /\ phase' = "done"
  /\ UNCHANGED <<program, labels, done, cutting, env, sList, target>>

(* getNext: the first block of the list, if it has not been traced.  It    *)
(* stays in the list.  Fault: it is not asked whether it has been traced.  *)
GetNextBlockAgain ==
  /\ GetNext /\ sList <= Len(blocks)
  /\ target' = sList
  /\ sList' = sList + 1
  /\ UNCHANGED <<program, phase, labels, done, cutting, env, out>>

GetNextBlock ==
  /\ GetNext /\ sList <= Len(blocks)
  /\ Look(BlockLabel(sList)) # 0
  /\ target' = sList
  /\ UNCHANGED <<program, phase, labels, done, cutting, env, sList, out>>

(* The list without its first block.  Fault: it does not get shorter.      *)
RestStays == sList
Rest == sList + 1

GetNextSkip ==
  /\ GetNext /\ sList <= Len(blocks)
  /\ Look(BlockLabel(sList)) = 0
  /\ sList' = Rest
  /\ UNCHANGED <<program, phase, labels, done, cutting, env, target, out>>

(* trace(list) marks its block first and looks labels up after that.       *)
EnvMarked == [env EXCEPT ![BlockLabel(target)] = 0]

(* S_look finds a block.  Fault: only blocks further down the list count.  *)
IsFurtherDown(n) == n \in DOMAIN EnvMarked /\ EnvMarked[n] > target
IsUntraced(n) == n \in DOMAIN EnvMarked /\ EnvMarked[n] # 0

LastStm == Last(blocks[target])

Trace ==
  /\ phase = "schedule" /\ target # 0
  /\ env' = EnvMarked
  /\ UNCHANGED <<program, phase, done, cutting, sList>>

(* A jump to a block that is still to come: that block follows at once and *)
(* the jump is dropped.                                                    *)
TraceJump ==
  /\ Trace /\ LastStm.kind = "JUMP"
  /\ IsUntraced(LastStm.label)
  /\ out' = out \o Front(blocks[target])
  /\ target' = EnvMarked[LastStm.label]
  /\ UNCHANGED labels

(* A jump back, or to the exit, stays.                                     *)
TraceJumpBack ==
  /\ Trace /\ LastStm.kind = "JUMP"
  /\ ~IsUntraced(LastStm.label)
  /\ out' = out \o blocks[target]
  /\ target' = 0
  /\ UNCHANGED labels

(* The false block follows.                                                *)
TraceCjumpFalse ==
  /\ Trace /\ LastStm.kind = "CJUMP"
  /\ IsUntraced(LastStm.falsee)
  /\ out' = out \o blocks[target]
  /\ target' = EnvMarked[LastStm.falsee]
  /\ UNCHANGED labels

(* The true block follows, and the condition is turned round.  Faults: the *)
(* labels are swapped but T_notRel is forgotten, and the reverse.          *)
SwappedOnly(s) == [s EXCEPT !.truee = s.falsee, !.falsee = s.truee]

NegatedOnly(s) == [s EXCEPT !.negated = ~s.negated]

Swapped(s) == [s EXCEPT !.truee = s.falsee, !.falsee = s.truee,
                        !.negated = ~s.negated]

TraceCjumpTrue ==
  /\ Trace /\ LastStm.kind = "CJUMP"
  /\ ~IsUntraced(LastStm.falsee)
  /\ IsUntraced(LastStm.truee)
  /\ out' = Append(out \o Front(blocks[target]), Swapped(LastStm))
  /\ target' = EnvMarked[LastStm.truee]
  /\ UNCHANGED labels

(* Both are placed already: the jump gets a fresh false label, which       *)
(* follows it, and then whatever getNext has.                              *)
TraceCjumpNeither ==
  /\ Trace /\ LastStm.kind = "CJUMP"
  /\ ~IsUntraced(LastStm.falsee)
  /\ ~IsUntraced(LastStm.truee)
  /\ labels' = labels + 1
  /\ out' = (out \o Front(blocks[target]))
               \o <<[LastStm EXCEPT !.falsee = labels'], Label(labels')>>
  /\ target' = 0

Terminating == phase = "done" /\ UNCHANGED vars

Next ==
  \/ MkBlocks \/ NextStm \/ EndBlock \/ Schedule
  \/ GetNextExit \/ GetNextBlock \/ GetNextSkip
  \/ TraceJump \/ TraceJumpBack
  \/ TraceCjumpFalse \/ TraceCjumpTrue \/ TraceCjumpNeither
  \/ Terminating

Spec == Init /\ [][Next]_vars

(* One thread: what is enabled runs.                                       *)
FairSpec == Spec /\ WF_vars(Next)

-------------------------------------------------------------------------------
(* Properties 3 to 6 of the comment on C_basicBlocks: every block begins   *)
(* with a label and ends with a jump, and neither occurs anywhere else.    *)
BasicBlocks ==
  \A b \in DOMAIN blocks :
    /\ Len(blocks[b]) >= 2
    /\ \A i \in DOMAIN blocks[b] :
         /\ IsLabel(blocks[b][i]) <=> i = 1
         /\ EndsBlock(blocks[b][i]) <=> i = Len(blocks[b])

(* Property 7 of the comment on C_traceSchedule, while the schedule is     *)
(* being made too: every conditional jump is followed by its false label,  *)
(* or that label's block is the next to be placed.                         *)
FalseLabelFollows ==
  \A i \in DOMAIN out :
    out[i].kind = "CJUMP" =>
      IF i < Len(out) THEN out[i + 1] = Label(out[i].falsee)
      ELSE target # 0 /\ BlockLabel(target) = out[i].falsee

(* Nothing is lost and nothing is placed twice: every label and every      *)
(* statement with an effect of the program is in the schedule once, and    *)
(* so is the exit label, at the end.                                       *)
EffectIds(p) == {p[i].id : i \in {j \in DOMAIN p : HasEffect(p[j])}}

EverythingOnce ==
  phase = "done" =>
    /\ \A n \in 1 .. NLabels + 1 :
         Cardinality({i \in DOMAIN out : out[i] = Label(n)}) = 1
    /\ EffectIds(out) = EffectIds(program)
    /\ \A i, j \in DOMAIN out :
         HasEffect(out[i]) /\ HasEffect(out[j]) /\ out[i].id = out[j].id => i = j
    /\ out[Len(out)] = Label(done)

(* As many jumps as possible have gone: one that is left goes to the exit, *)
(* out of the function, or to a block placed earlier, which it could not   *)
(* have fallen into.                                                       *)
JumpsLeftGoBack ==
  \A i \in DOMAIN out :
    out[i].kind = "JUMP" =>
      out[i].label \in {done, Elsewhere} \/ \E j \in 1 .. i : out[j] = Label(out[i].label)

(* Control does not run into the exit label: what is placed last before it *)
(* is a jump, or the label of a conditional one, fresh by then.            *)
LeavesByJump(p) ==
  \E i \in DOMAIN p : EndsBlock(p[i]) /\ \A j \in i + 1 .. Len(p) : IsLabel(p[j])

ExitIsJumpedTo == phase = "done" => LeavesByJump(out)

(* No jump is left that could go, and none has gone that must stay.        *)
JumpsAsNeeded == JumpsLeftGoBack /\ ExitIsJumpedTo

-------------------------------------------------------------------------------
(* What a list of statements does.  From a position control goes on, over  *)
(* labels and along jumps, to the next statement with an effect, to the    *)
(* exit (0), round in circles (-1), or out of the function (-2).           *)
Place(p, n) ==
  IF \E i \in DOMAIN p : p[i] = Label(n)
  THEN CHOOSE i \in DOMAIN p : p[i] = Label(n)
  ELSE Len(p) + 1

Stops(p, i) == i > Len(p) \/ HasEffect(p[i]) \/ Leaves(p[i])

Onward(p, i) ==
  IF Stops(p, i) THEN i ELSE IF IsLabel(p[i]) THEN i + 1 ELSE Place(p, p[i].label)

(* Control that has not stopped after as many steps as the list has        *)
(* positions has been somewhere twice.                                     *)
From(p, i) ==
  LET at[k \in 0 .. Len(p) + 1] == IF k = 0 THEN i ELSE Onward(p, at[k - 1])
      j == at[Len(p) + 1]
  IN  IF ~Stops(p, j) THEN -1 ELSE IF j > Len(p) THEN 0
      ELSE IF Leaves(p[j]) THEN -2 ELSE p[j].id

(* What follows the statement at position i when its condition holds, and  *)
(* when it does not.                                                       *)
After(p, i) ==
  IF p[i].kind = "MOVE" THEN <<From(p, i + 1), From(p, i + 1)>>
  ELSE LET yes == From(p, Place(p, p[i].truee))
           no == From(p, Place(p, p[i].falsee))
       IN  IF p[i].negated THEN <<no, yes>> ELSE <<yes, no>>

(* The blocks and the schedule have properties 3 to 7 of those comments.   *)
Canonical == BasicBlocks /\ FalseLabelFollows

(* The lists that come from translate.c: Tr_ifExp, Tr_whileExp and         *)
(* Tr_forExp put the true label right behind the conditional jump, unEx    *)
(* and unNx the false one, and nothing else names that label.              *)
Targets(s) ==
  CASE s.kind = "JUMP" -> {s.label}
    [] s.kind = "CJUMP" -> {s.truee, s.falsee}
    [] OTHER -> {}

OwnLabelBehind(p) ==
  \A i \in DOMAIN p :
    p[i].kind = "CJUMP" =>
      /\ i < Len(p) /\ IsLabel(p[i + 1])
      /\ p[i + 1].label \in Targets(p[i])
      /\ \A j \in DOMAIN p \ {i} : p[i + 1].label \notin Targets(p[j])

(* The schedule of a program from translate.c does what the program does:  *)
(* it begins with the same effect, and from each effect goes on to the     *)
(* same one, whichever way the condition turns out.                        *)
ControlPreserved ==
  phase = "done" /\ OwnLabelBehind(program) =>
    /\ From(out, 1) = From(program, 1)
    /\ \A i \in DOMAIN program, j \in DOMAIN out :
         /\ HasEffect(program[i]) /\ HasEffect(out[j])
         /\ program[i].id = out[j].id
         => After(program, i) = After(out, j)

(* Both phases come to an end.                                             *)
Termination == <>(phase = "done")
===============================================================================
