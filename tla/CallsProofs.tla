------------------------------- MODULE CallsProofs -------------------------------
(***************************************************************************)
(* That the machine of Calls.tla does what static links promise, for every *)
(* program: however deep its functions are nested, however many formals    *)
(* and variables they have, and however many activations there are.        *)
(*                                                                         *)
(* The inductive invariant is the layout of the stack: frames lie one      *)
(* below the other and apart (Stacked), the word at a frame pointer is     *)
(* the link that was handed over (Linked), and nothing is below the stack  *)
(* pointer.  So a push disturbs no frame, a store one word of one frame.   *)
(***************************************************************************)
EXTENDS Calls, FiniteSetTheorems, WellFoundedInduction, TLAPS

(* A set of naturals that is not empty has a least element.                *)
LEMMA LeastElement ==
  ASSUME NEW S, S \subseteq Nat, S # {}
  PROVE  \E x \in S : \A y \in S : x <= y
<1>1. PICK x \in S : \A y \in S : ~(<<y, x>> \in OpToRel(<, Nat))
  BY WFMin, NatLessThanWellFounded, Zenon
<1>2. ASSUME NEW y \in S PROVE ~(y < x)
  <2>1. y < x => <<y, x>> \in OpToRel(<, Nat)
    BY Zenon DEF OpToRel
  <2> QED
    BY <2>1, <1>1
<1>3. \A y \in S : x \in Nat /\ y \in Nat
  OBVIOUS
<1> QED
  BY <1>2, <1>3

(* Where the frame of an activation ends.                                  *)
Low(act) == act.fp - frameSize(act.fn)

Vars == {NoVar} \union UNION {Locals[f] : f \in Fns}

Activations ==
  [fn : Fns, fp : Int, copyFP : Int, link : Int, sent : Seq(Values),
   fetched : UNION {[D -> Values] : D \in SUBSET Nat}]

Stacked(s) ==
  /\ s \in Seq(Activations) /\ Len(s) >= 1 /\ s[1].fn = Main
  /\ \A i \in 2 .. Len(s) : /\ s[i].copyFP = s[i - 1].fp
                            /\ s[i].fp = Low(s[i - 1]) - popStack(s[i].fn)
  /\ \A j \in 1 .. Len(s) : \A i \in 1 .. j - 1 : s[j].fp < Low(s[i])

Linked(s, m) ==
  \A i \in 2 .. Len(s) : /\ s[i].fp \in DOMAIN m /\ m[s[i].fp] = s[i].link
                         /\ \E j \in 1 .. i - 1 : s[j].fp = s[i].link

-------------------------------------------------------------------------------
LEMMA Programs ==
  /\ \A f \in Fns : /\ Order[f] \in Seq(Locals[f]) /\ Formals[f] \in Seq(BOOLEAN)
                    /\ Locals[f] = {Order[f][i] : i \in DOMAIN Order[f]}
                    /\ Len(Order[f]) = Cardinality(Locals[f])
                    /\ Len(Order[f]) \in Nat /\ Len(Formals[f]) \in Nat
                    /\ DOMAIN Order[f] = 1 .. Len(Order[f])
                    /\ DOMAIN Formals[f] = 1 .. Len(Formals[f])
  /\ Main \in Fns /\ Fresh \in Values /\ Bottom \in Nat /\ Depth \in [Fns -> Nat]
  /\ Parent \in [Fns \ {Main} -> Fns] /\ Depth[Main] = 0
BY CallsAssumption, NestingAssumption DEF ToSet

LEMMA Escaping ==
  ASSUME NEW f \in Fns, NEW i \in Nat \ {0}
  PROVE  /\ EscapingBefore(f, i) \in Nat /\ EscapingBefore(f, i) <= i - 1
         /\ EscapingBefore(f, i + 1)
              = IF Formals[f][i] THEN EscapingBefore(f, i) + 1 ELSE EscapingBefore(f, i)
<1> DEFINE E(n) == {j \in 1 .. n - 1 : Formals[f][j]}
<1>1. \A n \in Nat \ {0} : IsFiniteSet(1 .. n - 1) /\ Cardinality(1 .. n - 1) = n - 1
  BY FS_Interval
<1>2. /\ IsFiniteSet(E(i)) /\ Cardinality(E(i)) \in Nat
      /\ Cardinality(E(i)) <= Cardinality(1 .. i - 1)
  <2>1. E(i) \subseteq 1 .. i - 1
    OBVIOUS
  <2> HIDE DEF E
  <2> QED
    BY <1>1, <2>1, FS_Subset, FS_CardinalityType
<1>3. E(i + 1) = IF Formals[f][i] THEN E(i) \union {i} ELSE E(i)
  <2>1. \A j : j \in 1 .. (i + 1) - 1 <=> j \in 1 .. i - 1 \/ j = i
    OBVIOUS
  <2> QED
    BY <2>1
<1>4. i \notin E(i)
  OBVIOUS
<1>5. EscapingBefore(f, i) = Cardinality(E(i)) /\ EscapingBefore(f, i + 1) = Cardinality(E(i + 1))
  BY DEF EscapingBefore
<1> HIDE DEF E
<1>6. Cardinality(E(i) \union {i}) = Cardinality(E(i)) + 1
  BY <1>2, <1>4, FS_AddElement
<1> QED
  BY <1>1, <1>2, <1>3, <1>5, <1>6

LEMMA InMemory ==
  ASSUME NEW f \in Fns
  PROVE  EscapingBefore(f, Len(Formals[f]) + 1) \in Nat /\ Len(Order[f]) \in Nat
<1>1. Len(Formals[f]) \in Nat /\ Len(Order[f]) \in Nat
  BY Programs
<1>2. Len(Formals[f]) + 1 \in Nat \ {0}
  BY <1>1
<1> QED
  BY <1>1, <1>2, Escaping

LEMMA Sizes ==
  ASSUME NEW f \in Fns
  PROVE  /\ frameSize(f) \in Nat /\ OnStack(f) \in SUBSET (1 .. Len(Formals[f]))
         /\ IsFiniteSet(OnStack(f)) /\ Cardinality(OnStack(f)) \in Nat
         /\ popStack(f) \in Nat /\ popStack(f) = 4 * (1 + Cardinality(OnStack(f)))
<1>1. EscapingBefore(f, Len(Formals[f]) + 1) \in Nat /\ Len(Order[f]) \in Nat
  BY InMemory
<1>2. frameSize(f) \in Nat
  BY <1>1 DEF frameSize, stack_size, F_wordSize
<1>3. OnStack(f) \subseteq 1 .. Len(Formals[f]) /\ Len(Formals[f]) \in Nat
  BY Programs DEF OnStack
<1>4. IsFiniteSet(1 .. Len(Formals[f]))
  BY <1>3, FS_Interval
<1>5. IsFiniteSet(OnStack(f)) /\ Cardinality(OnStack(f)) \in Nat
  BY <1>3, <1>4, FS_Subset, FS_CardinalityType
<1> QED
  BY <1>2, <1>3, <1>5 DEF popStack, F_wordSize

LEMMA Offsets ==
  ASSUME NEW e \in Nat, NEW n \in Nat, NEW i \in 1 .. n
  PROVE  /\ -((e + i) * 4) \in Int /\ -((e + i) * 4) <= -4
         /\ 4 - 4 * (1 + e + n) <= -((e + i) * 4)
OBVIOUS

(* The variables of a function have words of their own in its frame.       *)
LEMMA Words ==
  ASSUME NEW f \in Fns, NEW x \in Locals[f]
  PROVE  /\ F_allocLocal(f, x) \in Int
         /\ 4 - frameSize(f) <= F_allocLocal(f, x) /\ F_allocLocal(f, x) <= -4
         /\ \A y \in Locals[f] : F_allocLocal(f, x) = F_allocLocal(f, y) => x = y
<1> DEFINE place(y) == SelectInSeq(Order[f], LAMBDA z : z = y)
<1>1. ASSUME NEW y \in Locals[f]
      PROVE  place(y) \in 1 .. Len(Order[f]) /\ Order[f][place(y)] = y
  <2> DEFINE I == {i \in 1 .. Len(Order[f]) : Order[f][i] = y}
  <2>1. I # {} /\ I \subseteq Nat
    <3>1. Locals[f] = {Order[f][i] : i \in 1 .. Len(Order[f])}
      BY Programs
    <3>2. PICK i \in 1 .. Len(Order[f]) : Order[f][i] = y
      BY <3>1
    <3> QED
      BY <3>2
  <2>2. place(y) = Min(I)
    BY <2>1 DEF SelectInSeq
  <2> HIDE DEF I
  <2>3. Min(I) \in I
    BY <2>1, LeastElement DEF Min
  <2> QED
    BY <2>2, <2>3 DEF I
<1>2. EscapingBefore(f, Len(Formals[f]) + 1) \in Nat /\ Len(Order[f]) \in Nat
  BY InMemory
<1>3. \A y \in Locals[f] :
        F_allocLocal(f, y) = -((EscapingBefore(f, Len(Formals[f]) + 1) + place(y)) * 4)
  BY DEF F_allocLocal, InFrame, F_wordSize
<1>4. frameSize(f) = 4 * (1 + EscapingBefore(f, Len(Formals[f]) + 1) + Len(Order[f]))
  BY DEF frameSize, stack_size, F_wordSize
<1> HIDE DEF place
<1>5. \A y \in Locals[f] : F_allocLocal(f, x) = F_allocLocal(f, y) => place(x) = place(y)
  BY <1>1, <1>2, <1>3
<1>6. /\ F_allocLocal(f, x) \in Int /\ F_allocLocal(f, x) <= -4
      /\ 4 - frameSize(f) <= F_allocLocal(f, x)
  BY <1>1, <1>2, <1>3, <1>4, Offsets
<1> QED
  BY <1>1, <1>5, <1>6

-------------------------------------------------------------------------------
(* The frames that activations and a memory make, as a constant of both.   *)
ReadOf(m, a) == IF a \in DOMAIN m THEN m[a] ELSE Fresh

At(s, a) == SelectInSeq(s, LAMBDA act : act.fp = a)

Word(act, x) == act.fp + F_allocLocal(act.fn, x)

FrameOf(s, m, i) ==
  [fn |-> s[i].fn,
   link |-> IF i = 1 THEN 0 ELSE At(s, ReadOf(m, s[i].fp)),
   val |-> [x \in Locals[s[i].fn] |-> ReadOf(m, Word(s[i], x))]]

FramesOf(s, m) == [i \in DOMAIN s |-> FrameOf(s, m, i)]

WalkOf(st, s, a) ==
  [why |-> st.why, to |-> st.to, x |-> st.x, fn |-> st.fn,
   at |-> IF st = Idle THEN 0 ELSE At(s, a), left |-> st.left]

LEMMA Mapped ==
  /\ Frames = FramesOf(acts, mem) /\ Frames' = FramesOf(acts', mem')
  /\ Walk = WalkOf(step, acts, t) /\ Walk' = WalkOf(step', acts', t')
<1>1. Frames = FramesOf(acts, mem) /\ Frames' = FramesOf(acts', mem')
  BY DEF Frames, FramesOf, FrameOf, FrameAt, Read, ReadOf, At, Word, SelectInSeq
<1>2. Walk = WalkOf(step, acts, t) /\ Walk' = WalkOf(step', acts', t')
  BY DEF Walk, WalkOf, FrameAt, At, SelectInSeq
<1> QED
  BY <1>1, <1>2

LEMMA Types ==
  ASSUME NEW s \in Seq(Activations), NEW i \in 1 .. Len(s)
  PROVE  /\ s[i] \in Activations /\ s[i].fn \in Fns /\ s[i].fp \in Int /\ s[i].link \in Int
         /\ Low(s[i]) \in Int /\ Low(s[i]) <= s[i].fp
<1>1. s[i] \in Activations
  OBVIOUS
<1>2. s[i].fn \in Fns /\ s[i].fp \in Int /\ s[i].link \in Int
  BY <1>1 DEF Activations
<1>3. frameSize(s[i].fn) \in Nat
  BY <1>2, Sizes
<1> QED
  BY <1>1, <1>2, <1>3 DEF Low

(* Frames do not overlap, so a frame pointer says which activation it is   *)
(* of.                                                                     *)
LEMMA Apart ==
  ASSUME NEW s, Stacked(s), NEW i \in 1 .. Len(s), NEW j \in 1 .. Len(s), i # j
  PROVE  s[i].fp < Low(s[j]) \/ s[j].fp < Low(s[i])
<1>1. s \in Seq(Activations) /\ Len(s) \in Nat
  BY DEF Stacked
<1>2. i \in 1 .. j - 1 \/ j \in 1 .. i - 1
  BY <1>1
<1> QED
  BY <1>2 DEF Stacked

LEMMA AtIs ==
  ASSUME NEW s, Stacked(s), NEW j \in 1 .. Len(s)
  PROVE  At(s, s[j].fp) = j
<1> DEFINE I == {i \in 1 .. Len(s) : s[i].fp = s[j].fp}
<1>1. ASSUME NEW i \in 1 .. Len(s), i # j PROVE s[i].fp # s[j].fp
  <2>1. s \in Seq(Activations)
    BY DEF Stacked
  <2>2. /\ Low(s[i]) <= s[i].fp /\ Low(s[j]) <= s[j].fp /\ s[i].fp \in Int /\ s[j].fp \in Int
        /\ Low(s[i]) \in Int /\ Low(s[j]) \in Int
    BY <2>1, Types
  <2> QED
    BY <1>1, <2>2, Apart
<1>2. I = {j}
  BY <1>1
<1>3. At(s, s[j].fp) = IF I # {} THEN Min(I) ELSE 0
  BY DEF At, SelectInSeq
<1> HIDE DEF I
<1>4. Min({j}) = j
  BY DEF Min
<1> QED
  BY <1>2, <1>3, <1>4

LEMMA FrameIs ==
  ASSUME NEW s, NEW m, Stacked(s), Linked(s, m)
  PROVE  /\ Len(s) \in Nat \ {0} /\ DOMAIN s = 1 .. Len(s)
         /\ FramesOf(s, m) = [i \in 1 .. Len(s) |-> FrameOf(s, m, i)]
         /\ Len(FramesOf(s, m)) = Len(s)
         /\ \A i \in 2 .. Len(s) : \E j \in 1 .. i - 1 :
              s[i].link = s[j].fp /\ FrameOf(s, m, i).link = j
<1>1. s \in Seq(Activations) /\ Len(s) \in Nat \ {0} /\ DOMAIN s = 1 .. Len(s)
  BY DEF Stacked
<1>2. FramesOf(s, m) = [i \in 1 .. Len(s) |-> FrameOf(s, m, i)]
  BY <1>1 DEF FramesOf
<1>3. Len(FramesOf(s, m)) = Len(s)
  BY <1>1, <1>2
<1>4. ASSUME NEW i \in 2 .. Len(s)
      PROVE  \E j \in 1 .. i - 1 : s[i].link = s[j].fp /\ FrameOf(s, m, i).link = j
  <2>1. s[i].fp \in DOMAIN m /\ m[s[i].fp] = s[i].link
    BY DEF Linked
  <2>2. PICK j \in 1 .. i - 1 : s[j].fp = s[i].link
    BY DEF Linked
  <2>3. j \in 1 .. Len(s) /\ i # 1
    BY <1>1
  <2>4. At(s, s[i].link) = j
    BY <2>2, <2>3, AtIs
  <2>5. FrameOf(s, m, i).link = j
    BY <2>1, <2>3, <2>4 DEF FrameOf, ReadOf
  <2> QED
    BY <2>2, <2>5
<1> QED
  BY <1>1, <1>2, <1>3, <1>4

(* A frame is what its activation and its words make it.                   *)
LEMMA SameFrame ==
  ASSUME NEW s, NEW m, Stacked(s), Linked(s, m), NEW r, NEW n, Stacked(r), Linked(r, n),
         NEW i \in 1 .. Len(s), i \in 1 .. Len(r), \A j \in 1 .. i : r[j] = s[j],
         \A x \in Locals[s[i].fn] : ReadOf(n, Word(s[i], x)) = ReadOf(m, Word(s[i], x))
  PROVE  FrameOf(r, n, i) = FrameOf(s, m, i)
<1>1. r[i] = s[i] /\ Len(s) \in Nat /\ Len(r) \in Nat
  BY FrameIs
<1>2. FrameOf(r, n, i).link = FrameOf(s, m, i).link
  <2>1. CASE i = 1
    BY <2>1 DEF FrameOf
  <2>2. CASE i # 1
    <3>1. i \in 2 .. Len(s) /\ i \in 2 .. Len(r)
      BY <1>1, <2>2
    <3>2. PICK j \in 1 .. i - 1 : s[i].link = s[j].fp /\ FrameOf(s, m, i).link = j
      BY <3>1, FrameIs
    <3>3. PICK k \in 1 .. i - 1 : r[i].link = r[k].fp /\ FrameOf(r, n, i).link = k
      BY <3>1, FrameIs
    <3>4. j \in 1 .. i /\ k \in 1 .. i /\ j \in 1 .. Len(s) /\ k \in 1 .. Len(s)
      BY <1>1, <3>1
    <3>5. s[j].fp = s[k].fp
      BY <1>1, <3>2, <3>3, <3>4
    <3>6. j = k
      BY <3>4, <3>5, AtIs
    <3> QED
      BY <3>2, <3>3, <3>6
  <2> QED
    BY <2>1, <2>2
<1>3. FrameOf(r, n, i).val = FrameOf(s, m, i).val
  BY <1>1 DEF FrameOf
<1> QED
  BY <1>1, <1>2, <1>3 DEF FrameOf

(* The words of a frame are in it.                                         *)
LEMMA WordIn ==
  ASSUME NEW s, Stacked(s), NEW i \in 1 .. Len(s), NEW x \in Locals[s[i].fn]
  PROVE  Word(s[i], x) \in Int /\ Low(s[i]) < Word(s[i], x) /\ Word(s[i], x) < s[i].fp
<1>1. s \in Seq(Activations)
  BY DEF Stacked
<1>2. s[i].fn \in Fns /\ s[i].fp \in Int
  BY <1>1, Types
<1>3. /\ F_allocLocal(s[i].fn, x) \in Int /\ frameSize(s[i].fn) \in Nat
      /\ 4 - frameSize(s[i].fn) <= F_allocLocal(s[i].fn, x) /\ F_allocLocal(s[i].fn, x) <= -4
  BY <1>2, Words, Sizes
<1> QED
  BY <1>2, <1>3 DEF Word, Low

LEMMA WordsApart ==
  ASSUME NEW s, Stacked(s), NEW i \in 1 .. Len(s), NEW x \in Locals[s[i].fn],
         NEW j \in 1 .. Len(s), NEW y \in Locals[s[j].fn], Word(s[i], x) = Word(s[j], y)
  PROVE  i = j /\ x = y
<1>1. s \in Seq(Activations)
  BY DEF Stacked
<1>2. /\ s[i].fn \in Fns /\ s[i].fp \in Int /\ Low(s[i]) \in Int
      /\ s[j].fp \in Int /\ Low(s[j]) \in Int
  BY <1>1, Types
<1>3. /\ Low(s[i]) < Word(s[i], x) /\ Word(s[i], x) < s[i].fp /\ Word(s[i], x) \in Int
      /\ Low(s[j]) < Word(s[j], y) /\ Word(s[j], y) < s[j].fp
  BY WordIn
<1>4. i = j
  BY <1>2, <1>3, Apart
<1>5. F_allocLocal(s[i].fn, x) = F_allocLocal(s[i].fn, y)
  <2>1. F_allocLocal(s[i].fn, x) \in Int /\ F_allocLocal(s[i].fn, y) \in Int
    BY <1>2, <1>4, Words
  <2> QED
    BY <1>2, <1>4, <2>1 DEF Word
<1> QED
  BY <1>2, <1>4, <1>5, Words

-------------------------------------------------------------------------------
(* What has been pushed for the call under way.                            *)
Pushed(st) ==
  IF st.why = "call" THEN Cardinality({i \in OnStack(st.fn) : i > st.n}) ELSE 0

StepOK ==
  /\ step \in [why : {"idle", "call", "use"}, to : Fns, x : Vars, fn : Fns, left : Int,
               args : Seq(Values), n : Nat]
  /\ step.why = "idle" => step = Idle
  /\ step.why = "call" => Len(step.args) = Len(Formals[step.fn]) /\ step.n <= Len(step.args)
  /\ step.why = "use" => step.x \in Locals[step.to]

(* An argument already handed over in a register is still there.           *)
RegsHold ==
  /\ regs \in [ArgRegs -> Values]
  /\ step.why = "call" =>
       \A i \in 1 .. Len(step.args) :
         i > step.n /\ ~Formals[step.fn][i] => regs[PassedIn(step.fn, i)] = step.args[i]

Arrived(act) ==
  /\ Len(act.sent) <= Len(Formals[act.fn])
  /\ \A i \in 1 .. Len(act.sent) : ~Formals[act.fn][i] => act.fetched[i] = act.sent[i]

Pointers ==
  /\ fp = acts[Len(acts)].fp
  /\ sp = Low(acts[Len(acts)]) - 4 * Pushed(step)
  /\ DOMAIN mem \subseteq {a \in Int : sp <= a}
  /\ step.why # "idle" => \E j \in 1 .. Len(acts) : t = acts[j].fp

Machine ==
  /\ Stacked(acts) /\ Linked(acts, mem) /\ Pointers /\ StepOK /\ RegsHold
  /\ \A k \in 1 .. Len(acts) : Arrived(acts[k])

LEMMA IdleIs ==
  /\ Idle \in [why : {"idle", "call", "use"}, to : Fns, x : Vars, fn : Fns, left : Int,
               args : Seq(Values), n : Nat]
  /\ Idle.why = "idle" /\ Pushed(Idle) = 0 /\ Idle.left = 0
BY Programs DEF Idle, Vars, Pushed

LEMMA PushedIs ==
  ASSUME NEW st, st.fn \in Fns, st.n \in Nat
  PROVE  /\ Pushed(st) \in Nat
         /\ st.why = "call" /\ st.n >= Len(Formals[st.fn]) => Pushed(st) = 0
         /\ st.why = "call" /\ st.n = 0 => Pushed(st) = Cardinality(OnStack(st.fn))
<1> DEFINE P == {i \in OnStack(st.fn) : i > st.n}
<1>1. /\ OnStack(st.fn) \in SUBSET (1 .. Len(Formals[st.fn])) /\ IsFiniteSet(OnStack(st.fn))
      /\ Len(Formals[st.fn]) \in Nat
  BY Sizes, Programs
<1>2. Cardinality(P) \in Nat
  <2>1. P \subseteq OnStack(st.fn)
    OBVIOUS
  <2> HIDE DEF P
  <2> QED
    BY <1>1, <2>1, FS_Subset, FS_CardinalityType
<1>3. st.n >= Len(Formals[st.fn]) => P = {}
  BY <1>1
<1>4. st.n = 0 => P = OnStack(st.fn)
  BY <1>1
<1>5. Pushed(st) = IF st.why = "call" THEN Cardinality(P) ELSE 0
  BY DEF Pushed
<1> HIDE DEF P
<1>6. st.n >= Len(Formals[st.fn]) => Cardinality(P) = 0
  BY <1>3, FS_EmptySet
<1>7. st.n = 0 => Cardinality(P) = Cardinality(OnStack(st.fn))
  BY <1>4
<1> QED
  BY <1>2, <1>5, <1>6, <1>7

(* One argument more or less.                                              *)
LEMMA PushedNext ==
  ASSUME NEW st, st.why = "call", st.fn \in Fns, st.n \in Nat \ {0},
         st.n <= Len(Formals[st.fn]),
         NEW su, su.why = "call", su.fn = st.fn, su.n = st.n - 1
  PROVE  Pushed(su) = IF Formals[st.fn][st.n] THEN Pushed(st) + 1 ELSE Pushed(st)
<1> DEFINE P(n) == {i \in OnStack(st.fn) : i > n}
<1>1. /\ OnStack(st.fn) \in SUBSET (1 .. Len(Formals[st.fn])) /\ IsFiniteSet(OnStack(st.fn))
      /\ Len(Formals[st.fn]) \in Nat
  BY Sizes, Programs
<1>2. IsFiniteSet(P(st.n)) /\ st.n \notin P(st.n)
  <2>1. P(st.n) \subseteq OnStack(st.fn) /\ st.n \notin P(st.n)
    OBVIOUS
  <2> HIDE DEF P
  <2> QED
    BY <1>1, <2>1, FS_Subset
<1>3. st.n \in OnStack(st.fn) <=> Formals[st.fn][st.n]
  BY Programs DEF OnStack
<1>4. P(st.n - 1) = IF Formals[st.fn][st.n] THEN P(st.n) \union {st.n} ELSE P(st.n)
  BY <1>1, <1>3
<1>5. Pushed(st) = Cardinality(P(st.n)) /\ Pushed(su) = Cardinality(P(st.n - 1))
  BY DEF Pushed
<1> HIDE DEF P
<1>6. Cardinality(P(st.n) \union {st.n}) = Cardinality(P(st.n)) + 1
  BY <1>2, FS_AddElement
<1>7. CASE Formals[st.fn][st.n]
  BY <1>4, <1>5, <1>6, <1>7
<1>8. CASE ~Formals[st.fn][st.n]
  BY <1>4, <1>5, <1>8
<1> QED
  BY <1>7, <1>8

LEMMA InitMachine ==
  ASSUME Init
  PROVE  Machine
<1>1. /\ acts = <<[fn |-> Main, fp |-> Bottom, copyFP |-> 0, fetched |-> <<>>, sent |-> <<>>,
                   link |-> 0]>>
      /\ fp = Bottom /\ sp = Bottom - frameSize(Main) /\ mem = <<>> /\ step = Idle
      /\ regs = NoArgs
  BY DEF Init
<1>2. <<>> \in UNION {[D -> Values] : D \in SUBSET Nat} /\ <<>> \in Seq(Values)
  <2>1. <<>> \in [{} -> Values] /\ {} \in SUBSET Nat
    OBVIOUS
  <2> QED
    BY <2>1
<1>3. acts[1] \in Activations
  <2> DEFINE Fetched == UNION {[D -> Values] : D \in SUBSET Nat}
  <2>1. acts[1] = [fn |-> Main, fp |-> Bottom, copyFP |-> 0, fetched |-> <<>>, sent |-> <<>>,
                   link |-> 0]
    BY <1>1
  <2>3. <<>> \in Fetched
    BY <1>2
  <2>4. Bottom \in Int /\ 0 \in Int /\ Main \in Fns
    BY Programs
  <2>2. Activations = [fn : Fns, fp : Int, copyFP : Int, link : Int, sent : Seq(Values),
                       fetched : Fetched]
    BY DEF Activations
  <2> HIDE DEF Fetched
  <2> QED
    BY <1>2, <2>1, <2>2, <2>3, <2>4
<1>4. acts \in Seq(Activations) /\ Len(acts) = 1
  BY <1>1, <1>3
<1>5. Stacked(acts) /\ Linked(acts, mem)
  BY <1>1, <1>4 DEF Stacked, Linked
<1>6. Pointers
  BY <1>1, <1>4, IdleIs, Programs, Sizes DEF Pointers, Low
<1>7. StepOK /\ RegsHold
  BY <1>1, IdleIs, Programs DEF StepOK, RegsHold, NoArgs
<1>8. \A k \in 1 .. Len(acts) : Arrived(acts[k])
  BY <1>1, <1>4, Programs DEF Arrived
<1> QED
  BY <1>5, <1>6, <1>7, <1>8 DEF Machine

-------------------------------------------------------------------------------
(* What a walk must be for the machine to go right: it is not at the       *)
(* outermost function while fetches are left, and when none is left it is  *)
(* at the function it was to find.  Links!Inv below says so.               *)
Guided ==
  step.why # "idle" =>
    \A j \in 1 .. Len(acts) : t = acts[j].fp =>
      (step.left > 0 => j # 1) /\ (step.left = 0 => acts[j].fn = step.to)

LEMMA LastIs ==
  ASSUME Machine
  PROVE  /\ acts \in Seq(Activations) /\ Len(acts) \in Nat \ {0} /\ Len(acts) \in 1 .. Len(acts)
         /\ Act = acts[Len(acts)] /\ Running = acts[Len(acts)].fn /\ Running \in Fns
         /\ fp \in Int /\ sp \in Int /\ Pushed(step) \in Nat
         /\ \A i \in 1 .. Len(acts) : /\ acts[i].fn \in Fns /\ acts[i].fp \in Int
                                      /\ Low(acts[i]) \in Int /\ sp <= Low(acts[i])
                                      /\ Low(acts[i]) <= acts[i].fp
<1>1. acts \in Seq(Activations) /\ Len(acts) \in Nat \ {0} /\ Len(acts) \in 1 .. Len(acts)
  BY DEF Machine, Stacked
<1>2. \A i \in 1 .. Len(acts) : /\ acts[i].fn \in Fns /\ acts[i].fp \in Int
                                /\ Low(acts[i]) \in Int /\ Low(acts[i]) <= acts[i].fp
  BY <1>1, Types
<1>3. Pushed(step) \in Nat
  BY PushedIs DEF Machine, StepOK
<1>4. sp \in Int /\ fp \in Int /\ sp <= Low(acts[Len(acts)])
  BY <1>1, <1>2, <1>3 DEF Machine, Pointers
<1>5. ASSUME NEW i \in 1 .. Len(acts) PROVE sp <= Low(acts[i])
  <2>1. CASE i = Len(acts)
    BY <1>4, <2>1
  <2>2. CASE i # Len(acts)
    <3>1. i \in 1 .. Len(acts) - 1
      BY <1>1, <2>2
    <3>2. acts[Len(acts)].fp < Low(acts[i])
      BY <1>1, <3>1 DEF Machine, Stacked
    <3> QED
      BY <1>1, <1>2, <1>4, <3>2
  <2> QED
    BY <2>1, <2>2
<1> QED
  BY <1>1, <1>2, <1>3, <1>4, <1>5 DEF Act, Running, Last

(* A step that leaves the stack alone.                                     *)
LEMMA SameStack ==
  ASSUME Machine, UNCHANGED <<acts, mem, fp, sp, regs>>, StepOK', RegsHold',
         Pushed(step') = Pushed(step),
         step'.why # "idle" => \E j \in 1 .. Len(acts) : t' = acts[j].fp
  PROVE  Machine'
BY DEF Machine, Pointers, Pushed

LEMMA StartCallMachine ==
  ASSUME Machine, NEW f \in Fns, NEW args \in [DOMAIN Formals[f] -> Values], StartCall(f, args)
  PROVE  Machine'
<1>1. args \in Seq(Values) /\ Len(args) = Len(Formals[f]) /\ Len(args) \in Nat
  BY Programs
<1>2. /\ step = Idle /\ f # Main /\ t' = fp /\ UNCHANGED <<mem, fp, sp, regs, acts>>
      /\ step' = [why |-> "call", to |-> Parent[f], x |-> NoVar, fn |-> f,
                  left |-> CallHops(f), args |-> args, n |-> Len(args)]
  BY DEF StartCall
<1>3. CallHops(f) \in Int
  <2>1. Running \in Fns
    BY LastIs
  <2>2. Depth[Running] \in Int /\ Depth[f] \in Int
    BY <2>1, Programs
  <2> QED
    BY <2>2 DEF CallHops
<1>4. StepOK' /\ step'.fn = f /\ step'.n = Len(args) /\ step'.args = args /\ step'.why = "call"
  <2>1. Parent[f] \in Fns /\ NoVar \in Vars
    BY <1>2, Programs DEF Vars
  <2> HIDE DEF Vars
  <2> QED
    BY <1>1, <1>2, <1>3, <2>1 DEF StepOK
<1>5. RegsHold'
  BY <1>1, <1>2, <1>4 DEF Machine, RegsHold
<1>6. Pushed(step') = Pushed(step)
  BY <1>1, <1>2, <1>4, IdleIs, PushedIs
<1>7. \E j \in 1 .. Len(acts) : t' = acts[j].fp
  BY <1>2, LastIs DEF Machine, Pointers
<1> QED
  BY <1>2, <1>4, <1>5, <1>6, <1>7, SameStack

LEMMA StartUseMachine ==
  ASSUME Machine, NEW g \in Fns, NEW x \in Locals[g], StartUse(g, x)
  PROVE  Machine'
<1>1. /\ step = Idle /\ t' = fp /\ UNCHANGED <<mem, fp, sp, regs, acts>>
      /\ step' = [Idle EXCEPT !.why = "use", !.to = g, !.x = x, !.left = UseHops(g)]
  BY DEF StartUse
<1>2. UseHops(g) \in Int
  <2>1. Running \in Fns
    BY LastIs
  <2>2. Depth[Running] \in Int /\ Depth[g] \in Int
    BY <2>1, Programs
  <2> QED
    BY <2>2 DEF UseHops
<1>3. StepOK' /\ step'.why = "use"
  <2>1. x \in Vars
    BY DEF Vars
  <2> HIDE DEF Vars
  <2>2. step' = [why |-> "use", to |-> g, x |-> x, fn |-> Main, left |-> UseHops(g),
                 args |-> <<>>, n |-> 0]
    BY <1>1 DEF Idle
  <2>3. <<>> \in Seq(Values)
    OBVIOUS
  <2> QED
    BY <1>2, <2>1, <2>2, <2>3, Programs DEF StepOK
<1>4. RegsHold' /\ Pushed(step') = Pushed(step)
  BY <1>1, <1>3, IdleIs DEF Machine, RegsHold, Pushed
<1>5. \E j \in 1 .. Len(acts) : t' = acts[j].fp
  BY <1>1, LastIs DEF Machine, Pointers
<1> QED
  BY <1>1, <1>3, <1>4, <1>5, SameStack

LEMMA FollowMachine ==
  ASSUME Machine, Guided, Follow
  PROVE  /\ Machine'
         /\ \E i \in 2 .. Len(acts) : t = acts[i].fp /\ t' = acts[i].link
<1>1. /\ step.left > 0 /\ t' = Read(t) /\ step' = [step EXCEPT !.left = @ - 1]
      /\ UNCHANGED <<mem, fp, sp, regs, acts>>
  BY DEF Follow
<1>2. step.why # "idle" /\ step.left \in Int
  BY <1>1, IdleIs DEF Machine, StepOK
<1>3. PICK i \in 1 .. Len(acts) : t = acts[i].fp
  BY <1>2 DEF Machine, Pointers
<1>4. i \in 2 .. Len(acts)
  BY <1>1, <1>2, <1>3, LastIs DEF Guided
<1>5. t' = acts[i].link
  BY <1>1, <1>3, <1>4 DEF Machine, Linked, Read
<1>6. PICK j \in 1 .. i - 1 : acts[j].fp = acts[i].link
  BY <1>4 DEF Machine, Linked
<1>7. /\ StepOK' /\ step'.why = step.why /\ step'.fn = step.fn /\ step'.n = step.n
      /\ step'.args = step.args
  <2> DEFINE st == step
  <2>1. st.left - 1 \in Int
    BY <1>2
  <2>2. /\ step' \in [why : {"idle", "call", "use"}, to : Fns, x : Vars, fn : Fns, left : Int,
                      args : Seq(Values), n : Nat]
        /\ step'.why = step.why /\ step'.fn = step.fn /\ step'.n = step.n
        /\ step'.args = step.args /\ step'.x = step.x /\ step'.to = step.to
    BY <1>1, <2>1 DEF Machine, StepOK
  <2> QED
    BY <1>2, <2>2 DEF Machine, StepOK
<1>8. RegsHold' /\ Pushed(step') = Pushed(step)
  BY <1>1, <1>7 DEF Machine, RegsHold, Pushed
<1>9. \E k \in 1 .. Len(acts) : t' = acts[k].fp
  <2>1. j \in 1 .. Len(acts)
    BY <1>4, LastIs
  <2> QED
    BY <1>5, <1>6, <2>1
<1> QED
  BY <1>1, <1>3, <1>4, <1>5, <1>7, <1>8, <1>9, SameStack

-------------------------------------------------------------------------------
(* No two formals are passed in the same register.                         *)
LEMMA RegsApart ==
  ASSUME NEW f \in Fns, NEW i \in DOMAIN Formals[f], NEW j \in DOMAIN Formals[f], i < j,
         ~Formals[f][i]
  PROVE  PassedIn(f, i) < PassedIn(f, j)
<1> DEFINE E(n) == {k \in 1 .. n - 1 : Formals[f][k]}
           D == i + 1 .. j - 1
<1>1. i \in Nat \ {0} /\ j \in Nat \ {0} /\ DOMAIN Formals[f] = 1 .. Len(Formals[f])
  BY Programs
<1>2. \A n \in Nat \ {0} : IsFiniteSet(1 .. n - 1)
  BY FS_Interval
<1>3. IsFiniteSet(D) /\ Cardinality(D) = j - 1 - i
  <2>1. i + 1 \in Int /\ j - 1 \in Int
    BY <1>1
  <2>2. IsFiniteSet(D) /\ Cardinality(D) = IF i + 1 > j - 1 THEN 0 ELSE (j - 1) - (i + 1) + 1
    BY <2>1, FS_Interval
  <2> HIDE DEF D
  <2> QED
    BY <1>1, <2>2
<1>4. E(j) \subseteq E(i) \union D
  BY <1>1
<1>5. IsFiniteSet(E(i)) /\ IsFiniteSet(E(j))
  <2>1. E(i) \subseteq 1 .. i - 1 /\ E(j) \subseteq 1 .. j - 1
    OBVIOUS
  <2> HIDE DEF E
  <2> QED
    BY <1>1, <1>2, <2>1, FS_Subset
<1>6. EscapingBefore(f, i) = Cardinality(E(i)) /\ EscapingBefore(f, j) = Cardinality(E(j))
  BY DEF EscapingBefore
<1>7. EscapingBefore(f, i) \in Nat /\ EscapingBefore(f, j) \in Nat
  BY <1>1, Escaping
<1> HIDE DEF E, D
<1>8. IsFiniteSet(E(i) \union D) /\ Cardinality(E(i) \union D) <= Cardinality(E(i)) + Cardinality(D)
  <2>1. /\ IsFiniteSet(E(i) \union D)
        /\ Cardinality(E(i) \union D)
             = Cardinality(E(i)) + Cardinality(D) - Cardinality(E(i) \intersect D)
    BY <1>3, <1>5, FS_Union
  <2>2. IsFiniteSet(E(i) \intersect D)
    BY <1>3, <1>5, FS_Intersection
  <2>3. /\ Cardinality(E(i) \intersect D) \in Nat /\ Cardinality(E(i)) \in Nat
        /\ Cardinality(D) \in Nat
    BY <1>3, <1>5, <2>2, FS_CardinalityType
  <2> QED
    BY <2>1, <2>3
<1>9. Cardinality(E(j)) <= Cardinality(E(i) \union D) /\ Cardinality(E(i) \union D) \in Nat
  BY <1>4, <1>8, FS_Subset, FS_CardinalityType
<1>10. EscapingBefore(f, j) <= EscapingBefore(f, i) + (j - 1 - i)
  BY <1>1, <1>3, <1>6, <1>7, <1>8, <1>9
<1> QED
  BY <1>1, <1>7, <1>10 DEF PassedIn

(* There is a register for every formal that wants one: what the assert of *)
(* F_allocFormals sees to.                                                 *)
LEMMA InRegister ==
  ASSUME NEW f \in Fns, NEW i \in DOMAIN Formals[f], ~Formals[f][i]
  PROVE  PassedIn(f, i) \in ArgRegs /\ FetchedFrom(f, i) = PassedIn(f, i)
<1>1. i \in Nat \ {0}
  BY Programs
<1>2. EscapingBefore(f, i) \in Nat /\ EscapingBefore(f, i) <= i - 1
  BY <1>1, Escaping
<1>3. i - 1 - EscapingBefore(f, i) < 7
  BY RegistersAssumption DEF ARG_IN_REG
<1> QED
  BY <1>1, <1>2, <1>3 DEF PassedIn, FetchedFrom, ArgRegs, ARG_IN_REG

(* A word that is not the link of any frame can be written.                *)
LEMMA LinkedWrite ==
  ASSUME NEW s, Linked(s, mem), NEW a, NEW v, \A i \in 2 .. Len(s) : s[i].fp # a
  PROVE  Linked(s, Write(a, v))
<1> SUFFICES ASSUME NEW i \in 2 .. Len(s)
             PROVE  /\ s[i].fp \in DOMAIN Write(a, v) /\ Write(a, v)[s[i].fp] = s[i].link
                    /\ \E j \in 1 .. i - 1 : s[j].fp = s[i].link
  BY DEF Linked
<1>1. /\ s[i].fp \in DOMAIN mem /\ mem[s[i].fp] = s[i].link
      /\ \E j \in 1 .. i - 1 : s[j].fp = s[i].link
  BY DEF Linked
<1> QED
  BY <1>1 DEF Write

LEMMA HandOverMachine ==
  ASSUME Machine, HandOver
  PROVE  /\ Machine'
         /\ \A b \in Int : sp <= b => ReadOf(mem', b) = ReadOf(mem, b)
<1> DEFINE f == step.fn
           n == step.n
           L == Len(acts)
<1>1. /\ step.why = "call" /\ step.left = 0 /\ n > 0
      /\ step' = [step EXCEPT !.n = @ - 1] /\ fp' = fp /\ t' = t /\ acts' = acts
  BY DEF HandOver, Found
<1>2. /\ f \in Fns /\ n \in Nat \ {0} /\ n <= Len(step.args) /\ Len(step.args) = Len(Formals[f])
      /\ Len(step.args) \in Nat /\ step.args \in Seq(Values)
  BY <1>1 DEF Machine, StepOK
<1>3. /\ StepOK' /\ step'.why = "call" /\ step'.fn = f /\ step'.n = n - 1
      /\ step'.args = step.args
  <2>1. n - 1 \in Nat
    BY <1>2
  <2>2. /\ step' \in [why : {"idle", "call", "use"}, to : Fns, x : Vars, fn : Fns, left : Int,
                      args : Seq(Values), n : Nat]
        /\ step'.why = step.why /\ step'.fn = step.fn /\ step'.n = step.n - 1
        /\ step'.args = step.args /\ step'.x = step.x /\ step'.to = step.to
    BY <1>1, <2>1 DEF Machine, StepOK
  <2> QED
    BY <1>1, <1>2, <2>2 DEF Machine, StepOK
<1>4. n \in DOMAIN Formals[f] /\ n \in 1 .. Len(step.args)
  BY <1>2, Programs
<1>5. Pushed(step') = IF Formals[f][n] THEN Pushed(step) + 1 ELSE Pushed(step)
  BY <1>1, <1>2, <1>3, PushedNext
<1>6. step.args[n] \in Values
  BY <1>2, <1>4
<1>7. /\ acts \in Seq(Activations) /\ L \in Nat \ {0} /\ L \in 1 .. L
      /\ fp \in Int /\ sp \in Int /\ Pushed(step) \in Nat
      /\ \A i \in 1 .. L : acts[i].fp \in Int /\ Low(acts[i]) \in Int /\ sp <= Low(acts[i])
                           /\ Low(acts[i]) <= acts[i].fp
  BY LastIs
<1>8. CASE Formals[f][n]
  <2>1. sp' = sp - 4 /\ mem' = Write(sp - 4, step.args[n]) /\ regs' = regs
    BY <1>8 DEF HandOver, F_wordSize
  <2>2. Linked(acts, mem')
    <3>1. \A i \in 2 .. L : acts[i].fp # sp - 4
      BY <1>7
    <3> QED
      BY <2>1, <3>1, LinkedWrite DEF Machine
  <2>3. DOMAIN mem' \subseteq {a \in Int : sp - 4 <= a}
    <3>1. DOMAIN mem' = DOMAIN mem \union {sp - 4}
      BY <2>1 DEF Write
    <3> QED
      BY <1>7, <3>1 DEF Machine, Pointers
  <2>4. sp - 4 = Low(acts[L]) - 4 * Pushed(step')
    <3>1. sp = Low(acts[L]) - 4 * Pushed(step) /\ Low(acts[L]) \in Int
      BY <1>7 DEF Machine, Pointers
    <3>2. Pushed(step') = Pushed(step) + 1 /\ Pushed(step) \in Nat
      BY <1>5, <1>7, <1>8
    <3> QED
      BY <3>1, <3>2
  <2>5. Pointers'
    BY <1>1, <2>1, <2>3, <2>4 DEF Machine, Pointers, Low, Pushed
  <2>6. RegsHold'
    <3> SUFFICES ASSUME NEW i \in 1 .. Len(step.args), i > n - 1, ~Formals[f][i]
                 PROVE  regs[PassedIn(f, i)] = step.args[i]
      BY <1>3, <2>1 DEF Machine, RegsHold, PassedIn, EscapingBefore
    <3>1. i > n
      BY <1>2, <1>8
    <3> QED
      BY <1>1, <3>1 DEF Machine, RegsHold
  <2>7. Machine'
    BY <1>1, <1>3, <2>2, <2>5, <2>6 DEF Machine
  <2>8. ASSUME NEW b \in Int, sp <= b PROVE ReadOf(mem', b) = ReadOf(mem, b)
    <3>1. b # sp - 4
      BY <1>7, <2>8
    <3> QED
      BY <2>1, <3>1 DEF Write, ReadOf
  <2> QED
    BY <2>7, <2>8
<1>9. CASE ~Formals[f][n]
  <2>1. sp' = sp /\ mem' = mem /\ regs' = [regs EXCEPT ![PassedIn(f, n)] = step.args[n]]
    BY <1>9 DEF HandOver
  <2>2. PassedIn(f, n) \in ArgRegs
    BY <1>2, <1>4, <1>9, InRegister
  <2>3. Pointers'
    BY <1>1, <1>5, <1>9, <2>1 DEF Machine, Pointers, Low, Pushed
  <2>4. regs' \in [ArgRegs -> Values]
    BY <1>6, <2>1, <2>2 DEF Machine, RegsHold
  <2>5. ASSUME NEW i \in 1 .. Len(step.args), i > n - 1, ~Formals[f][i]
        PROVE  regs'[PassedIn(f, i)] = step.args[i]
    <3>1. CASE i = n
      BY <2>1, <2>2, <3>1 DEF Machine, RegsHold
    <3>2. CASE i # n
      <4>1. i > n /\ i \in DOMAIN Formals[f]
        BY <1>2, <2>5, <3>2, Programs
      <4>2. PassedIn(f, n) < PassedIn(f, i)
        BY <1>2, <1>4, <1>9, <4>1, RegsApart
      <4>3. PassedIn(f, i) \in ArgRegs /\ PassedIn(f, i) # PassedIn(f, n)
        <5>1. PassedIn(f, i) \in ArgRegs
          BY <1>2, <2>5, <4>1, InRegister
        <5> QED
          BY <2>2, <4>2, <5>1 DEF ArgRegs, ARG_IN_REG
      <4>4. regs[PassedIn(f, i)] = step.args[i]
        BY <1>1, <2>5, <4>1 DEF Machine, RegsHold
      <4> QED
        BY <2>1, <4>3, <4>4 DEF Machine, RegsHold
    <3> QED
      BY <3>1, <3>2
  <2>6. RegsHold'
    BY <1>3, <2>4, <2>5 DEF RegsHold, PassedIn, EscapingBefore
  <2> QED
    BY <1>1, <1>3, <2>1, <2>3, <2>6 DEF Machine
<1> QED
  BY <1>8, <1>9

(* A frame on top of the stack.                                            *)
LEMMA OneMore ==
  ASSUME NEW s, Stacked(s), NEW act \in Activations, act.copyFP = s[Len(s)].fp,
         act.fp = Low(s[Len(s)]) - popStack(act.fn),
         \A i \in 1 .. Len(s) : act.fp < Low(s[i])
  PROVE  /\ Stacked(Append(s, act)) /\ Len(Append(s, act)) = Len(s) + 1 /\ Len(s) \in Nat \ {0}
         /\ Append(s, act)[Len(s) + 1] = act
         /\ \A i \in 1 .. Len(s) : Append(s, act)[i] = s[i]
<1> DEFINE r == Append(s, act)
           L == Len(s)
<1>1. s \in Seq(Activations) /\ L \in Nat \ {0} /\ s[1].fn = Main
  BY DEF Stacked
<1>2. /\ r \in Seq(Activations) /\ Len(r) = L + 1 /\ r[L + 1] = act
      /\ \A i \in 1 .. L : r[i] = s[i]
  BY <1>1
<1> HIDE DEF r
<1>3. r[1].fn = Main
  BY <1>1, <1>2
<1>4. ASSUME NEW i \in 2 .. L + 1
      PROVE  r[i].copyFP = r[i - 1].fp /\ r[i].fp = Low(r[i - 1]) - popStack(r[i].fn)
  <2>1. CASE i = L + 1
    <3>1. i - 1 = L /\ L \in 1 .. L
      BY <1>1, <2>1
    <3>2. r[i] = act /\ r[i - 1] = s[L]
      BY <1>2, <2>1, <3>1
    <3> QED
      BY <3>2
  <2>2. CASE i # L + 1
    <3>1. i \in 2 .. L /\ i \in 1 .. L /\ i - 1 \in 1 .. L
      BY <1>1, <2>2
    <3>2. r[i] = s[i] /\ r[i - 1] = s[i - 1]
      BY <1>2, <3>1
    <3> QED
      BY <3>1, <3>2 DEF Stacked
  <2> QED
    BY <2>1, <2>2
<1>5. ASSUME NEW j \in 1 .. L + 1, NEW i \in 1 .. j - 1
      PROVE  r[j].fp < Low(r[i])
  <2>1. i \in 1 .. L
    BY <1>1
  <2>2. CASE j = L + 1
    BY <1>2, <2>1, <2>2
  <2>3. CASE j # L + 1
    <3>1. j \in 1 .. L
      BY <1>1, <2>3
    <3>2. s[j].fp < Low(s[i])
      BY <3>1 DEF Stacked
    <3> QED
      BY <1>2, <2>1, <3>1, <3>2
  <2> QED
    BY <2>2, <2>3
<1>6. Stacked(r)
  BY <1>1, <1>2, <1>3, <1>4, <1>5 DEF Stacked
<1> QED
  BY <1>1, <1>2, <1>6 DEF r

LEMMA EnterMachine ==
  ASSUME Machine, Enter
  PROVE  /\ Machine'
         /\ Len(acts') = Len(acts) + 1 /\ \A i \in 1 .. Len(acts) : acts'[i] = acts[i]
         /\ acts'[Len(acts) + 1].fn = step.fn /\ acts'[Len(acts) + 1].link = t
         /\ acts'[Len(acts) + 1].fp = sp - 4
         /\ \A b \in Int : sp <= b => ReadOf(mem', b) = ReadOf(mem, b)
         /\ \A b \in Int : b < sp - 4 => ReadOf(mem', b) = Fresh
<1> DEFINE f == step.fn
           L == Len(acts)
           D == DOMAIN Formals[f] \ OnStack(f)
           fetches == [i \in D |-> regs[FetchedFrom(f, i)]]
           new == [fn |-> f, fp |-> sp - 4, copyFP |-> fp, fetched |-> fetches,
                   sent |-> step.args, link |-> t]
<1>1. /\ step.why = "call" /\ step.left = 0 /\ step.n = 0
      /\ mem' = Write(sp - 4, t) /\ fp' = sp - 4 /\ sp' = sp - 4 - frameSize(f)
      /\ acts' = Append(acts, new) /\ step' = Idle /\ t' = 0 /\ regs' = regs
  BY DEF Enter, Found, F_wordSize
<1>2. /\ f \in Fns /\ Len(step.args) = Len(Formals[f]) /\ Len(step.args) \in Nat
      /\ step.args \in Seq(Values)
  BY <1>1 DEF Machine, StepOK
<1>3. /\ acts \in Seq(Activations) /\ L \in Nat \ {0} /\ L \in 1 .. L
      /\ fp \in Int /\ sp \in Int
      /\ \A i \in 1 .. L : acts[i].fp \in Int /\ Low(acts[i]) \in Int /\ sp <= Low(acts[i])
                           /\ Low(acts[i]) <= acts[i].fp
  BY LastIs
<1>4. PICK j \in 1 .. L : t = acts[j].fp
  BY <1>1 DEF Machine, Pointers
<1>5. /\ sp - 4 = Low(acts[L]) - popStack(f) /\ frameSize(f) \in Nat
      /\ DOMAIN Formals[f] = 1 .. Len(Formals[f])
  <2>1. Pushed(step) = Cardinality(OnStack(f))
    BY <1>1, <1>2, PushedIs
  <2>2. Cardinality(OnStack(f)) \in Nat /\ popStack(f) = 4 * (1 + Cardinality(OnStack(f)))
    BY <1>2, Sizes
  <2>3. sp = Low(acts[L]) - 4 * Pushed(step) /\ Low(acts[L]) \in Int
    BY <1>3 DEF Machine, Pointers
  <2>4. sp - 4 = Low(acts[L]) - popStack(f)
    BY <2>1, <2>2, <2>3
  <2>5. frameSize(f) \in Nat /\ DOMAIN Formals[f] = 1 .. Len(Formals[f])
    BY <1>2, Sizes, Programs
  <2> QED
    BY <2>4, <2>5
<1>6. ASSUME NEW i \in D
      PROVE  i \in Nat /\ ~Formals[f][i] /\ PassedIn(f, i) \in ArgRegs
             /\ fetches[i] = regs[PassedIn(f, i)]
  <2>1. i \in DOMAIN Formals[f] /\ ~Formals[f][i] /\ i \in Nat
    BY <1>5 DEF OnStack
  <2>2. PassedIn(f, i) \in ArgRegs /\ FetchedFrom(f, i) = PassedIn(f, i)
    BY <1>2, <2>1, InRegister
  <2> QED
    BY <2>1, <2>2
<1>7. fetches \in [D -> Values] /\ D \in SUBSET Nat
  <2>1. \A i \in D : regs[FetchedFrom(f, i)] \in Values /\ i \in Nat
    <3> SUFFICES ASSUME NEW i \in D PROVE regs[FetchedFrom(f, i)] \in Values /\ i \in Nat
      OBVIOUS
    <3>1. PassedIn(f, i) \in ArgRegs /\ fetches[i] = regs[PassedIn(f, i)] /\ i \in Nat
      BY <1>6
    <3> QED
      BY <3>1 DEF Machine, RegsHold
  <2> HIDE DEF D
  <2> QED
    BY <2>1
<1>8. new \in Activations
  <2> DEFINE Fetched == UNION {[C -> Values] : C \in SUBSET Nat}
  <2>1. fetches \in Fetched
    <3> HIDE DEF fetches, D
    <3> QED
      BY <1>7
  <2>2. Activations = [fn : Fns, fp : Int, copyFP : Int, link : Int, sent : Seq(Values),
                       fetched : Fetched]
    BY DEF Activations
  <2>3. t \in Int /\ sp - 4 \in Int
    BY <1>3, <1>4
  <2> HIDE DEF Fetched, fetches
  <2> QED
    BY <1>2, <1>3, <2>1, <2>2, <2>3
<1>9. Arrived(new)
  <2> SUFFICES ASSUME NEW i \in 1 .. Len(step.args), ~Formals[f][i]
               PROVE  fetches[i] = step.args[i]
    <3>1. new.fn = f /\ new.sent = step.args /\ new.fetched = fetches
      OBVIOUS
    <3> HIDE DEF new, fetches
    <3>2. Len(new.sent) <= Len(Formals[new.fn])
      BY <1>2, <3>1
    <3> QED
      BY <3>1, <3>2 DEF Arrived
  <2>1. i \in D /\ i > step.n
    BY <1>1, <1>2, <1>5 DEF OnStack
  <2>2. regs[PassedIn(f, i)] = step.args[i]
    BY <1>1, <2>1 DEF Machine, RegsHold
  <2> QED
    BY <1>6, <2>1, <2>2
<1>10. /\ new.fp = sp - 4 /\ new.fn = f /\ new.copyFP = fp /\ new.link = t
  OBVIOUS
<1> HIDE DEF new, fetches, D
<1>11. /\ Stacked(acts') /\ Len(acts') = L + 1 /\ acts'[L + 1] = new
       /\ \A i \in 1 .. L : acts'[i] = acts[i]
  <2>1. \A i \in 1 .. L : new.fp < Low(acts[i])
    BY <1>3, <1>10
  <2>2. Stacked(acts) /\ new.copyFP = acts[L].fp /\ new.fp = Low(acts[L]) - popStack(new.fn)
    BY <1>5, <1>10 DEF Machine, Pointers
  <2> QED
    BY <1>1, <1>8, <2>1, <2>2, OneMore
<1>12. Linked(acts', mem')
  <2> SUFFICES ASSUME NEW i \in 2 .. L + 1
               PROVE  /\ acts'[i].fp \in DOMAIN mem' /\ mem'[acts'[i].fp] = acts'[i].link
                      /\ \E k \in 1 .. i - 1 : acts'[k].fp = acts'[i].link
    BY <1>11 DEF Linked
  <2>1. CASE i = L + 1
    <3>1. acts'[i].fp = sp - 4 /\ acts'[i].link = t
      BY <1>10, <1>11, <2>1
    <3>2. j \in 1 .. i - 1 /\ acts'[j].fp = t
      BY <1>3, <1>4, <1>11, <2>1
    <3> QED
      BY <1>1, <3>1, <3>2 DEF Write
  <2>2. CASE i # L + 1
    <3>1. i \in 2 .. L /\ i \in 1 .. L
      BY <1>3, <2>2
    <3>2. /\ acts[i].fp \in DOMAIN mem /\ mem[acts[i].fp] = acts[i].link
      BY <3>1 DEF Machine, Linked
    <3>3. PICK k \in 1 .. i - 1 : acts[k].fp = acts[i].link
      BY <3>1 DEF Machine, Linked
    <3>4. k \in 1 .. L
      BY <1>3, <3>1
    <3>5. acts'[i] = acts[i] /\ acts'[k] = acts[k]
      BY <1>11, <3>1, <3>4
    <3>6. acts[i].fp \in Int /\ sp \in Int /\ sp <= acts[i].fp
      <4>1. acts[i].fp \in Int /\ Low(acts[i]) \in Int /\ sp <= Low(acts[i])
            /\ Low(acts[i]) <= acts[i].fp
        BY <1>3, <3>1
      <4> QED
        BY <1>3, <4>1
    <3>7. acts[i].fp # sp - 4
      BY <3>6
    <3> QED
      BY <1>1, <3>2, <3>3, <3>5, <3>7 DEF Write
  <2> QED
    BY <2>1, <2>2
<1>13. Pointers'
  <2>1. fp' = acts'[L + 1].fp /\ Low(acts'[L + 1]) = sp - 4 - frameSize(f)
    BY <1>1, <1>10, <1>11 DEF Low
  <2>2. DOMAIN mem' \subseteq {a \in Int : sp - 4 - frameSize(f) <= a}
    <3>1. DOMAIN mem' = DOMAIN mem \union {sp - 4}
      BY <1>1 DEF Write
    <3> QED
      BY <1>3, <1>5, <3>1 DEF Machine, Pointers
  <2>3. /\ step'.why = "idle" /\ Pushed(step') = 0 /\ sp' = sp - 4 - frameSize(f)
        /\ sp' \in Int
    BY <1>1, <1>3, <1>5, IdleIs
  <2>4. sp' = Low(acts'[L + 1]) - 4 * 0
    BY <2>1, <2>3
  <2> QED
    BY <1>11, <2>1, <2>2, <2>3, <2>4 DEF Pointers, Pushed, Low
<1>14. StepOK' /\ RegsHold'
  BY <1>1, IdleIs DEF Machine, StepOK, RegsHold
<1>15. \A k \in 1 .. Len(acts') : Arrived(acts'[k])
  <2> SUFFICES ASSUME NEW k \in 1 .. L + 1 PROVE Arrived(acts'[k])
    BY <1>11
  <2>1. CASE k = L + 1
    BY <1>9, <1>11, <2>1
  <2>2. CASE k # L + 1
    <3>1. k \in 1 .. L
      BY <1>3, <2>2
    <3> QED
      BY <1>11, <3>1 DEF Machine
  <2> QED
    BY <2>1, <2>2
<1>16. Machine'
  BY <1>11, <1>12, <1>13, <1>14, <1>15 DEF Machine, Arrived
<1>17. ASSUME NEW b \in Int, sp <= b PROVE ReadOf(mem', b) = ReadOf(mem, b)
  <2>1. b # sp - 4
    BY <1>3, <1>17
  <2> QED
    BY <1>1, <2>1 DEF Write, ReadOf
<1>18. ASSUME NEW b \in Int, b < sp - 4 PROVE ReadOf(mem', b) = Fresh
  <2>1. b # sp - 4 /\ b \notin DOMAIN mem
    BY <1>3, <1>18 DEF Machine, Pointers
  <2> QED
    BY <1>1, <2>1 DEF Write, ReadOf
<1> QED
  BY <1>10, <1>11, <1>16, <1>17, <1>18

LEMMA LoadMachine ==
  ASSUME Machine, Load
  PROVE  Machine'
<1>1. step.why = "use" /\ step' = Idle /\ UNCHANGED <<mem, fp, sp, regs, acts>>
  BY DEF Load, Found
<1>2. StepOK' /\ RegsHold' /\ Pushed(step') = Pushed(step) /\ step'.why = "idle"
  BY <1>1, IdleIs DEF Machine, StepOK, RegsHold, Pushed
<1> QED
  BY <1>1, <1>2, SameStack

(* The word that a use has found is the one of its variable.               *)
LEMMA SlotIs ==
  ASSUME Machine, Guided, step.why = "use", step.left = 0
  PROVE  \E j \in 1 .. Len(acts) :
           t = acts[j].fp /\ acts[j].fn = step.to /\ step.x \in Locals[acts[j].fn]
           /\ Slot = Word(acts[j], step.x)
<1>1. PICK j \in 1 .. Len(acts) : t = acts[j].fp
  BY DEF Machine, Pointers
<1>2. acts[j].fn = step.to
  BY <1>1 DEF Guided
<1>3. step.x \in Locals[step.to]
  BY DEF Machine, StepOK
<1> QED
  BY <1>1, <1>2, <1>3 DEF Slot, Word

LEMMA StoreMachine ==
  ASSUME Machine, Guided, NEW v, Store(v)
  PROVE  Machine'
<1>1. /\ step.why = "use" /\ step.left = 0 /\ step' = Idle /\ mem' = Write(Slot, v)
      /\ UNCHANGED <<fp, sp, regs, acts>>
  BY DEF Store, Found
<1>2. PICK j \in 1 .. Len(acts) :
        step.x \in Locals[acts[j].fn] /\ Slot = Word(acts[j], step.x)
  BY <1>1, SlotIs
<1>3. Slot \in Int /\ Low(acts[j]) < Slot /\ Slot < acts[j].fp
  BY <1>2, WordIn DEF Machine
<1>4. /\ Low(acts[j]) \in Int /\ sp \in Int /\ acts[j].fp \in Int
      /\ \A i \in 1 .. Len(acts) : /\ acts[i].fp \in Int /\ Low(acts[i]) \in Int
                                   /\ sp <= Low(acts[i]) /\ Low(acts[i]) <= acts[i].fp
  BY LastIs
<1>5. ASSUME NEW i \in 1 .. Len(acts) PROVE acts[i].fp # Slot
  <2>1. CASE i = j
    BY <1>3, <1>4, <2>1
  <2>2. CASE i # j
    <3>1. acts[i].fp < Low(acts[j]) \/ acts[j].fp < Low(acts[i])
      BY <2>2, Apart DEF Machine
    <3> QED
      BY <1>3, <1>4, <3>1
  <2> QED
    BY <2>1, <2>2
<1>6. Linked(acts, mem')
  <2>1. \A i \in 2 .. Len(acts) : acts[i].fp # Slot
    BY <1>5
  <2> QED
    BY <1>1, <2>1, LinkedWrite DEF Machine
<1>7. DOMAIN mem' \subseteq {a \in Int : sp <= a}
  <2>1. DOMAIN mem' = DOMAIN mem \union {Slot} /\ sp <= Slot
    BY <1>1, <1>3, <1>4 DEF Write
  <2> QED
    BY <1>3, <2>1 DEF Machine, Pointers
<1>8. StepOK' /\ RegsHold' /\ Pushed(step') = Pushed(step) /\ step'.why = "idle"
  BY <1>1, IdleIs DEF Machine, StepOK, RegsHold, Pushed
<1>9. Pointers'
  BY <1>1, <1>7, <1>8 DEF Machine, Pointers, Pushed, Low
<1> QED
  BY <1>1, <1>6, <1>8, <1>9 DEF Machine

LEMMA ReturnMachine ==
  ASSUME Machine, Return
  PROVE  /\ Machine'
         /\ Len(acts') = Len(acts) - 1 /\ \A i \in 1 .. Len(acts) - 1 : acts'[i] = acts[i]
         /\ sp' \in Int
         /\ \A i \in 1 .. Len(acts) - 1 : Low(acts[i]) \in Int /\ sp' <= Low(acts[i])
         /\ \A b \in Int : sp' <= b => ReadOf(mem', b) = ReadOf(mem, b)
<1> DEFINE L == Len(acts)
<1>1. /\ step = Idle /\ L > 1 /\ sp' = sp + frameSize(Running) + popStack(Running)
      /\ fp' = acts[L].copyFP /\ acts' = Front(acts) /\ regs' = NoArgs /\ step' = step
      /\ mem' = [a \in {b \in DOMAIN mem : b >= sp'} |-> mem[a]]
  BY LastIs DEF Return
<1>2. /\ acts \in Seq(Activations) /\ L \in Nat \ {0} /\ Running = acts[L].fn /\ sp \in Int
      /\ Running \in Fns
      /\ \A i \in 1 .. L : /\ acts[i].fp \in Int /\ Low(acts[i]) \in Int
                           /\ sp <= Low(acts[i]) /\ Low(acts[i]) <= acts[i].fp
  BY LastIs
<1>3. /\ Len(acts') = L - 1 /\ acts' \in Seq(Activations) /\ L - 1 \in Nat \ {0}
      /\ \A i \in 1 .. L - 1 : acts'[i] = acts[i]
  BY <1>1, <1>2 DEF Front
<1>4. \A i \in 1 .. L - 1 : i \in 1 .. L
  BY <1>2
<1>5. L \in 2 .. L /\ L - 1 \in 1 .. L /\ L \in 1 .. L
  BY <1>2, <1>3
<1>6. acts[L].copyFP = acts[L - 1].fp /\ acts[L].fp = Low(acts[L - 1]) - popStack(acts[L].fn)
  BY <1>5 DEF Machine, Stacked
<1>7. sp' = Low(acts[L - 1]) /\ sp' \in Int
  <2>1. sp = acts[L].fp - frameSize(Running) - 4 * 0
    BY <1>1, <1>2, IdleIs DEF Machine, Pointers, Low
  <2>2. popStack(Running) \in Nat /\ frameSize(Running) \in Nat
    BY <1>2, Sizes
  <2>3. Low(acts[L - 1]) \in Int /\ acts[L].fp \in Int
    BY <1>2, <1>5
  <2>4. /\ sp' = sp + frameSize(Running) + popStack(Running)
        /\ acts[L].fp = Low(acts[L - 1]) - popStack(Running)
    BY <1>1, <1>2, <1>6
  <2> QED
    BY <2>1, <2>2, <2>3, <2>4
<1>8. ASSUME NEW i \in 1 .. L - 1 PROVE sp' <= Low(acts[i])
  <2>1. CASE i = L - 1
    BY <1>2, <1>5, <1>7, <2>1
  <2>2. CASE i # L - 1
    <3>1. i \in 1 .. (L - 1) - 1
      BY <1>3, <2>2
    <3>2. acts[L - 1].fp < Low(acts[i])
      BY <1>5, <3>1 DEF Machine, Stacked
    <3>3. /\ Low(acts[i]) \in Int /\ Low(acts[L - 1]) \in Int /\ acts[L - 1].fp \in Int
          /\ Low(acts[L - 1]) <= acts[L - 1].fp
      BY <1>2, <1>4, <1>5
    <3> QED
      BY <1>7, <3>2, <3>3
  <2> QED
    BY <2>1, <2>2
<1>9. Stacked(acts')
  <2>1. acts'[1].fn = Main
    BY <1>3 DEF Machine, Stacked
  <2>2. ASSUME NEW i \in 2 .. L - 1
        PROVE  acts'[i].copyFP = acts'[i - 1].fp
               /\ acts'[i].fp = Low(acts'[i - 1]) - popStack(acts'[i].fn)
    <3>1. i \in 2 .. L /\ i \in 1 .. L - 1 /\ i - 1 \in 1 .. L - 1
      BY <1>3
    <3> QED
      BY <1>3, <3>1 DEF Machine, Stacked
  <2>3. ASSUME NEW j \in 1 .. L - 1, NEW i \in 1 .. j - 1
        PROVE  acts'[j].fp < Low(acts'[i])
    <3>1. j \in 1 .. L /\ i \in 1 .. L - 1
      BY <1>3
    <3> QED
      BY <1>3, <3>1 DEF Machine, Stacked
  <2> QED
    BY <1>3, <2>1, <2>2, <2>3 DEF Stacked
<1>10. Linked(acts', mem')
  <2> SUFFICES ASSUME NEW i \in 2 .. L - 1
               PROVE  /\ acts'[i].fp \in DOMAIN mem' /\ mem'[acts'[i].fp] = acts'[i].link
                      /\ \E k \in 1 .. i - 1 : acts'[k].fp = acts'[i].link
    BY <1>3 DEF Linked
  <2>1. i \in 2 .. L /\ i \in 1 .. L - 1 /\ acts'[i] = acts[i]
    BY <1>3
  <2>2. acts[i].fp \in DOMAIN mem /\ mem[acts[i].fp] = acts[i].link
    BY <2>1 DEF Machine, Linked
  <2>3. PICK k \in 1 .. i - 1 : acts[k].fp = acts[i].link
    BY <2>1 DEF Machine, Linked
  <2>4. k \in 1 .. L - 1 /\ acts'[k] = acts[k]
    BY <1>3
  <2>5. acts[i].fp >= sp'
    <3>1. sp' <= Low(acts[i]) /\ i \in 1 .. L
      BY <1>4, <1>8, <2>1
    <3> QED
      BY <1>2, <1>7, <3>1
  <2> QED
    BY <1>1, <2>1, <2>2, <2>3, <2>4, <2>5
<1>11. Pointers'
  <2>1. fp' = acts'[L - 1].fp /\ sp' = Low(acts'[L - 1])
    BY <1>1, <1>3, <1>6, <1>7
  <2>2. DOMAIN mem' \subseteq {a \in Int : sp' <= a}
    <3>1. DOMAIN mem' = {b \in DOMAIN mem : b >= sp'}
      BY <1>1
    <3>2. DOMAIN mem \subseteq Int
      BY DEF Machine, Pointers
    <3> QED
      BY <1>7, <3>1, <3>2
  <2>3. step'.why = "idle" /\ Pushed(step') = 0
    BY <1>1, IdleIs
  <2>4. sp' = Low(acts'[L - 1]) - 4 * 0
    BY <1>7, <2>1
  <2> QED
    BY <1>3, <2>1, <2>2, <2>3, <2>4 DEF Pointers, Pushed, Low
<1>12. StepOK' /\ RegsHold'
  <2>1. StepOK'
    BY <1>1 DEF Machine, StepOK
  <2>2. NoArgs \in [ArgRegs -> Values]
    BY Programs DEF NoArgs
  <2>3. step'.why = "idle"
    BY <1>1, IdleIs
  <2> QED
    BY <1>1, <2>1, <2>2, <2>3 DEF RegsHold
<1>13. \A k \in 1 .. Len(acts') : Arrived(acts'[k])
  BY <1>3, <1>4 DEF Machine
<1>14. Machine'
  BY <1>9, <1>10, <1>11, <1>12, <1>13 DEF Machine, Arrived
<1>15. ASSUME NEW b \in Int, sp' <= b PROVE ReadOf(mem', b) = ReadOf(mem, b)
  <2>1. b >= sp'
    BY <1>7, <1>15
  <2> QED
    BY <1>1, <2>1 DEF ReadOf
<1>16. \A i \in 1 .. L - 1 : Low(acts[i]) \in Int
  BY <1>2, <1>4
<1> QED
  BY <1>3, <1>7, <1>8, <1>14, <1>15, <1>16

LEMMA StepMachine ==
  ASSUME Machine, Guided, [Next]_vars
  PROVE  Machine'
<1>1. ASSUME NEW f \in Fns, NEW args \in [DOMAIN Formals[f] -> Values], StartCall(f, args)
      PROVE  Machine'
  BY <1>1, StartCallMachine
<1>2. ASSUME NEW g \in Fns, NEW x \in Locals[g], StartUse(g, x)
      PROVE  Machine'
  BY <1>2, StartUseMachine
<1>3. CASE Follow
  BY <1>3, FollowMachine
<1>4. CASE HandOver
  BY <1>4, HandOverMachine
<1>5. CASE Enter
  BY <1>5, EnterMachine
<1>6. CASE Load
  BY <1>6, LoadMachine
<1>7. ASSUME NEW v \in Values, Store(v)
      PROVE  Machine'
  BY <1>7, StoreMachine
<1>8. CASE Return
  BY <1>8, ReturnMachine
<1>9. CASE UNCHANGED vars
  BY <1>9 DEF vars, Machine, Pointers, StepOK, RegsHold
<1> QED
  BY <1>1, <1>2, <1>3, <1>4, <1>5, <1>6, <1>7, <1>8, <1>9 DEF Next

-------------------------------------------------------------------------------
(* What StaticLink.tla promises, and what is proved of it, for the frames  *)
(* and walks of the machine.                                               *)
Links == INSTANCE StaticLinkProofs WITH frames <- Frames, walk <- Walk

LEMMA WalkAt ==
  ASSUME NEW st, st.why # "idle", NEW s, Stacked(s), NEW j \in 1 .. Len(s)
  PROVE  WalkOf(st, s, s[j].fp) = [why |-> st.why, to |-> st.to, x |-> st.x, fn |-> st.fn,
                                   at |-> j, left |-> st.left]
<1>1. st # Idle
  BY IdleIs
<1>2. At(s, s[j].fp) = j
  BY AtIs
<1> QED
  BY <1>1, <1>2 DEF WalkOf

LEMMA WalkIdle ==
  ASSUME NEW s, NEW a
  PROVE  WalkOf(Idle, s, a) = Links!Idle
BY DEF WalkOf, Idle, Links!Idle

LEMMA FramesAre ==
  ASSUME Machine
  PROVE  /\ Links!Top = Len(acts) /\ Len(Frames) = Len(acts)
         /\ Frames = [i \in 1 .. Len(acts) |-> FrameOf(acts, mem, i)]
         /\ \A i \in 1 .. Len(acts) : Frames[i].fn = acts[i].fn
         /\ Links!Running = Running
<1>1. /\ Len(acts) \in 1 .. Len(acts) /\ Running = acts[Len(acts)].fn
  BY LastIs
<1>2. /\ Frames = [i \in 1 .. Len(acts) |-> FrameOf(acts, mem, i)]
      /\ Len(Frames) = Len(acts)
  BY FrameIs, Mapped DEF Machine
<1>3. \A i \in 1 .. Len(acts) : Frames[i].fn = acts[i].fn
  BY <1>2 DEF FrameOf
<1>4. Links!Top = Len(acts)
  BY <1>2 DEF Links!Top
<1> QED
  BY <1>1, <1>2, <1>3, <1>4 DEF Links!Running

LEMMA FramesAfter ==
  ASSUME Machine'
  PROVE  /\ Len(Frames') = Len(acts')
         /\ Frames' = [i \in 1 .. Len(acts') |-> FrameOf(acts', mem', i)]
BY FrameIs, Mapped DEF Machine

LEMMA GuidedIs ==
  ASSUME Machine, Links!Inv
  PROVE  Guided
<1> SUFFICES ASSUME step.why # "idle", NEW j \in 1 .. Len(acts), t = acts[j].fp
             PROVE  (step.left > 0 => j # 1) /\ (step.left = 0 => acts[j].fn = step.to)
  BY DEF Guided
<1>1. Walk = [why |-> step.why, to |-> step.to, x |-> step.x, fn |-> step.fn,
              at |-> j, left |-> step.left]
  BY WalkAt, Mapped DEF Machine
<1>2. Walk.why = step.why /\ Walk.to = step.to /\ Walk.at = j /\ Walk.left = step.left
  BY <1>1
<1>3. /\ Depth[Frames[j].fn] = Depth[step.to] + step.left
      /\ step.left = 0 => Frames[j].fn = step.to
  BY <1>2 DEF Links!Inv, Links!WalkArrives
<1>4. Frames[j].fn = acts[j].fn
  BY FramesAre
<1>5. step.left > 0 => j # 1
  <2>1. j = 1 => acts[j].fn = Main
    BY DEF Machine, Stacked
  <2>2. Depth[Main] = 0 /\ Depth[step.to] \in Nat /\ step.left \in Int
    BY Programs DEF Machine, StepOK
  <2> QED
    BY <1>3, <1>4, <2>1, <2>2
<1> QED
  BY <1>3, <1>4, <1>5

LEMMA InitAbstract ==
  ASSUME Init
  PROVE  Links!Init
<1>1. Machine
  BY InitMachine
<1>2. /\ Len(acts) = 1 /\ acts[1].fn = Main /\ mem = <<>> /\ step = Idle /\ got = Fresh
  BY DEF Init
<1>3. Frames = [i \in 1 .. 1 |-> FrameOf(acts, mem, i)]
  BY <1>1, <1>2, FramesAre
<1>4. FrameOf(acts, mem, 1) = Links!Activation(Main, 0)
  BY <1>2 DEF FrameOf, ReadOf, Links!Activation
<1>5. Frames = <<Links!Activation(Main, 0)>>
  BY <1>3, <1>4
<1>6. Walk = Links!Idle
  BY <1>2, WalkIdle, Mapped
<1> QED
  BY <1>2, <1>5, <1>6 DEF Links!Init

LEMMA StartCallAbstract ==
  ASSUME Machine, NEW f \in Fns, NEW args, StartCall(f, args)
  PROVE  Links!StartCall(f)
<1>1. /\ step = Idle /\ f # Main /\ <<Parent[f], Running>> \in Encloses /\ t' = fp
      /\ step' = [why |-> "call", to |-> Parent[f], x |-> NoVar, fn |-> f,
                  left |-> CallHops(f), args |-> args, n |-> Len(args)]
      /\ mem' = mem /\ acts' = acts /\ got' = got
  BY DEF StartCall
<1>2. Frames' = Frames
  BY <1>1, Mapped
<1>3. Walk = Links!Idle
  BY <1>1, WalkIdle, Mapped
<1>4. /\ step'.why = "call" /\ step'.to = Parent[f] /\ step'.x = NoVar /\ step'.fn = f
      /\ step'.left = CallHops(f)
  BY <1>1
<1>5. fp = acts[Len(acts)].fp /\ Len(acts) \in 1 .. Len(acts)
  BY LastIs DEF Machine, Pointers
<1>6. Walk' = [why |-> "call", to |-> Parent[f], x |-> NoVar, fn |-> f, at |-> Len(acts),
               left |-> CallHops(f)]
  <2>1. Walk' = WalkOf(step', acts, acts[Len(acts)].fp)
    BY <1>1, <1>5, Mapped
  <2> QED
    BY <1>4, <1>5, <2>1, WalkAt DEF Machine
<1> QED
  BY <1>1, <1>2, <1>3, <1>6, FramesAre DEF Links!StartCall, CallHops

LEMMA StartUseAbstract ==
  ASSUME Machine, NEW g \in Fns, NEW x \in Locals[g], StartUse(g, x)
  PROVE  Links!StartUse(g, x)
<1>1. /\ step = Idle /\ <<g, Running>> \in Encloses /\ t' = fp
      /\ step' = [Idle EXCEPT !.why = "use", !.to = g, !.x = x, !.left = UseHops(g)]
      /\ mem' = mem /\ acts' = acts /\ got' = got
  BY DEF StartUse
<1>2. Frames' = Frames
  BY <1>1, Mapped
<1>3. Walk = Links!Idle
  BY <1>1, WalkIdle, Mapped
<1>4. /\ step'.why = "use" /\ step'.to = g /\ step'.x = x /\ step'.fn = Main
      /\ step'.left = UseHops(g)
  BY <1>1 DEF Idle
<1>5. fp = acts[Len(acts)].fp /\ Len(acts) \in 1 .. Len(acts)
  BY LastIs DEF Machine, Pointers
<1>6. Walk' = [why |-> "use", to |-> g, x |-> x, fn |-> Main, at |-> Len(acts),
               left |-> UseHops(g)]
  <2>1. Walk' = WalkOf(step', acts, acts[Len(acts)].fp)
    BY <1>1, <1>5, Mapped
  <2> QED
    BY <1>4, <1>5, <2>1, WalkAt DEF Machine
<1> QED
  BY <1>1, <1>2, <1>3, <1>6, FramesAre DEF Links!StartUse, UseHops

LEMMA FollowAbstract ==
  ASSUME Machine, Guided, Follow
  PROVE  Links!Follow
<1>1. /\ step.left > 0 /\ step' = [step EXCEPT !.left = @ - 1]
      /\ mem' = mem /\ acts' = acts /\ got' = got
  BY DEF Follow
<1>2. step.why # "idle"
  BY <1>1, IdleIs DEF Machine, StepOK
<1>3. PICK i \in 2 .. Len(acts) : t = acts[i].fp /\ t' = acts[i].link
  BY FollowMachine
<1>4. PICK j \in 1 .. i - 1 : acts[i].link = acts[j].fp /\ FrameOf(acts, mem, i).link = j
  BY FrameIs DEF Machine
<1>5. i \in 1 .. Len(acts) /\ j \in 1 .. Len(acts)
  BY LastIs
<1>6. Frames[i].link = j
  BY <1>4, <1>5, FramesAre
<1>7. Walk = [why |-> step.why, to |-> step.to, x |-> step.x, fn |-> step.fn,
              at |-> i, left |-> step.left]
  BY <1>2, <1>3, <1>5, WalkAt, Mapped DEF Machine
<1>8. Walk' = [why |-> step.why, to |-> step.to, x |-> step.x, fn |-> step.fn,
               at |-> j, left |-> step.left - 1]
  <2>1. /\ step'.why = step.why /\ step'.to = step.to /\ step'.x = step.x
        /\ step'.fn = step.fn /\ step'.left = step.left - 1
    BY <1>1 DEF Machine, StepOK
  <2>2. Walk' = WalkOf(step', acts, acts[j].fp)
    BY <1>1, <1>3, <1>4, Mapped
  <2> QED
    BY <1>2, <1>5, <2>1, <2>2, WalkAt DEF Machine
<1>9. Frames' = Frames
  BY <1>1, Mapped
<1>10. Walk.left = step.left /\ Walk.at = i
  BY <1>7
<1>11. Walk' = [Walk EXCEPT !.at = j, !.left = @ - 1]
  <2> DEFINE up == [Walk EXCEPT !.at = j]
             less == [up EXCEPT !.left = step.left - 1]
  <2>1. up = [why |-> step.why, to |-> step.to, x |-> step.x, fn |-> step.fn,
              at |-> j, left |-> step.left]
    BY <1>7
  <2> HIDE DEF up
  <2>2. less = [why |-> step.why, to |-> step.to, x |-> step.x, fn |-> step.fn,
                at |-> j, left |-> step.left - 1]
    BY <2>1
  <2>3. less = [Walk EXCEPT !.at = j, !.left = step.left - 1]
    BY <1>7 DEF up
  <2> HIDE DEF less
  <2> QED
    BY <1>8, <1>10, <2>2, <2>3
<1> QED
  BY <1>1, <1>6, <1>9, <1>10, <1>11 DEF Links!Follow

(* A step that leaves the words of a frame alone leaves the frame alone.   *)
LEMMA FrameKept ==
  ASSUME Machine, Machine', NEW i \in 1 .. Len(acts), i \in 1 .. Len(acts'),
         \A j \in 1 .. i : acts'[j] = acts[j],
         \A b \in Int : Low(acts[i]) <= b => ReadOf(mem', b) = ReadOf(mem, b)
  PROVE  FrameOf(acts', mem', i) = FrameOf(acts, mem, i)
<1>1. Stacked(acts) /\ Linked(acts, mem) /\ Stacked(acts') /\ Linked(acts', mem')
  BY DEF Machine
<1>2. ASSUME NEW x \in Locals[acts[i].fn]
      PROVE  ReadOf(mem', Word(acts[i], x)) = ReadOf(mem, Word(acts[i], x))
  <2>1. Word(acts[i], x) \in Int /\ Low(acts[i]) < Word(acts[i], x)
    BY <1>1, WordIn
  <2>2. Low(acts[i]) \in Int
    BY LastIs
  <2>3. Low(acts[i]) <= Word(acts[i], x)
    BY <2>1, <2>2
  <2> QED
    BY <2>1, <2>3
<1> QED
  BY <1>1, <1>2, SameFrame

LEMMA HandOverAbstract ==
  ASSUME Machine, HandOver
  PROVE  UNCHANGED Links!vars
<1>1. /\ step.why = "call" /\ step' = [step EXCEPT !.n = @ - 1]
      /\ t' = t /\ acts' = acts /\ got' = got
  BY DEF HandOver, Found
<1>2. Machine' /\ \A b \in Int : sp <= b => ReadOf(mem', b) = ReadOf(mem, b)
  BY HandOverMachine
<1>3. ASSUME NEW i \in 1 .. Len(acts)
      PROVE  FrameOf(acts', mem', i) = FrameOf(acts, mem, i)
  <2>1. sp \in Int /\ Low(acts[i]) \in Int /\ sp <= Low(acts[i])
    BY LastIs
  <2>2. \A b \in Int : Low(acts[i]) <= b => ReadOf(mem', b) = ReadOf(mem, b)
    BY <1>2, <2>1
  <2> QED
    BY <1>1, <1>2, <2>2, FrameKept
<1>4. Frames' = Frames
  BY <1>1, <1>2, <1>3, FramesAre, FramesAfter
<1>5. Walk' = Walk
  <2>1. PICK j \in 1 .. Len(acts) : t = acts[j].fp
    BY <1>1 DEF Machine, Pointers
  <2>2. /\ step'.why = step.why /\ step'.to = step.to /\ step'.x = step.x
        /\ step'.fn = step.fn /\ step'.left = step.left
    BY <1>1 DEF Machine, StepOK
  <2>3. Walk = WalkOf(step, acts, acts[j].fp) /\ Walk' = WalkOf(step', acts, acts[j].fp)
    BY <1>1, <2>1, Mapped
  <2>4. Stacked(acts) /\ step.why # "idle" /\ step'.why # "idle"
    BY <1>1, <2>2 DEF Machine
  <2>5. WalkOf(step, acts, acts[j].fp) = [why |-> step.why, to |-> step.to, x |-> step.x,
                                          fn |-> step.fn, at |-> j, left |-> step.left]
    BY <2>4, WalkAt
  <2>6. WalkOf(step', acts, acts[j].fp) = [why |-> step'.why, to |-> step'.to, x |-> step'.x,
                                           fn |-> step'.fn, at |-> j, left |-> step'.left]
    BY <2>4, WalkAt
  <2> QED
    BY <2>2, <2>3, <2>5, <2>6
<1> QED
  BY <1>1, <1>4, <1>5 DEF Links!vars

LEMMA EnterAbstract ==
  ASSUME Machine, Enter
  PROVE  Links!Enter
<1> DEFINE L == Len(acts)
           new == Links!Activation(step.fn, Walk.at)
<1>1. step.why = "call" /\ step.left = 0 /\ step' = Idle /\ got' = got
  BY DEF Enter, Found
<1>2. /\ Machine' /\ Len(acts') = L + 1 /\ \A i \in 1 .. L : acts'[i] = acts[i]
      /\ acts'[L + 1].fn = step.fn /\ acts'[L + 1].link = t /\ acts'[L + 1].fp = sp - 4
      /\ \A b \in Int : sp <= b => ReadOf(mem', b) = ReadOf(mem, b)
      /\ \A b \in Int : b < sp - 4 => ReadOf(mem', b) = Fresh
  BY EnterMachine
<1>3. L \in Nat \ {0} /\ L \in 1 .. L /\ sp \in Int
  BY LastIs
<1>4. PICK j \in 1 .. L : t = acts[j].fp
  BY <1>1 DEF Machine, Pointers
<1>5. Walk = [why |-> "call", to |-> step.to, x |-> step.x, fn |-> step.fn, at |-> j,
              left |-> 0]
  BY <1>1, <1>4, WalkAt, Mapped DEF Machine
<1>6. Walk' = Links!Idle
  BY <1>1, WalkIdle, Mapped
<1>7. ASSUME NEW i \in 1 .. L
      PROVE  FrameOf(acts', mem', i) = FrameOf(acts, mem, i)
  <2>1. Low(acts[i]) \in Int /\ sp <= Low(acts[i])
    BY LastIs
  <2>2. \A b \in Int : Low(acts[i]) <= b => ReadOf(mem', b) = ReadOf(mem, b)
    BY <1>2, <1>3, <2>1
  <2>3. i \in 1 .. Len(acts') /\ \A k \in 1 .. i : acts'[k] = acts[k]
    BY <1>2, <1>3
  <2> QED
    BY <1>2, <2>2, <2>3, FrameKept
<1>8. FrameOf(acts', mem', L + 1) = new
  <2>1. Stacked(acts') /\ Linked(acts', mem')
    BY <1>2 DEF Machine
  <2>2. L + 1 \in 2 .. Len(acts') /\ L + 1 \in 1 .. Len(acts') /\ L + 1 # 1
    BY <1>2, <1>3
  <2>3. PICK k \in 1 .. (L + 1) - 1 :
          acts'[L + 1].link = acts'[k].fp /\ FrameOf(acts', mem', L + 1).link = k
    BY <2>1, <2>2, FrameIs
  <2>4. k = j
    <3>1. k \in 1 .. L
      BY <1>3
    <3>2. acts[k].fp = acts[j].fp
      BY <1>2, <1>4, <2>3, <3>1
    <3> QED
      BY <3>1, <3>2, AtIs DEF Machine
  <2>5. FrameOf(acts', mem', L + 1).val = [x \in Locals[step.fn] |-> Fresh]
    <3>1. ASSUME NEW x \in Locals[step.fn]
          PROVE  ReadOf(mem', Word(acts'[L + 1], x)) = Fresh
      <4>1. Word(acts'[L + 1], x) \in Int /\ Word(acts'[L + 1], x) < sp - 4
        BY <1>2, <2>1, <2>2, WordIn
      <4> QED
        BY <1>2, <4>1
    <3> QED
      BY <1>2, <3>1 DEF FrameOf
  <2>6. FrameOf(acts', mem', L + 1) = [fn |-> step.fn, link |-> j,
                                       val |-> [x \in Locals[step.fn] |-> Fresh]]
    BY <1>2, <2>3, <2>4, <2>5 DEF FrameOf
  <2>7. Walk.at = j
    BY <1>5
  <2> QED
    BY <2>6, <2>7 DEF Links!Activation
<1> HIDE DEF new
<1>9. Frames' = Append(Frames, new)
  <2>1. Frames' = [i \in 1 .. L + 1 |-> FrameOf(acts', mem', i)]
    BY <1>2, FramesAfter
  <2>2. Frames = [i \in 1 .. L |-> FrameOf(acts, mem, i)] /\ Len(Frames) = L
    BY FramesAre
  <2>3. \A i \in 1 .. L + 1 : FrameOf(acts', mem', i) = IF i = L + 1 THEN new ELSE Frames[i]
    <3> SUFFICES ASSUME NEW i \in 1 .. L + 1
                 PROVE  FrameOf(acts', mem', i) = IF i = L + 1 THEN new ELSE Frames[i]
      OBVIOUS
    <3>1. CASE i = L + 1
      BY <1>8, <3>1
    <3>2. CASE i # L + 1
      <4>1. i \in 1 .. L
        BY <1>3, <3>2
      <4> QED
        BY <1>7, <2>2, <3>2, <4>1
    <3> QED
      BY <3>1, <3>2
  <2>4. Append(Frames, new) = [i \in 1 .. L + 1 |-> IF i = L + 1 THEN new ELSE Frames[i]]
    BY <1>3, <2>2
  <2> QED
    BY <2>1, <2>3, <2>4
<1>10. Walk.why = "call" /\ Walk.left = 0 /\ Walk.fn = step.fn
  BY <1>5
<1> QED
  BY <1>1, <1>6, <1>9, <1>10 DEF Links!Enter, Links!Walking, new

LEMMA LoadAbstract ==
  ASSUME Machine, Guided, Load
  PROVE  Links!Load
<1>1. /\ step.why = "use" /\ step.left = 0 /\ step' = Idle /\ got' = Read(Slot)
      /\ mem' = mem /\ acts' = acts
  BY DEF Load, Found
<1>2. PICK j \in 1 .. Len(acts) :
        t = acts[j].fp /\ step.x \in Locals[acts[j].fn] /\ Slot = Word(acts[j], step.x)
  BY <1>1, SlotIs
<1>3. Walk = [why |-> "use", to |-> step.to, x |-> step.x, fn |-> step.fn, at |-> j,
              left |-> 0]
  BY <1>1, <1>2, WalkAt, Mapped DEF Machine
<1>4. Frames[j].val[step.x] = Read(Slot)
  BY <1>2, FramesAre DEF FrameOf, Read, ReadOf
<1>5. Frames' = Frames /\ Walk' = Links!Idle
  BY <1>1, WalkIdle, Mapped
<1>6. Walk.why = "use" /\ Walk.left = 0 /\ Walk.at = j /\ Walk.x = step.x
  BY <1>3
<1> QED
  BY <1>1, <1>4, <1>5, <1>6 DEF Links!Load, Links!Walking

LEMMA StoreAbstract ==
  ASSUME Machine, Guided, NEW v \in Values, Store(v)
  PROVE  Links!Store(v)
<1> DEFINE L == Len(acts)
<1>1. /\ step.why = "use" /\ step.left = 0 /\ step' = Idle /\ mem' = Write(Slot, v)
      /\ acts' = acts /\ got' = got
  BY DEF Store, Found
<1>2. PICK j \in 1 .. L :
        t = acts[j].fp /\ step.x \in Locals[acts[j].fn] /\ Slot = Word(acts[j], step.x)
  BY <1>1, SlotIs
<1>3. Walk = [why |-> "use", to |-> step.to, x |-> step.x, fn |-> step.fn, at |-> j,
              left |-> 0]
  BY <1>1, <1>2, WalkAt, Mapped DEF Machine
<1>4. Machine'
  BY StoreMachine
<1>5. /\ Stacked(acts) /\ Linked(acts, mem) /\ Linked(acts', mem')
  BY <1>4 DEF Machine
<1>6. \A b : ReadOf(mem', b) = IF b = Slot THEN v ELSE ReadOf(mem, b)
  BY <1>1 DEF Write, ReadOf
<1>7. ASSUME NEW i \in 1 .. L, i # j
      PROVE  FrameOf(acts', mem', i) = FrameOf(acts, mem, i)
  <2>1. ASSUME NEW x \in Locals[acts[i].fn]
        PROVE  ReadOf(mem', Word(acts[i], x)) = ReadOf(mem, Word(acts[i], x))
    <3>1. Word(acts[i], x) # Slot
      BY <1>2, <1>5, <1>7, WordsApart
    <3> QED
      BY <1>6, <3>1
  <2> QED
    BY <1>1, <1>5, <2>1, SameFrame
<1>8. FrameOf(acts', mem', j) = [FrameOf(acts, mem, j) EXCEPT !.val[step.x] = v]
  <2>1. FrameOf(acts', mem', j).fn = FrameOf(acts, mem, j).fn
    BY <1>1 DEF FrameOf
  <2>2. FrameOf(acts', mem', j).link = FrameOf(acts, mem, j).link
    <3>1. CASE j = 1
      BY <3>1 DEF FrameOf
    <3>2. CASE j # 1
      <4>1. j \in 2 .. L
        BY <3>2, LastIs
      <4>2. /\ acts[j].fp \in DOMAIN mem /\ mem[acts[j].fp] = acts[j].link
            /\ acts[j].fp \in DOMAIN mem' /\ mem'[acts[j].fp] = acts[j].link
        BY <1>1, <1>5, <4>1 DEF Linked
      <4>3. ReadOf(mem', acts[j].fp) = ReadOf(mem, acts[j].fp)
        BY <4>2 DEF ReadOf
      <4> QED
        BY <1>1, <4>3 DEF FrameOf
    <3> QED
      BY <3>1, <3>2
  <2>3. FrameOf(acts', mem', j).val = [FrameOf(acts, mem, j).val EXCEPT ![step.x] = v]
    <3>1. ASSUME NEW x \in Locals[acts[j].fn]
          PROVE  ReadOf(mem', Word(acts[j], x))
                   = IF x = step.x THEN v ELSE ReadOf(mem, Word(acts[j], x))
      <4>1. Word(acts[j], x) = Slot <=> x = step.x
        BY <1>2, <1>5, WordsApart
      <4> QED
        BY <1>6, <4>1
    <3>2. FrameOf(acts', mem', j).val
            = [x \in Locals[acts[j].fn] |-> ReadOf(mem', Word(acts[j], x))]
      BY <1>1 DEF FrameOf
    <3>3. FrameOf(acts, mem, j).val
            = [x \in Locals[acts[j].fn] |-> ReadOf(mem, Word(acts[j], x))]
      BY DEF FrameOf
    <3> QED
      BY <3>1, <3>2, <3>3
  <2>4. \A m : FrameOf(acts, m, j) = [fn |-> FrameOf(acts, m, j).fn,
                                      link |-> FrameOf(acts, m, j).link,
                                      val |-> FrameOf(acts, m, j).val]
    BY DEF FrameOf
  <2> QED
    BY <1>1, <2>1, <2>2, <2>3, <2>4
<1>9. Frames' = [Frames EXCEPT ![j].val[step.x] = v]
  <2>1. Frames' = [i \in 1 .. L |-> FrameOf(acts', mem', i)]
    BY <1>1, <1>4, FramesAfter
  <2>2. Frames = [i \in 1 .. L |-> FrameOf(acts, mem, i)]
    BY FramesAre
  <2> QED
    BY <1>7, <1>8, <2>1, <2>2
<1>10. Walk' = Links!Idle
  BY <1>1, WalkIdle, Mapped
<1>11. Walk.why = "use" /\ Walk.left = 0 /\ Walk.at = j /\ Walk.x = step.x
  BY <1>3
<1> QED
  BY <1>1, <1>9, <1>10, <1>11 DEF Links!Store, Links!Walking

LEMMA ReturnAbstract ==
  ASSUME Machine, Return
  PROVE  Links!Return
<1> DEFINE L == Len(acts)
<1>1. step = Idle /\ step' = Idle /\ got' = got /\ L > 1
  BY DEF Return
<1>2. /\ Machine' /\ Len(acts') = L - 1 /\ \A i \in 1 .. L - 1 : acts'[i] = acts[i]
      /\ \A b \in Int : sp' <= b => ReadOf(mem', b) = ReadOf(mem, b)
  BY ReturnMachine
<1>3. L \in Nat \ {0}
  BY LastIs
<1>4. sp' \in Int /\ \A i \in 1 .. L - 1 : Low(acts[i]) \in Int /\ sp' <= Low(acts[i])
  BY ReturnMachine
<1>5. ASSUME NEW i \in 1 .. L - 1
      PROVE  FrameOf(acts', mem', i) = FrameOf(acts, mem, i)
  <2>1. Low(acts[i]) \in Int /\ sp' <= Low(acts[i]) /\ sp' \in Int
    BY <1>4
  <2>2. \A b \in Int : Low(acts[i]) <= b => ReadOf(mem', b) = ReadOf(mem, b)
    BY <1>2, <2>1
  <2>3. i \in 1 .. L /\ i \in 1 .. Len(acts') /\ \A k \in 1 .. i : acts'[k] = acts[k]
    BY <1>2, <1>3
  <2> QED
    BY <1>2, <2>2, <2>3, FrameKept
<1>6. Frames' = SubSeq(Frames, 1, L - 1)
  <2>1. Frames' = [i \in 1 .. L - 1 |-> FrameOf(acts', mem', i)]
    BY <1>2, FramesAfter
  <2>2. Frames = [i \in 1 .. L |-> FrameOf(acts, mem, i)]
    BY FramesAre
  <2>3. SubSeq(Frames, 1, L - 1) = [i \in 1 .. L - 1 |-> Frames[i]]
    BY <1>3
  <2>4. \A i \in 1 .. L - 1 : i \in 1 .. L
    BY <1>3
  <2> QED
    BY <1>5, <2>1, <2>2, <2>3, <2>4
<1>7. Walk = Links!Idle /\ Walk' = Links!Idle
  BY <1>1, WalkIdle, Mapped
<1> QED
  BY <1>1, <1>6, <1>7, FramesAre DEF Links!Return

LEMMA StepAbstract ==
  ASSUME Machine, Guided, [Next]_vars
  PROVE  [Links!Next]_(Links!vars)
<1>1. ASSUME NEW f \in Fns, NEW args \in [DOMAIN Formals[f] -> Values], StartCall(f, args)
      PROVE  Links!Next
  BY <1>1, StartCallAbstract DEF Links!Next
<1>2. ASSUME NEW g \in Fns, NEW x \in Locals[g], StartUse(g, x)
      PROVE  Links!Next
  BY <1>2, StartUseAbstract DEF Links!Next
<1>3. CASE Follow
  BY <1>3, FollowAbstract DEF Links!Next
<1>4. CASE HandOver
  BY <1>4, HandOverAbstract
<1>5. CASE Enter
  BY <1>5, EnterAbstract DEF Links!Next
<1>6. CASE Load
  BY <1>6, LoadAbstract DEF Links!Next
<1>7. ASSUME NEW v \in Values, Store(v)
      PROVE  Links!Next
  BY <1>7, StoreAbstract DEF Links!Next
<1>8. CASE Return
  BY <1>8, ReturnAbstract DEF Links!Next
<1>9. CASE UNCHANGED vars
  BY <1>9, Mapped DEF vars, Links!vars
<1> QED
  BY <1>1, <1>2, <1>3, <1>4, <1>5, <1>6, <1>7, <1>8, <1>9 DEF Next

(* The layout of the stack and what StaticLinkProofs proves of static      *)
(* links are inductive together: a load or a store is of a variable of a   *)
(* frame because the walk before it arrives, and the walk arrives because  *)
(* no step disturbs a link.                                                *)
CallsInv == Machine /\ Links!Inv

LEMMA InitCalls == Init => CallsInv
  BY InitMachine, InitAbstract, Links!InitInv, NestingAssumption DEF CallsInv

LEMMA StepCalls == CallsInv /\ [Next]_vars => CallsInv' /\ [Links!Next]_(Links!vars)
<1> SUFFICES ASSUME CallsInv, [Next]_vars
             PROVE  CallsInv' /\ [Links!Next]_(Links!vars)
  OBVIOUS
<1>1. Machine /\ Links!Inv /\ Guided
  BY GuidedIs DEF CallsInv
<1>2. Machine' /\ [Links!Next]_(Links!vars)
  BY <1>1, StepMachine, StepAbstract
<1>3. Links!Inv'
  BY <1>1, <1>2, Links!StepInv, NestingAssumption
<1> QED
  BY <1>2, <1>3 DEF CallsInv

LEMMA CallsAlways == Spec => []CallsInv
<1>1. CallsInv /\ [Next]_vars => CallsInv'
  BY StepCalls
<1> QED
  BY <1>1, InitCalls, PTL DEF Spec

LEMMA SameAbstract ==
  /\ Links!Init <=> Abstract!Init
  /\ [Links!Next]_(Links!vars) <=> [Abstract!Next]_(Abstract!vars)
  /\ Links!Inv => Abstract!WalkArrives
BY DEF Links!Init, Abstract!Init, Links!vars, Abstract!vars, Links!Next, Abstract!Next,
       Links!StartCall, Abstract!StartCall, Links!StartUse, Abstract!StartUse,
       Links!Follow, Abstract!Follow, Links!Enter, Abstract!Enter, Links!Load, Abstract!Load,
       Links!Store, Abstract!Store, Links!Return, Abstract!Return, Links!Top, Abstract!Top,
       Links!Running, Abstract!Running, Links!Idle, Abstract!Idle,
       Links!Walking, Abstract!Walking, Links!Activation, Abstract!Activation,
       Links!Inv, Links!WalkArrives, Abstract!WalkArrives

(* For every program that gets its registers (the assert of                *)
(* F_allocFormals): the frames that F_newFrame, F_allocLocal, munchArgs    *)
(* and popStack lay out do what static links promise.  A link leads to the *)
(* activation it should, a load gets what the last store to that variable  *)
(* of that activation put there, and a call disturbs no frame.             *)
THEOREM CallsImplementStaticLink == Spec => ImplementsStaticLink
<1>1. Init => Abstract!Init
  BY InitAbstract, SameAbstract
<1>2. CallsInv /\ [Next]_vars => [Abstract!Next]_(Abstract!vars)
  BY StepCalls, SameAbstract
<1> QED
  BY <1>1, <1>2, CallsAlways, PTL DEF Spec, ImplementsStaticLink, Abstract!Spec

(* The fetches of the machine end in a frame of the function they look     *)
(* for: the loops of Tr_simpleVar and Tr_callExp count right for the       *)
(* links that are really in memory.                                        *)
THEOREM WalksArrive == Spec => []WalkArrives
<1>1. CallsInv => WalkArrives
  BY SameAbstract DEF CallsInv, WalkArrives
<1> QED
  BY <1>1, CallsAlways, PTL

(* Between two calls nothing of an earlier one is left on the stack:       *)
(* popStack takes back what munchArgs pushed, link included, and the entry *)
(* and exit of a function restore the frame pointer.                       *)
THEOREM StackGivenBack == Spec => []StackBalanced
<1>1. CallsInv => StackBalanced
  <2> SUFFICES ASSUME Machine, step = Idle
               PROVE  fp = Act.fp /\ sp = fp - frameSize(Running)
    BY DEF CallsInv, StackBalanced
  <2>1. /\ Act = acts[Len(acts)] /\ Running = acts[Len(acts)].fn
        /\ Low(acts[Len(acts)]) \in Int
    BY LastIs
  <2>2. fp = Act.fp /\ sp = Low(acts[Len(acts)])
    BY <2>1, IdleIs DEF Machine, Pointers
  <2> QED
    BY <2>1, <2>2 DEF Low
<1> QED
  BY <1>1, CallsAlways, PTL

(* A formal that its function reads with another value than was passed is  *)
(* one that escapes: no argument is lost on its way through the registers. *)
THEOREM ArgumentsArrive == Spec => []OnlyEscapingFormalsLost
<1>1. CallsInv => OnlyEscapingFormalsLost
  <2> SUFFICES ASSUME Machine, step = Idle, NEW i \in DOMAIN Act.sent,
                      FormalHolds(i) # Act.sent[i]
               PROVE  Formals[Running][i]
    BY DEF CallsInv, OnlyEscapingFormalsLost
  <2>1. /\ Act = acts[Len(acts)] /\ Running = Act.fn /\ Running \in Fns
        /\ Len(acts) \in 1 .. Len(acts) /\ acts \in Seq(Activations)
    BY LastIs
  <2>2. Act.sent \in Seq(Values)
    <3>1. Act \in Activations
      BY <2>1
    <3> QED
      BY <3>1 DEF Activations
  <2>3. i \in 1 .. Len(Act.sent)
    BY <2>2
  <2>4. /\ Len(Act.sent) <= Len(Formals[Running])
        /\ ~Formals[Running][i] => Act.fetched[i] = Act.sent[i]
    BY <2>1, <2>3 DEF Machine, Arrived
  <2>5. ~Formals[Running][i] => i \notin OnStack(Running)
    BY DEF OnStack
  <2> QED
    BY <2>4, <2>5 DEF FormalHolds
<1> QED
  BY <1>1, CallsAlways, PTL
===============================================================================
