------------------------------- MODULE TraceProofs -------------------------------
(***************************************************************************)
(* That C_basicBlocks and C_traceSchedule lose nothing, place nothing      *)
(* twice, and keep what the program does, for every list of statements.    *)
(*                                                                         *)
(* A statement counts when the schedule must have it once: a label, or one *)
(* with an effect.  Two count as the same when they have the same label or *)
(* the same identity (a conditional jump may have been turned round on the *)
(* way).                                                                   *)
(***************************************************************************)
EXTENDS Trace, FiniteSetTheorems, SequenceTheorems, WellFoundedInduction, TLAPS

(* A set of naturals that is not empty has a least element.                *)
LEMMA LeastElement ==
  ASSUME NEW S, S \subseteq Nat, S # {}
  PROVE  \E x \in S : \A y \in S : x <= y
<1>1. PICK x \in S : \A y \in S : ~(<<y, x>> \in OpToRel(<, Nat))
  BY WFMin, NatLessThanWellFounded, Zenon
<1>2. ASSUME NEW y \in S PROVE ~(y < x)
  <2>1. y < x => <<y, x>> \in OpToRel(<, Nat)
    BY Zenon DEF OpToRel
  <2> QED
    BY <2>1, <1>1
<1>3. \A y \in S : x \in Nat /\ y \in Nat
  OBVIOUS
<1> QED
  BY <1>2, <1>3

(* A set with 0 and, with each number, the next one has all of them.       *)
LEMMA InductiveSet ==
  ASSUME NEW S, 0 \in S, \A n \in Nat : n \in S => n + 1 \in S
  PROVE  Nat \subseteq S
<1> SUFFICES ASSUME Nat \ S # {} PROVE FALSE
  OBVIOUS
<1>1. PICK x \in Nat \ S : \A y \in Nat \ S : x <= y
  BY LeastElement
<1>2. x # 0 /\ x - 1 \in S
  BY <1>1
<1> QED
  BY <1>2

Ids == UNION {EffectIds(p) : p \in Programs}

Statements ==
  {Label(n) : n \in Nat} \union {Jump(n) : n \in Nat} \union {Plain(id) : id \in Ids}
    \union [kind : {"CJUMP"}, id : Ids, truee : Nat, falsee : Nat, negated : BOOLEAN]

Counted(s) == IsLabel(s) \/ HasEffect(s)

Same(s, r) == \/ IsLabel(s) /\ IsLabel(r) /\ s.label = r.label
              \/ HasEffect(s) /\ HasEffect(r) /\ s.id = r.id

Has(p, s) == \E i \in DOMAIN p : Same(p[i], s)

-------------------------------------------------------------------------------
LEMMA Kinds ==
  ASSUME NEW s \in Statements
  PROVE  /\ s.kind \in {"LABEL", "JUMP", "CJUMP", "MOVE"}
         /\ s.kind = "LABEL" => s = Label(s.label) /\ s.label \in Nat
         /\ s.kind = "JUMP" => s = Jump(s.label) /\ s.label \in Nat
         /\ s.kind = "CJUMP" => s \in [kind : {"CJUMP"}, id : Ids, truee : Nat, falsee : Nat,
                                       negated : BOOLEAN]
BY DEF Statements, Label, Jump, Plain

LEMMA Sameness ==
  /\ \A s : Counted(s) => Same(s, s)
  /\ \A s, r : Same(s, r) => Same(r, s) /\ Counted(s) /\ Counted(r)
                             /\ (IsLabel(s) <=> IsLabel(r)) /\ (HasEffect(s) <=> HasEffect(r))
                             /\ (IsLabel(s) => s.label = r.label)
  /\ \A s, r, q : Same(s, r) /\ Same(r, q) => Same(s, q)
BY DEF Same, Counted, IsLabel, HasEffect

LEMMA Made ==
  /\ \A n \in Nat : Label(n) \in Statements /\ Jump(n) \in Statements
  /\ \A n : /\ IsLabel(Label(n)) /\ Label(n).label = n /\ ~HasEffect(Label(n))
            /\ ~EndsBlock(Label(n)) /\ Label(n).kind = "LABEL"
            /\ Jump(n).kind = "JUMP" /\ Jump(n).label = n /\ EndsBlock(Jump(n))
            /\ ~Counted(Jump(n)) /\ ~IsLabel(Jump(n))
BY DEF Statements, Label, Jump, IsLabel, HasEffect, EndsBlock, Counted

LEMMA Given ==
  ASSUME NEW p \in Programs
  PROVE  /\ p \in Seq(Statements) /\ p # <<>>
         /\ \A i \in DOMAIN p : IsLabel(p[i]) => p[i].label \in 1 .. NLabels
         /\ \A i \in DOMAIN p : p[i].kind = "JUMP" => p[i].label \in 0 .. NLabels
         /\ \A n \in 1 .. NLabels : \E i \in DOMAIN p : p[i] = Label(n)
         /\ \A i, j \in DOMAIN p : Same(p[i], p[j]) => i = j
<1>1. WellFormed(p) /\ NLabels \in Nat
  BY ProgramsAssumption, NLabelsAssumption
<1>2. p \in Seq(ToSet(p)) /\ p # <<>> /\ Len(p) \in Nat /\ DOMAIN p = 1 .. Len(p)
  BY <1>1 DEF WellFormed
<1>3. ASSUME NEW i \in DOMAIN p
      PROVE  /\ p[i] \in Statements
             /\ IsLabel(p[i]) => p[i].label \in 1 .. NLabels
             /\ p[i].kind = "JUMP" => p[i].label \in 0 .. NLabels
             /\ IsLabel(p[i]) => p[i] = Label(p[i].label)
  <2>1. CASE \E n \in 1 .. NLabels : p[i] \in {Label(n), Jump(n)}
    BY <1>1, <2>1 DEF Statements, Label, Jump, IsLabel
  <2>4. CASE p[i] = Jump(Elsewhere)
    BY <1>1, <2>4 DEF Statements, Jump, IsLabel, Elsewhere
  <2>2. CASE \E t, f \in 1 .. NLabels : p[i] = Cjump(p[i].id, t, f)
    <3>1. PICK t \in 1 .. NLabels, f \in 1 .. NLabels : p[i] = Cjump(p[i].id, t, f)
      BY <2>2
    <3>2. p[i].kind = "CJUMP"
      BY <3>1 DEF Cjump
    <3>3. p[i].id \in Ids
      BY <3>2 DEF Ids, EffectIds, HasEffect
    <3>4. p[i] \in [kind : {"CJUMP"}, id : Ids, truee : Nat, falsee : Nat, negated : BOOLEAN]
      <4>1. t \in Nat /\ f \in Nat
        BY <1>1
      <4>2. \A id \in Ids : Cjump(id, t, f) \in [kind : {"CJUMP"}, id : Ids, truee : Nat,
                                                falsee : Nat, negated : BOOLEAN]
        BY <4>1 DEF Cjump
      <4> QED
        BY <3>1, <3>3, <4>2
    <3> QED
      BY <3>2, <3>4 DEF Statements, IsLabel
  <2>3. CASE p[i] = Plain(p[i].id)
    <3>1. p[i].kind = "MOVE"
      BY <2>3 DEF Plain
    <3>2. p[i].id \in Ids
      BY <3>1 DEF Ids, EffectIds, HasEffect
    <3> QED
      BY <2>3, <3>1, <3>2 DEF Statements, IsLabel
  <2> QED
    BY <1>1, <2>1, <2>2, <2>3, <2>4 DEF WellFormed
<1>4. p \in Seq(Statements)
  BY <1>2, <1>3 DEF ToSet
<1> DEFINE At(n) == {i \in DOMAIN p : p[i] = Label(n)}
<1>5. \A n \in 1 .. NLabels : Cardinality(At(n)) = 1
  BY <1>1 DEF WellFormed
<1>6. \A n : At(n) \subseteq 1 .. Len(p)
  BY <1>2
<1> HIDE DEF At
<1>7. ASSUME NEW n \in 1 .. NLabels
      PROVE  \E i : At(n) = {i}
  <2>1. IsFiniteSet(1 .. Len(p))
    BY <1>2, FS_Interval
  <2>2. IsFiniteSet(At(n))
    BY <1>6, <2>1, FS_Subset
  <2> QED
    BY <1>5, <2>2, FS_Singleton
<1>8. \A n \in 1 .. NLabels : \E i \in DOMAIN p : p[i] = Label(n)
  BY <1>7 DEF At
<1>9. ASSUME NEW i \in DOMAIN p, NEW j \in DOMAIN p, Same(p[i], p[j])
      PROVE  i = j
  <2>1. CASE HasEffect(p[i]) /\ HasEffect(p[j]) /\ p[i].id = p[j].id
    BY <1>1, <2>1 DEF WellFormed
  <2>2. CASE IsLabel(p[i]) /\ IsLabel(p[j]) /\ p[i].label = p[j].label
    <3>1. p[i].label \in 1 .. NLabels
      BY <1>3, <2>2 DEF IsLabel
    <3>2. p[i] = Label(p[i].label) /\ p[j] = Label(p[i].label)
      BY <1>3, <2>2
    <3>3. i \in At(p[i].label) /\ j \in At(p[i].label)
      BY <3>2 DEF At
    <3> QED
      BY <1>7, <3>1, <3>3
  <2> QED
    BY <1>9, <2>1, <2>2 DEF Same
<1> QED
  BY <1>2, <1>3, <1>4, <1>8, <1>9
-------------------------------------------------------------------------------
(* What is where while the program is cut: piece 0 is what is left of it,  *)
(* then come the blocks, and the one under construction is last.           *)
Piece(bs, c, s, k) == IF k = 0 THEN s ELSE IF k <= Len(bs) THEN bs[k] ELSE c

(* Nothing is in two places, all of the program is somewhere, and what is  *)
(* not of the program is a label with a number of its own.                 *)
Contents(p, m, bs, c, s) ==
  /\ \A k, l \in 0 .. Len(bs) + 1 :
       \A i \in DOMAIN Piece(bs, c, s, k), j \in DOMAIN Piece(bs, c, s, l) :
         Same(Piece(bs, c, s, k)[i], Piece(bs, c, s, l)[j]) => k = l /\ i = j
  /\ \A i \in DOMAIN p :
       Counted(p[i]) => \E k \in 0 .. Len(bs) + 1 : Has(Piece(bs, c, s, k), p[i])
  /\ \A k \in 0 .. Len(bs) + 1 : \A i \in DOMAIN Piece(bs, c, s, k) :
       LET r == Piece(bs, c, s, k)[i]
       IN  /\ HasEffect(r) => Has(p, r)
           /\ IsLabel(r) => r.label \in 1 .. m /\ r.label # NLabels + 1
           /\ r.kind = "JUMP" => r.label \in 0 .. NLabels + 1

LEMMA Beginning ==
  ASSUME NEW p \in Programs
  PROVE  Contents(p, NLabels + 1, <<>>, <<>>, p)
<1>1. /\ p \in Seq(Statements) /\ \A i, j \in DOMAIN p : Same(p[i], p[j]) => i = j
      /\ \A i \in DOMAIN p : IsLabel(p[i]) => p[i].label \in 1 .. NLabels
      /\ \A i \in DOMAIN p : p[i].kind = "JUMP" => p[i].label \in 0 .. NLabels
  BY Given
<1>2. NLabels \in Nat
  BY NLabelsAssumption
<1> DEFINE P(k) == Piece(<<>>, <<>>, p, k)
<1>3. \A k \in 0 .. Len(<<>>) + 1 : P(k) = IF k = 0 THEN p ELSE <<>>
  BY DEF Piece
<1>4. \A i : i \notin DOMAIN <<>>
  OBVIOUS
<1> HIDE DEF P
<1>5. ASSUME NEW k \in 0 .. Len(<<>>) + 1, NEW l \in 0 .. Len(<<>>) + 1,
             NEW i \in DOMAIN P(k), NEW j \in DOMAIN P(l), Same(P(k)[i], P(l)[j])
      PROVE  k = l /\ i = j
  <2>1. k = 0 /\ l = 0
    BY <1>3, <1>4
  <2> QED
    BY <1>1, <1>3, <1>5, <2>1
<1>6. ASSUME NEW i \in DOMAIN p, Counted(p[i])
      PROVE  \E k \in 0 .. Len(<<>>) + 1 : Has(P(k), p[i])
  <2>1. 0 \in 0 .. Len(<<>>) + 1
    OBVIOUS
  <2>2. Has(P(0), p[i])
    BY <1>3, <1>6, <2>1, Sameness DEF Has
  <2> QED
    BY <2>1, <2>2
<1>7. ASSUME NEW k \in 0 .. Len(<<>>) + 1, NEW i \in DOMAIN P(k)
      PROVE  /\ HasEffect(P(k)[i]) => Has(p, P(k)[i])
             /\ IsLabel(P(k)[i]) => /\ P(k)[i].label \in 1 .. NLabels + 1
                                    /\ P(k)[i].label # NLabels + 1
             /\ P(k)[i].kind = "JUMP" => P(k)[i].label \in 0 .. NLabels + 1
  <2>1. k = 0 /\ P(k) = p
    BY <1>3, <1>4
  <2>2. HasEffect(p[i]) => Has(p, p[i])
    BY <2>1, Sameness DEF Has, Counted
  <2>3. /\ IsLabel(p[i]) => p[i].label \in 1 .. NLabels
        /\ p[i].kind = "JUMP" => p[i].label \in 0 .. NLabels
    BY <1>1, <2>1
  <2>4. /\ \A n \in 1 .. NLabels : n \in 1 .. NLabels + 1 /\ n # NLabels + 1
        /\ \A n \in 0 .. NLabels : n \in 0 .. NLabels + 1
    BY <1>2
  <2> QED
    BY <2>1, <2>2, <2>3, <2>4
<1> QED
  BY <1>5, <1>6, <1>7 DEF Contents, P

(* A statement goes from the program to the block under construction.      *)
LEMMA Moved ==
  ASSUME NEW p, NEW m, NEW bs \in Seq(Seq(Statements)), NEW c \in Seq(Statements),
         NEW s \in Seq(Statements), s # <<>>, Contents(p, m, bs, c, s)
  PROVE  Contents(p, m, bs, Append(c, Head(s)), Tail(s))
<1> DEFINE d == Append(c, Head(s))
           L == Len(bs) + 1
           P(k) == Piece(bs, c, s, k)
           Q(k) == Piece(bs, d, Tail(s), k)
           Back(k, i) == IF k = 0 THEN i + 1 ELSE IF k = L /\ i = Len(c) + 1 THEN 1 ELSE i
           From0(k, i) == IF k = L /\ i = Len(c) + 1 THEN 0 ELSE k
<1>1. L \in Nat \ {0} /\ Len(c) \in Nat /\ Len(s) \in Nat \ {0}
  OBVIOUS
<1>2. /\ Tail(s) \in Seq(Statements) /\ Len(Tail(s)) = Len(s) - 1
      /\ DOMAIN Tail(s) = 1 .. Len(s) - 1 /\ DOMAIN s = 1 .. Len(s)
      /\ \A i \in 1 .. Len(s) - 1 : Tail(s)[i] = s[i + 1]
  BY <1>1
<1>3. /\ DOMAIN d = 1 .. Len(c) + 1 /\ DOMAIN c = 1 .. Len(c) /\ d[Len(c) + 1] = s[1]
      /\ \A i \in 1 .. Len(c) : d[i] = c[i]
  <2>1. Head(s) = s[1] /\ Head(s) \in Statements
    BY <1>1
  <2> QED
    BY <1>1, <2>1
<1> HIDE DEF d
<1>4. /\ P(0) = s /\ Q(0) = Tail(s) /\ P(L) = c /\ Q(L) = d
      /\ \A k \in 1 .. Len(bs) : P(k) = bs[k] /\ Q(k) = bs[k]
  BY <1>1 DEF Piece
<1>5. 0 \in 0 .. L /\ L \in 0 .. L /\ \A k \in 0 .. L : k = 0 \/ k = L \/ k \in 1 .. Len(bs)
  BY <1>1
<1> HIDE DEF P, Q, L
<1>6. ASSUME NEW k \in 0 .. L, NEW i \in DOMAIN Q(k)
      PROVE  /\ From0(k, i) \in 0 .. L /\ Back(k, i) \in DOMAIN P(From0(k, i))
             /\ P(From0(k, i))[Back(k, i)] = Q(k)[i]
  <2>1. CASE k = 0
    <3>1. i \in 1 .. Len(s) - 1 /\ i + 1 \in 1 .. Len(s)
      BY <1>1, <1>2, <1>4, <2>1
    <3>2. From0(k, i) = 0 /\ Back(k, i) = i + 1
      BY <1>1, <2>1
    <3> HIDE DEF From0, Back
    <3> QED
      BY <1>2, <1>4, <1>5, <2>1, <3>1, <3>2
  <2>2. CASE k = L /\ i = Len(c) + 1
    BY <1>1, <1>2, <1>3, <1>4, <1>5, <2>2
  <2>3. CASE k = L /\ i # Len(c) + 1
    <3>1. i \in 1 .. Len(c)
      BY <1>1, <1>3, <1>4, <2>3
    <3> QED
      BY <1>1, <1>3, <1>4, <1>5, <2>3, <3>1
  <2>4. CASE k \in 1 .. Len(bs) /\ k # L
    <3>1. From0(k, i) = k /\ Back(k, i) = i
      BY <2>4
    <3> HIDE DEF From0, Back
    <3> QED
      BY <1>4, <2>4, <3>1
  <2> QED
    BY <1>5, <2>1, <2>2, <2>3, <2>4
<1>7. ASSUME NEW k \in 0 .. L, NEW i \in DOMAIN Q(k), NEW l \in 0 .. L, NEW j \in DOMAIN Q(l),
             From0(k, i) = From0(l, j), Back(k, i) = Back(l, j)
      PROVE  k = l /\ i = j
  <2>1. (k = 0 => i \in 1 .. Len(s) - 1) /\ (l = 0 => j \in 1 .. Len(s) - 1)
    BY <1>2, <1>4
  <2> QED
    BY <1>1, <1>7, <2>1
<1> HIDE DEF From0, Back
<1>8. ASSUME NEW k \in 0 .. L, NEW i \in DOMAIN Q(k), NEW l \in 0 .. L, NEW j \in DOMAIN Q(l),
             Same(Q(k)[i], Q(l)[j])
      PROVE  k = l /\ i = j
  <2>1. From0(k, i) = From0(l, j) /\ Back(k, i) = Back(l, j)
    BY <1>6, <1>8 DEF Contents, P, L
  <2> QED
    BY <1>7, <2>1
<1>9. ASSUME NEW i \in DOMAIN p, Counted(p[i])
      PROVE  \E k \in 0 .. L : Has(Q(k), p[i])
  <2>1. PICK k \in 0 .. L : Has(P(k), p[i])
    BY <1>9 DEF Contents, P, L
  <2>2. PICK j \in DOMAIN P(k) : Same(P(k)[j], p[i])
    BY <2>1 DEF Has
  <2>3. CASE k = 0 /\ j = 1
    <3>1. Len(c) + 1 \in DOMAIN Q(L) /\ Q(L)[Len(c) + 1] = P(k)[j]
      BY <1>1, <1>3, <1>4, <2>3
    <3> QED
      BY <1>5, <2>2, <3>1 DEF Has
  <2>4. CASE k = 0 /\ j # 1
    <3>1. j \in 1 .. Len(s) /\ j - 1 \in 1 .. Len(s) - 1 /\ (j - 1) + 1 = j
      BY <1>1, <1>2, <1>4, <2>4
    <3>2. j - 1 \in DOMAIN Q(0) /\ Q(0)[j - 1] = P(k)[j]
      BY <1>2, <1>4, <2>4, <3>1
    <3> QED
      BY <1>5, <2>2, <3>2 DEF Has
  <2>5. CASE k = L
    <3>1. j \in DOMAIN Q(L) /\ Q(L)[j] = P(k)[j]
      BY <1>1, <1>3, <1>4, <2>5
    <3> QED
      BY <1>5, <2>2, <3>1 DEF Has
  <2>6. CASE k \in 1 .. Len(bs)
    BY <1>4, <2>1, <2>6
  <2> QED
    BY <1>5, <2>3, <2>4, <2>5, <2>6
<1>10. ASSUME NEW k \in 0 .. L, NEW i \in DOMAIN Q(k)
       PROVE  /\ HasEffect(Q(k)[i]) => Has(p, Q(k)[i])
              /\ IsLabel(Q(k)[i]) => Q(k)[i].label \in 1 .. m /\ Q(k)[i].label # NLabels + 1
              /\ Q(k)[i].kind = "JUMP" => Q(k)[i].label \in 0 .. NLabels + 1
  BY <1>6 DEF Contents, P, L
<1> QED
  BY <1>8, <1>9, <1>10 DEF Contents, Q, L, d

(* The jump that ends a block is added to it.                              *)
LEMMA JumpAdded ==
  ASSUME NEW p, NEW m, NEW bs \in Seq(Seq(Statements)), NEW c \in Seq(Statements),
         NEW s \in Seq(Statements), Contents(p, m, bs, c, s), NEW n \in 1 .. NLabels + 1
  PROVE  Contents(p, m, bs, Append(c, Jump(n)), s)
<1> DEFINE d == Append(c, Jump(n))
           L == Len(bs) + 1
           P(k) == Piece(bs, c, s, k)
           Q(k) == Piece(bs, d, s, k)
<1>1. L \in Nat \ {0} /\ Len(c) \in Nat /\ NLabels \in Nat
  BY NLabelsAssumption
<1>2. /\ DOMAIN d = 1 .. Len(c) + 1 /\ DOMAIN c = 1 .. Len(c) /\ d[Len(c) + 1] = Jump(n)
      /\ \A i \in 1 .. Len(c) : d[i] = c[i]
  <2>1. Jump(n) \in Statements
    BY <1>1, Made
  <2> QED
    BY <1>1, <2>1
<1> HIDE DEF d
<1>3. P(L) = c /\ Q(L) = d /\ \A k \in 0 .. L : k # L => Q(k) = P(k)
  BY <1>1 DEF Piece
<1> HIDE DEF P, Q, L
<1>4. ASSUME NEW k \in 0 .. L, NEW i \in DOMAIN Q(k)
      PROVE  \/ i \in DOMAIN P(k) /\ Q(k)[i] = P(k)[i]
             \/ Q(k)[i] = Jump(n)
  <2>1. CASE k = L
    <3>1. i \in 1 .. Len(c) \/ i = Len(c) + 1
      BY <1>1, <1>2, <1>3, <2>1
    <3> QED
      BY <1>2, <1>3, <2>1, <3>1
  <2>2. CASE k # L
    BY <1>3, <2>2
  <2> QED
    BY <2>1, <2>2
<1>5. ~Counted(Jump(n)) /\ \A r : ~Same(Jump(n), r) /\ ~Same(r, Jump(n))
  BY Made, Sameness
<1>6. ASSUME NEW k \in 0 .. L, NEW l \in 0 .. L, NEW i \in DOMAIN Q(k), NEW j \in DOMAIN Q(l),
             Same(Q(k)[i], Q(l)[j])
      PROVE  k = l /\ i = j
  <2>1. i \in DOMAIN P(k) /\ Q(k)[i] = P(k)[i] /\ j \in DOMAIN P(l) /\ Q(l)[j] = P(l)[j]
    BY <1>4, <1>5, <1>6
  <2> QED
    BY <1>6, <2>1 DEF Contents, P, L
<1>7. ASSUME NEW i \in DOMAIN p, Counted(p[i])
      PROVE  \E k \in 0 .. L : Has(Q(k), p[i])
  <2>1. PICK k \in 0 .. L : Has(P(k), p[i])
    BY <1>7 DEF Contents, P, L
  <2>2. CASE k = L
    <3>1. PICK j \in DOMAIN c : Same(c[j], p[i])
      BY <1>3, <2>1, <2>2 DEF Has
    <3>2. j \in DOMAIN d /\ d[j] = c[j]
      BY <1>1, <1>2
    <3> QED
      BY <1>3, <2>2, <3>1, <3>2 DEF Has
  <2>3. CASE k # L
    BY <1>3, <2>1, <2>3
  <2> QED
    BY <2>2, <2>3
<1>8. ASSUME NEW k \in 0 .. L, NEW i \in DOMAIN Q(k)
      PROVE  /\ HasEffect(Q(k)[i]) => Has(p, Q(k)[i])
             /\ IsLabel(Q(k)[i]) => Q(k)[i].label \in 1 .. m /\ Q(k)[i].label # NLabels + 1
             /\ Q(k)[i].kind = "JUMP" => Q(k)[i].label \in 0 .. NLabels + 1
  <2>1. CASE i \in DOMAIN P(k) /\ Q(k)[i] = P(k)[i]
    BY <2>1 DEF Contents, P, L
  <2>2. CASE Q(k)[i] = Jump(n)
    BY <2>2, Made DEF Counted
  <2> QED
    BY <1>4, <2>1, <2>2
<1> QED
  BY <1>6, <1>7, <1>8 DEF Contents, Q, L, d

(* The block under construction becomes the last one of the list.          *)
LEMMA Closed ==
  ASSUME NEW p, NEW m, NEW bs \in Seq(Seq(Statements)), NEW c \in Seq(Statements),
         NEW s, Contents(p, m, bs, c, s)
  PROVE  Contents(p, m, Append(bs, c), <<>>, s)
<1> DEFINE ds == Append(bs, c)
           L == Len(bs) + 1
           P(k) == Piece(bs, c, s, k)
           Q(k) == Piece(ds, <<>>, s, k)
<1>1. /\ Len(bs) \in Nat /\ Len(ds) = L /\ ds[L] = c
      /\ \A k \in 1 .. Len(bs) : ds[k] = bs[k]
  OBVIOUS
<1> HIDE DEF ds
<1>2. Q(L + 1) = <<>> /\ \A k \in 0 .. L : Q(k) = P(k)
  <2>1. Q(L + 1) = <<>> /\ Q(0) = P(0) /\ Q(L) = P(L)
    BY <1>1 DEF Piece
  <2>2. \A k \in 1 .. Len(bs) : Q(k) = P(k)
    BY <1>1 DEF Piece
  <2>3. \A k \in 0 .. L : k = 0 \/ k = L \/ k \in 1 .. Len(bs)
    BY <1>1
  <2> QED
    BY <2>1, <2>2, <2>3
<1>3. L + 1 \in Nat /\ L \in Nat
  BY <1>1
<1> HIDE DEF P, Q, L
<1>4. ASSUME NEW k \in 0 .. L + 1, NEW i \in DOMAIN Q(k)
      PROVE  k \in 0 .. L /\ Q(k) = P(k)
  <2>1. k \in 0 .. L \/ k = L + 1
    BY <1>3
  <2>2. k # L + 1
    BY <1>2
  <2> QED
    BY <1>2, <2>1, <2>2
<1>5. ASSUME NEW k \in 0 .. L + 1, NEW l \in 0 .. L + 1, NEW i \in DOMAIN Q(k),
             NEW j \in DOMAIN Q(l), Same(Q(k)[i], Q(l)[j])
      PROVE  k = l /\ i = j
  <2>1. k \in 0 .. L /\ Q(k) = P(k) /\ l \in 0 .. L /\ Q(l) = P(l)
    BY <1>4
  <2> QED
    BY <1>5, <2>1 DEF Contents, P, L
<1>6. ASSUME NEW i \in DOMAIN p, Counted(p[i])
      PROVE  \E k \in 0 .. L + 1 : Has(Q(k), p[i])
  <2>1. PICK k \in 0 .. L : Has(P(k), p[i])
    BY <1>6 DEF Contents, P, L
  <2>2. k \in 0 .. L + 1
    BY <1>3
  <2> QED
    BY <1>2, <2>1, <2>2
<1>7. ASSUME NEW k \in 0 .. L + 1, NEW i \in DOMAIN Q(k)
      PROVE  /\ HasEffect(Q(k)[i]) => Has(p, Q(k)[i])
             /\ IsLabel(Q(k)[i]) => Q(k)[i].label \in 1 .. m /\ Q(k)[i].label # NLabels + 1
             /\ Q(k)[i].kind = "JUMP" => Q(k)[i].label \in 0 .. NLabels + 1
  <2>1. k \in 0 .. L /\ Q(k) = P(k)
    BY <1>4
  <2> QED
    BY <2>1 DEF Contents, P, L
<1> QED
  BY <1>1, <1>5, <1>6, <1>7 DEF Contents, Q, ds

(* A block without a label in the program gets one with a number that none *)
(* has had.                                                                *)
LEMMA Labelled ==
  ASSUME NEW p, NEW m \in Nat, m >= NLabels + 1, NEW bs \in Seq(Seq(Statements)), NEW s,
         Contents(p, m, bs, <<>>, s)
  PROVE  Contents(p, m + 1, bs, <<Label(m + 1)>>, s)
<1> DEFINE d == <<Label(m + 1)>>
           L == Len(bs) + 1
           P(k) == Piece(bs, <<>>, s, k)
           Q(k) == Piece(bs, d, s, k)
<1>1. L \in Nat \ {0} /\ NLabels \in Nat /\ DOMAIN d = {1} /\ d[1] = Label(m + 1)
  BY NLabelsAssumption
<1> HIDE DEF d
<1>2. P(L) = <<>> /\ Q(L) = d /\ L \in 0 .. L /\ \A k \in 0 .. L : k # L => Q(k) = P(k)
  BY <1>1 DEF Piece
<1> HIDE DEF P, Q, L
<1>3. ASSUME NEW k \in 0 .. L, NEW i \in DOMAIN P(k)
      PROVE  ~Same(P(k)[i], Label(m + 1)) /\ ~Same(Label(m + 1), P(k)[i])
  <2>1. IsLabel(P(k)[i]) => P(k)[i].label \in 1 .. m
    BY DEF Contents, P, L
  <2>2. m + 1 \notin 1 .. m
    OBVIOUS
  <2> QED
    BY <2>1, <2>2, Made, Sameness
<1>4. ASSUME NEW k \in 0 .. L, NEW i \in DOMAIN Q(k)
      PROVE  \/ k # L /\ Q(k) = P(k)
             \/ k = L /\ i = 1 /\ Q(k)[i] = Label(m + 1)
  BY <1>1, <1>2
<1>5. ASSUME NEW k \in 0 .. L, NEW l \in 0 .. L, NEW i \in DOMAIN Q(k), NEW j \in DOMAIN Q(l),
             Same(Q(k)[i], Q(l)[j])
      PROVE  k = l /\ i = j
  <2>1. CASE k = L /\ l = L
    BY <1>4, <2>1
  <2>2. CASE k # L /\ l # L
    <3>1. Q(k) = P(k) /\ Q(l) = P(l)
      BY <1>2, <2>2
    <3> QED
      BY <1>5, <3>1 DEF Contents, P, L
  <2>3. CASE k = L /\ l # L
    <3>1. Q(k)[i] = Label(m + 1) /\ Q(l) = P(l)
      BY <1>4, <2>3
    <3> QED
      BY <1>3, <1>5, <3>1
  <2>4. CASE k # L /\ l = L
    <3>1. Q(l)[j] = Label(m + 1) /\ Q(k) = P(k)
      BY <1>4, <2>4
    <3> QED
      BY <1>3, <1>5, <3>1
  <2> QED
    BY <2>1, <2>2, <2>3, <2>4
<1>6. ASSUME NEW i \in DOMAIN p, Counted(p[i])
      PROVE  \E k \in 0 .. L : Has(Q(k), p[i])
  <2>1. PICK k \in 0 .. L : Has(P(k), p[i])
    BY <1>6 DEF Contents, P, L
  <2>2. k # L
    BY <1>2, <2>1 DEF Has
  <2> QED
    BY <1>2, <2>1, <2>2
<1>7. ASSUME NEW k \in 0 .. L, NEW i \in DOMAIN Q(k)
      PROVE  /\ HasEffect(Q(k)[i]) => Has(p, Q(k)[i])
             /\ IsLabel(Q(k)[i]) => /\ Q(k)[i].label \in 1 .. m + 1
                                    /\ Q(k)[i].label # NLabels + 1
             /\ Q(k)[i].kind = "JUMP" => Q(k)[i].label \in 0 .. NLabels + 1
  <2>1. CASE k # L
    <3>1. /\ HasEffect(P(k)[i]) => Has(p, P(k)[i])
          /\ IsLabel(P(k)[i]) => P(k)[i].label \in 1 .. m /\ P(k)[i].label # NLabels + 1
          /\ P(k)[i].kind = "JUMP" => P(k)[i].label \in 0 .. NLabels + 1
      BY <1>2, <2>1 DEF Contents, P, L
    <3>2. \A n \in 1 .. m : n \in 1 .. m + 1
      OBVIOUS
    <3> QED
      BY <1>2, <2>1, <3>1, <3>2
  <2>2. CASE k = L
    <3>1. Q(k)[i] = Label(m + 1)
      BY <1>4, <2>2
    <3>2. m + 1 \in 1 .. m + 1 /\ m + 1 # NLabels + 1
      BY <1>1
    <3> QED
      BY <3>1, <3>2, Made
  <2> QED
    BY <2>1, <2>2
<1> QED
  BY <1>5, <1>6, <1>7 DEF Contents, Q, L, d

(* One label more has been made.                                           *)
LEMMA MoreLabels ==
  ASSUME NEW p, NEW m \in Nat, NEW bs, NEW c, NEW s, Contents(p, m, bs, c, s)
  PROVE  Contents(p, m + 1, bs, c, s)
<1>1. \A n \in 1 .. m : n \in 1 .. m + 1
  OBVIOUS
<1> QED
  BY <1>1 DEF Contents

-------------------------------------------------------------------------------
(* A block, and one under construction.                                    *)
Block(b) ==
  /\ Len(b) >= 2
  /\ \A i \in DOMAIN b : (IsLabel(b[i]) <=> i = 1) /\ (EndsBlock(b[i]) <=> i = Len(b))

Begun(c) == c # <<>> => IsLabel(c[1]) /\ \A i \in 2 .. Len(c) : c[i].kind = "MOVE"

Cutting ==
  /\ program \in Programs /\ labels \in Nat /\ labels >= NLabels + 1 /\ done = NLabels + 1
  /\ stms \in Seq(Statements) /\ cur \in Seq(Statements) /\ blocks \in Seq(Seq(Statements))
  /\ \A i \in DOMAIN stms : IsLabel(stms[i]) => stms[i].label \in 1 .. NLabels
  /\ Begun(cur)
  /\ \A b \in DOMAIN blocks : Block(blocks[b])
  /\ Contents(program, labels, blocks, cur, stms)
  /\ stms = program \/ cur # <<>> \/ blocks # <<>>

LEMMA Ended ==
  ASSUME NEW c \in Seq(Statements), c # <<>>, Begun(c), NEW e \in Statements, EndsBlock(e)
  PROVE  Append(c, e) \in Seq(Statements) /\ Block(Append(c, e))
<1> DEFINE b == Append(c, e)
           n == Len(c)
<1>1. n \in Nat \ {0} /\ b \in Seq(Statements) /\ Len(b) = n + 1 /\ DOMAIN b = 1 .. n + 1
      /\ b[n + 1] = e /\ \A i \in 1 .. n : b[i] = c[i]
  OBVIOUS
<1> HIDE DEF b
<1>2. ~IsLabel(e)
  BY DEF EndsBlock, IsLabel
<1>3. ASSUME NEW i \in 1 .. n + 1
      PROVE  (IsLabel(b[i]) <=> i = 1) /\ (EndsBlock(b[i]) <=> i = n + 1)
  <2>1. CASE i = n + 1
    BY <1>1, <1>2, <2>1
  <2>2. CASE i = 1
    <3>1. IsLabel(c[1]) /\ b[i] = c[1]
      BY <1>1, <2>2 DEF Begun
    <3> QED
      BY <1>1, <2>2, <3>1 DEF IsLabel, EndsBlock
  <2>3. CASE i # 1 /\ i # n + 1
    <3>1. i \in 2 .. n /\ i \in 1 .. n
      BY <1>1, <2>3
    <3>2. c[i].kind = "MOVE" /\ b[i] = c[i]
      BY <1>1, <3>1 DEF Begun
    <3> QED
      BY <2>3, <3>2 DEF IsLabel, EndsBlock
  <2> QED
    BY <2>1, <2>2, <2>3
<1> QED
  BY <1>1, <1>3 DEF Block, b

LEMMA Heads ==
  ASSUME NEW s \in Seq(Statements), s # <<>>
  PROVE  /\ Head(s) = s[1] /\ 1 \in DOMAIN s /\ Head(s) \in Statements
         /\ Tail(s) \in Seq(Statements)
         /\ \A i \in DOMAIN Tail(s) : i + 1 \in DOMAIN s /\ Tail(s)[i] = s[i + 1]
<1>1. Len(s) \in Nat \ {0} /\ DOMAIN s = 1 .. Len(s)
  OBVIOUS
<1>2. /\ Tail(s) \in Seq(Statements) /\ DOMAIN Tail(s) = 1 .. Len(s) - 1
      /\ \A i \in 1 .. Len(s) - 1 : Tail(s)[i] = s[i + 1]
  BY <1>1
<1>3. \A i \in 1 .. Len(s) - 1 : i + 1 \in 1 .. Len(s)
  BY <1>1
<1> QED
  BY <1>1, <1>2, <1>3

LEMMA InitCutting ==
  ASSUME Init
  PROVE  Cutting
<1>1. /\ program \in Programs /\ stms = program /\ labels = NLabels + 1 /\ done = NLabels + 1
      /\ cur = <<>> /\ blocks = <<>> /\ NLabels \in Nat
  BY NLabelsAssumption DEF Init
<1>2. /\ program \in Seq(Statements)
      /\ \A i \in DOMAIN program : IsLabel(program[i]) => program[i].label \in 1 .. NLabels
  BY <1>1, Given
<1>3. Contents(program, labels, blocks, cur, stms)
  BY <1>1, Beginning
<1>4. Begun(cur) /\ blocks \in Seq(Seq(Statements)) /\ cur \in Seq(Statements)
      /\ \A b \in DOMAIN blocks : Block(blocks[b])
  BY <1>1 DEF Begun
<1> QED
  BY <1>1, <1>2, <1>3, <1>4 DEF Cutting

LEMMA MkBlocksCutting ==
  ASSUME Cutting, MkBlocks
  PROVE  Cutting'
<1>1. /\ cur = <<>> /\ stms # <<>>
      /\ program' = program /\ done' = done /\ blocks' = blocks
      /\ stms \in Seq(Statements) /\ blocks \in Seq(Seq(Statements)) /\ labels \in Nat
      /\ labels >= NLabels + 1 /\ Contents(program, labels, blocks, <<>>, stms)
  BY DEF MkBlocks, Cutting
<1>2. CASE IsLabel(Head(stms))
  <2>1. cur' = <<Head(stms)>> /\ stms' = Tail(stms) /\ labels' = labels
    BY <1>2 DEF MkBlocks
  <2>2. Head(stms) \in Statements
    BY <1>1, Heads
  <2>3. cur' = Append(<<>>, Head(stms)) /\ cur' \in Seq(Statements) /\ Len(cur') = 1
        /\ cur'[1] = Head(stms) /\ cur' # <<>>
    BY <2>1, <2>2
  <2>4. Contents(program, labels, blocks, cur', stms')
    <3>1. <<>> \in Seq(Statements)
      OBVIOUS
    <3>2. Contents(program, labels, blocks, Append(<<>>, Head(stms)), Tail(stms))
      BY <1>1, <3>1, Moved
    <3> QED
      BY <2>1, <2>3, <3>2
  <2>5. Begun(cur')
    BY <1>2, <2>3 DEF Begun
  <2>6. stms' \in Seq(Statements)
        /\ \A i \in DOMAIN stms' : IsLabel(stms'[i]) => stms'[i].label \in 1 .. NLabels
    BY <1>1, <2>1, Heads DEF Cutting
  <2> QED
    BY <1>1, <2>1, <2>3, <2>4, <2>5, <2>6 DEF Cutting
<1>3. CASE ~IsLabel(Head(stms))
  <2>1. cur' = <<Label(labels + 1)>> /\ stms' = stms /\ labels' = labels + 1
    BY <1>3 DEF MkBlocks
  <2>2. Label(labels + 1) \in Statements /\ IsLabel(Label(labels + 1))
    BY <1>1, Made
  <2>3. /\ cur' \in Seq(Statements) /\ Len(cur') = 1 /\ cur'[1] = Label(labels + 1)
        /\ cur' # <<>>
    BY <2>1, <2>2
  <2>4. Contents(program, labels', blocks, cur', stms)
    BY <1>1, <2>1, Labelled
  <2>5. Begun(cur')
    BY <2>2, <2>3 DEF Begun
  <2>6. labels' \in Nat /\ labels' >= NLabels + 1
    BY <1>1, <2>1, NLabelsAssumption
  <2> QED
    BY <1>1, <2>1, <2>3, <2>4, <2>5, <2>6 DEF Cutting
<1> QED
  BY <1>2, <1>3

LEMMA NextStmCutting ==
  ASSUME Cutting, NextStm
  PROVE  Cutting'
<1>1. /\ cur # <<>> /\ Ending = <<>> /\ cur' = Append(cur, Head(stms)) /\ stms' = Tail(stms)
      /\ program' = program /\ done' = done /\ blocks' = blocks /\ labels' = labels
      /\ stms \in Seq(Statements) /\ cur \in Seq(Statements) /\ blocks \in Seq(Seq(Statements))
      /\ Contents(program, labels, blocks, cur, stms)
  BY DEF NextStm, Cutting
<1>2. \A e : <<e>> # <<>>
  OBVIOUS
<1>3. stms # <<>> /\ ~EndsBlock(Head(stms)) /\ ~IsLabel(Head(stms))
  BY <1>1, <1>2 DEF Ending
<1>4. Head(stms) \in Statements
  BY <1>1, <1>3, Heads
<1>5. Head(stms).kind = "MOVE"
  BY <1>3, <1>4, Kinds DEF EndsBlock, IsLabel
<1>6. Contents(program, labels, blocks, cur', stms')
  BY <1>1, <1>3, Moved
<1>7. cur' \in Seq(Statements) /\ Begun(cur') /\ cur' # <<>>
  <2>1. /\ Len(cur) \in Nat \ {0} /\ Len(cur') = Len(cur) + 1 /\ cur' \in Seq(Statements)
        /\ cur'[Len(cur) + 1] = Head(stms) /\ \A i \in 1 .. Len(cur) : cur'[i] = cur[i]
    BY <1>1, <1>4
  <2>2. ASSUME NEW i \in 2 .. Len(cur) + 1 PROVE cur'[i].kind = "MOVE"
    <3>1. CASE i = Len(cur) + 1
      BY <1>5, <2>1, <3>1
    <3>2. CASE i # Len(cur) + 1
      <4>1. i \in 2 .. Len(cur) /\ i \in 1 .. Len(cur)
        BY <2>1, <3>2
      <4> QED
        BY <1>1, <2>1, <4>1 DEF Cutting, Begun
    <3> QED
      BY <3>1, <3>2
  <2>3. IsLabel(cur'[1])
    BY <1>1, <2>1 DEF Cutting, Begun
  <2> QED
    BY <2>1, <2>2, <2>3 DEF Begun
<1>8. stms' \in Seq(Statements)
      /\ \A i \in DOMAIN stms' : IsLabel(stms'[i]) => stms'[i].label \in 1 .. NLabels
  BY <1>1, <1>3, Heads DEF Cutting
<1> QED
  BY <1>1, <1>6, <1>7, <1>8 DEF Cutting

LEMMA EndBlockCutting ==
  ASSUME Cutting, EndBlock
  PROVE  Cutting'
<1> DEFINE consumed == stms # <<>> /\ EndsBlock(Head(stms))
<1>1. /\ cur # <<>> /\ Ending # <<>> /\ blocks' = Append(blocks, cur \o Ending) /\ cur' = <<>>
      /\ stms' = IF consumed THEN Tail(stms) ELSE stms
      /\ program' = program /\ done' = done /\ labels' = labels
  BY DEF EndBlock
<1>2. /\ stms \in Seq(Statements) /\ cur \in Seq(Statements) /\ blocks \in Seq(Seq(Statements))
      /\ Contents(program, labels, blocks, cur, stms) /\ Begun(cur) /\ NLabels \in Nat
      /\ \A i \in DOMAIN stms : IsLabel(stms[i]) => stms[i].label \in 1 .. NLabels
      /\ done = NLabels + 1
  BY NLabelsAssumption DEF Cutting
<1>3. ASSUME NEW e \in Statements, EndsBlock(e), Ending = <<e>>,
             Contents(program, labels, blocks, Append(cur, e), stms')
      PROVE  /\ Contents(program, labels, blocks', <<>>, stms')
             /\ blocks' \in Seq(Seq(Statements)) /\ blocks' # <<>>
             /\ \A b \in DOMAIN blocks' : Block(blocks'[b])
  <2>1. cur \o <<e>> = Append(cur, e)
    BY <1>2
  <2>2. Append(cur, e) \in Seq(Statements) /\ Block(Append(cur, e))
    BY <1>1, <1>2, <1>3, Ended
  <2> DEFINE new == Append(cur, e)
  <2>3. blocks' = Append(blocks, new) /\ new \in Seq(Statements) /\ Block(new)
        /\ Contents(program, labels, blocks, new, stms')
    BY <1>1, <1>3, <2>1, <2>2
  <2> HIDE DEF new
  <2>4. Contents(program, labels, blocks', <<>>, stms')
    BY <1>2, <2>3, Closed
  <2>5. /\ blocks' \in Seq(Seq(Statements)) /\ DOMAIN blocks' = 1 .. Len(blocks) + 1
        /\ Len(blocks) \in Nat /\ blocks'[Len(blocks) + 1] = new
        /\ \A b \in 1 .. Len(blocks) : blocks'[b] = blocks[b] /\ b \in DOMAIN blocks
    BY <1>2, <2>3
  <2>6. ASSUME NEW b \in 1 .. Len(blocks) + 1 PROVE Block(blocks'[b])
    <3>1. b \in 1 .. Len(blocks) \/ b = Len(blocks) + 1
      BY <2>5
    <3> QED
      BY <2>3, <2>5, <3>1 DEF Cutting
  <2> QED
    BY <2>4, <2>5, <2>6
<1>4. \E e \in Statements : /\ EndsBlock(e) /\ Ending = <<e>>
                            /\ Contents(program, labels, blocks, Append(cur, e), stms')
  <2>1. CASE stms = <<>>
    <3>1. Ending = <<Jump(NLabels + 1)>> /\ stms' = stms
      BY <1>1, <1>2, <2>1 DEF Ending
    <3>2. NLabels + 1 \in 1 .. NLabels + 1 /\ NLabels + 1 \in Nat
      BY <1>2
    <3>3. Contents(program, labels, blocks, Append(cur, Jump(NLabels + 1)), stms)
      BY <1>2, <3>2, JumpAdded
    <3>4. Jump(NLabels + 1) \in Statements /\ EndsBlock(Jump(NLabels + 1))
      BY <3>2, Made
    <3> QED
      BY <3>1, <3>3, <3>4
  <2>2. CASE consumed
    <3>1. Ending = <<Head(stms)>> /\ stms' = Tail(stms) /\ stms # <<>> /\ EndsBlock(Head(stms))
      BY <1>1, <2>2 DEF Ending
    <3>2. Head(stms) \in Statements
      BY <1>2, <3>1, Heads
    <3>3. Contents(program, labels, blocks, Append(cur, Head(stms)), Tail(stms))
      BY <1>2, <3>1, Moved
    <3> QED
      BY <3>1, <3>2, <3>3
  <2>3. CASE stms # <<>> /\ ~consumed
    <3>1. ~EndsBlock(Head(stms)) /\ stms' = stms
      BY <1>1, <2>3
    <3>2. IsLabel(Head(stms)) /\ Ending = <<Jump(Head(stms).label)>>
      BY <1>1, <2>3, <3>1 DEF Ending
    <3>3. Head(stms).label \in 1 .. NLabels
      BY <1>2, <2>3, <3>2, Heads
    <3>4. Head(stms).label \in 1 .. NLabels + 1 /\ Head(stms).label \in Nat
      BY <1>2, <3>3
    <3>5. Contents(program, labels, blocks, Append(cur, Jump(Head(stms).label)), stms)
      BY <1>2, <3>4, JumpAdded
    <3>6. Jump(Head(stms).label) \in Statements /\ EndsBlock(Jump(Head(stms).label))
      BY <3>4, Made
    <3> QED
      BY <3>1, <3>2, <3>5, <3>6
  <2> QED
    BY <2>1, <2>2, <2>3
<1>5. /\ Contents(program, labels, blocks', <<>>, stms')
      /\ blocks' \in Seq(Seq(Statements)) /\ blocks' # <<>>
      /\ \A b \in DOMAIN blocks' : Block(blocks'[b])
  BY <1>3, <1>4
<1>6. stms' \in Seq(Statements)
      /\ \A i \in DOMAIN stms' : IsLabel(stms'[i]) => stms'[i].label \in 1 .. NLabels
  <2>1. CASE consumed
    BY <1>1, <1>2, <2>1, Heads
  <2>2. CASE ~consumed
    BY <1>1, <1>2, <2>2
  <2> QED
    BY <2>1, <2>2
<1>7. Begun(cur') /\ cur' \in Seq(Statements)
  BY <1>1 DEF Begun
<1> QED
  BY <1>1, <1>5, <1>6, <1>7 DEF Cutting

-------------------------------------------------------------------------------
(* A sequence of statements that holds what the traced blocks hold, once,  *)
(* and nothing of the others.                                              *)
Placed(o) ==
  /\ \A i, j \in DOMAIN o : Same(o[i], o[j]) => i = j
  /\ \A b \in DOMAIN blocks :
       IF env[BlockLabel(b)] = 0
       THEN \A i \in DOMAIN blocks[b] : Counted(blocks[b][i]) => Has(o, blocks[b][i])
       ELSE \A i \in DOMAIN blocks[b] : ~Has(o, blocks[b][i])
  /\ \A i \in DOMAIN o : /\ HasEffect(o[i]) => Has(program, o[i])
                         /\ IsLabel(o[i]) => o[i].label \in 1 .. labels
                                             /\ o[i].label # NLabels + 1

(* The blocks are all there, and block_env knows which are traced.         *)
Known ==
  /\ cur = <<>> /\ stms = <<>>
  /\ DOMAIN env = {BlockLabel(b) : b \in DOMAIN blocks}
  /\ \A b \in DOMAIN blocks : env[BlockLabel(b)] \in {0, b}
  /\ \A b \in DOMAIN blocks : b < sList => env[BlockLabel(b)] = 0

Scheduling ==
  /\ phase \in {"blocks", "schedule", "done"} /\ out \in Seq(Statements)
  /\ sList \in Nat \ {0} /\ target \in Nat
  /\ phase = "blocks" => out = <<>> /\ target = 0 /\ sList = 1
  /\ phase # "blocks" => Known
  /\ phase = "schedule" => Placed(out)
  /\ phase = "done" => /\ \A b \in DOMAIN blocks : env[BlockLabel(b)] = 0
                       /\ \E o \in Seq(Statements) : out = Append(o, Label(done)) /\ Placed(o)
  /\ target # 0 => /\ phase = "schedule" /\ target \in DOMAIN blocks
                   /\ env[BlockLabel(target)] = target

Sched == Cutting /\ Scheduling /\ FalseLabelFollows /\ JumpsLeftGoBack

LEMMA BlocksHold ==
  ASSUME Cutting, cur = <<>>, stms = <<>>
  PROVE  /\ \A b, c \in DOMAIN blocks : \A i \in DOMAIN blocks[b], j \in DOMAIN blocks[c] :
              Same(blocks[b][i], blocks[c][j]) => b = c /\ i = j
         /\ \A i \in DOMAIN program :
              Counted(program[i]) => \E b \in DOMAIN blocks : Has(blocks[b], program[i])
         /\ \A b \in DOMAIN blocks : \A i \in DOMAIN blocks[b] :
              /\ HasEffect(blocks[b][i]) => Has(program, blocks[b][i])
              /\ IsLabel(blocks[b][i]) => /\ blocks[b][i].label \in 1 .. labels
                                          /\ blocks[b][i].label # NLabels + 1
              /\ blocks[b][i].kind = "JUMP" => blocks[b][i].label \in 0 .. NLabels + 1
<1> DEFINE P(k) == Piece(blocks, <<>>, <<>>, k)
           L == Len(blocks) + 1
<1>1. /\ blocks \in Seq(Seq(Statements)) /\ DOMAIN blocks = 1 .. Len(blocks)
      /\ Len(blocks) \in Nat /\ Contents(program, labels, blocks, <<>>, <<>>)
  BY DEF Cutting
<1>2. \A b \in DOMAIN blocks : b \in 0 .. L /\ P(b) = blocks[b]
  BY <1>1 DEF Piece
<1>3. \A k \in 0 .. L : k \in DOMAIN blocks \/ P(k) = <<>>
  BY <1>1 DEF Piece
<1> HIDE DEF P, L
<1>4. ASSUME NEW b \in DOMAIN blocks, NEW c \in DOMAIN blocks, NEW i \in DOMAIN blocks[b],
             NEW j \in DOMAIN blocks[c], Same(blocks[b][i], blocks[c][j])
      PROVE  b = c /\ i = j
  <2>1. b \in 0 .. L /\ P(b) = blocks[b] /\ c \in 0 .. L /\ P(c) = blocks[c]
    BY <1>2
  <2> QED
    BY <1>1, <1>4, <2>1 DEF Contents, P, L
<1>5. ASSUME NEW i \in DOMAIN program, Counted(program[i])
      PROVE  \E b \in DOMAIN blocks : Has(blocks[b], program[i])
  <2>1. PICK k \in 0 .. L : Has(P(k), program[i])
    BY <1>1, <1>5 DEF Contents, P, L
  <2>2. P(k) # <<>>
    BY <2>1 DEF Has
  <2> QED
    BY <1>2, <1>3, <2>1, <2>2
<1>6. ASSUME NEW b \in DOMAIN blocks, NEW i \in DOMAIN blocks[b]
      PROVE  /\ HasEffect(blocks[b][i]) => Has(program, blocks[b][i])
             /\ IsLabel(blocks[b][i]) => /\ blocks[b][i].label \in 1 .. labels
                                         /\ blocks[b][i].label # NLabels + 1
             /\ blocks[b][i].kind = "JUMP" => blocks[b][i].label \in 0 .. NLabels + 1
  <2>1. b \in 0 .. L /\ P(b) = blocks[b]
    BY <1>2
  <2> QED
    BY <1>1, <2>1 DEF Contents, P, L
<1> QED
  BY <1>4, <1>5, <1>6

(* A block begins with its label and has one of its own.                   *)
LEMMA LabelsOfBlocks ==
  ASSUME Cutting, cur = <<>>, stms = <<>>
  PROVE  /\ Len(blocks) \in Nat /\ DOMAIN blocks = 1 .. Len(blocks)
         /\ \A b \in DOMAIN blocks :
              /\ blocks[b] \in Seq(Statements) /\ Len(blocks[b]) \in Nat /\ Len(blocks[b]) >= 2
              /\ DOMAIN blocks[b] = 1 .. Len(blocks[b])
              /\ blocks[b][1] = Label(BlockLabel(b)) /\ IsLabel(blocks[b][1])
              /\ BlockLabel(b) \in 1 .. labels /\ BlockLabel(b) # NLabels + 1
         /\ \A b, c \in DOMAIN blocks : BlockLabel(b) = BlockLabel(c) => b = c
<1>1. /\ blocks \in Seq(Seq(Statements)) /\ DOMAIN blocks = 1 .. Len(blocks)
      /\ Len(blocks) \in Nat
  BY DEF Cutting
<1>2. ASSUME NEW b \in DOMAIN blocks
      PROVE  /\ blocks[b] \in Seq(Statements) /\ Len(blocks[b]) \in Nat /\ Len(blocks[b]) >= 2
             /\ DOMAIN blocks[b] = 1 .. Len(blocks[b])
             /\ blocks[b][1] = Label(BlockLabel(b)) /\ IsLabel(blocks[b][1])
             /\ BlockLabel(b) \in 1 .. labels /\ BlockLabel(b) # NLabels + 1
  <2>1. /\ blocks[b] \in Seq(Statements) /\ Len(blocks[b]) \in Nat
        /\ DOMAIN blocks[b] = 1 .. Len(blocks[b])
    BY <1>1
  <2>2. Block(blocks[b])
    BY DEF Cutting
  <2>3. Len(blocks[b]) >= 2 /\ 1 \in DOMAIN blocks[b] /\ IsLabel(blocks[b][1])
    BY <2>1, <2>2 DEF Block
  <2>4. blocks[b][1] \in Statements
    BY <2>1, <2>3
  <2>5. blocks[b][1] = Label(BlockLabel(b))
    BY <2>3, <2>4, Kinds DEF IsLabel, BlockLabel
  <2>6. BlockLabel(b) \in 1 .. labels /\ BlockLabel(b) # NLabels + 1
    BY <2>3, BlocksHold DEF BlockLabel
  <2> QED
    BY <2>1, <2>3, <2>5, <2>6
<1>3. ASSUME NEW b \in DOMAIN blocks, NEW c \in DOMAIN blocks, BlockLabel(b) = BlockLabel(c)
      PROVE  b = c
  <2>1. Same(blocks[b][1], blocks[c][1])
    BY <1>2, <1>3 DEF Same, BlockLabel
  <2>2. 1 \in DOMAIN blocks[b] /\ 1 \in DOMAIN blocks[c]
    BY <1>2
  <2> QED
    BY <2>1, <2>2, BlocksHold
<1> QED
  BY <1>1, <1>2, <1>3

LEMMA EnvAfter ==
  ASSUME Sched, target # 0
  PROVE  /\ DOMAIN EnvMarked = DOMAIN env
         /\ \A b \in DOMAIN blocks :
              EnvMarked[BlockLabel(b)] = IF b = target THEN 0 ELSE env[BlockLabel(b)]
         /\ \A n \in Nat : IsUntraced(n) =>
              /\ EnvMarked[n] \in DOMAIN blocks /\ BlockLabel(EnvMarked[n]) = n
              /\ EnvMarked[n] # target
         /\ \A n \in Nat : n \in DOMAIN env /\ ~IsUntraced(n) =>
              \E b \in DOMAIN blocks : BlockLabel(b) = n /\ EnvMarked[n] = 0
<1>1. /\ target \in DOMAIN blocks /\ Known /\ Cutting /\ cur = <<>> /\ stms = <<>>
  BY DEF Sched, Scheduling, Known
<1>2. /\ DOMAIN env = {BlockLabel(b) : b \in DOMAIN blocks}
      /\ \A b \in DOMAIN blocks : env[BlockLabel(b)] \in {0, b}
  BY <1>1 DEF Known
<1>3. /\ \A b, c \in DOMAIN blocks : BlockLabel(b) = BlockLabel(c) => b = c
      /\ DOMAIN blocks = 1 .. Len(blocks) /\ Len(blocks) \in Nat
  BY <1>1, LabelsOfBlocks
<1>4. DOMAIN EnvMarked = DOMAIN env
  BY DEF EnvMarked
<1>5. ASSUME NEW b \in DOMAIN blocks
      PROVE  EnvMarked[BlockLabel(b)] = IF b = target THEN 0 ELSE env[BlockLabel(b)]
  <2>1. BlockLabel(b) \in DOMAIN env /\ BlockLabel(target) \in DOMAIN env
    BY <1>1, <1>2
  <2>2. b # target => BlockLabel(b) # BlockLabel(target)
    BY <1>1, <1>3
  <2> QED
    BY <2>1, <2>2 DEF EnvMarked
<1>6. ASSUME NEW n \in Nat, n \in DOMAIN env
      PROVE  \E b \in DOMAIN blocks :
               BlockLabel(b) = n /\ EnvMarked[n] \in {0, b} /\ (b = target => EnvMarked[n] = 0)
  <2>1. PICK b \in DOMAIN blocks : n = BlockLabel(b)
    BY <1>2, <1>6
  <2> QED
    BY <1>2, <1>5, <2>1
<1>7. ASSUME NEW n \in Nat, IsUntraced(n)
      PROVE  /\ EnvMarked[n] \in DOMAIN blocks /\ BlockLabel(EnvMarked[n]) = n
             /\ EnvMarked[n] # target
  <2>1. n \in DOMAIN env /\ EnvMarked[n] # 0
    BY <1>4, <1>7 DEF IsUntraced
  <2> QED
    BY <1>6, <2>1
<1>8. ASSUME NEW n \in Nat, n \in DOMAIN env, ~IsUntraced(n)
      PROVE  \E b \in DOMAIN blocks : BlockLabel(b) = n /\ EnvMarked[n] = 0
  <2>1. EnvMarked[n] = 0
    BY <1>4, <1>8 DEF IsUntraced
  <2> QED
    BY <1>6, <1>8, <2>1
<1> QED
  BY <1>4, <1>5, <1>7, <1>8
(* A jump to a label whose block has been traced, this one included, or to *)
(* the exit: the label is in the schedule already, or begins what is being *)
(* added to it.                                                            *)
LEMMA JumpsBack ==
  ASSUME Sched, target # 0, NEW i \in DOMAIN blocks[target],
         blocks[target][i].kind = "JUMP", ~IsUntraced(blocks[target][i].label)
  PROVE  \/ blocks[target][i].label \in {done, Elsewhere, BlockLabel(target)}
         \/ \E j \in DOMAIN out : out[j] = Label(blocks[target][i].label)
<1> DEFINE n == blocks[target][i].label
<1>1. /\ target \in DOMAIN blocks /\ Known /\ Cutting /\ cur = <<>> /\ stms = <<>>
      /\ Placed(out) /\ out \in Seq(Statements) /\ done = NLabels + 1 /\ program \in Programs
  BY DEF Sched, Scheduling, Known, Cutting
<1>2. n \in 0 .. NLabels + 1
  BY <1>1, BlocksHold
<1>3. CASE n = NLabels + 1 \/ n = 0
  BY <1>1, <1>3 DEF Elsewhere
<1>4. CASE n # NLabels + 1 /\ n # 0
  <2>1. n \in 1 .. NLabels /\ n \in Nat
    BY <1>2, <1>4, NLabelsAssumption
  <2>2. PICK k \in DOMAIN program : program[k] = Label(n)
    BY <1>1, <2>1, Given
  <2> HIDE DEF n
  <2>3. PICK b \in DOMAIN blocks : Has(blocks[b], Label(n))
    <3>1. Counted(program[k])
      BY <2>2, Made DEF Counted
    <3> QED
      BY <1>1, <2>2, <3>1, BlocksHold
  <2>4. PICK l \in DOMAIN blocks[b] : Same(blocks[b][l], Label(n))
    BY <2>3 DEF Has
  <2>5. IsLabel(blocks[b][l]) /\ blocks[b][l].label = n
    BY <2>4, Made, Sameness
  <2>6. l = 1
    BY <1>1, <2>5 DEF Cutting, Block
  <2>7. BlockLabel(b) = n
    BY <2>5, <2>6 DEF BlockLabel
  <2>8. b = target \/ env[n] = 0
    <3>1. n \in DOMAIN env
      BY <1>1, <2>7 DEF Known
    <3>2. EnvMarked[n] = IF b = target THEN 0 ELSE env[n]
      BY <2>7, EnvAfter
    <3>3. ~IsUntraced(n)
      BY DEF n
    <3> QED
      BY <3>1, <3>2, <3>3, EnvAfter DEF IsUntraced
  <2>9. CASE b = target
    BY <2>7, <2>9 DEF n
  <2>10. CASE env[n] = 0
    <3>1. Has(out, blocks[b][l])
      BY <1>1, <2>5, <2>7, <2>10 DEF Placed, Counted
    <3>2. PICK j \in DOMAIN out : Same(out[j], blocks[b][l])
      BY <3>1 DEF Has
    <3>3. IsLabel(out[j]) /\ out[j].label = n
      BY <2>5, <3>2, Sameness
    <3>4. out[j] = Label(n)
      BY <1>1, <3>3, Kinds DEF IsLabel
    <3> QED
      BY <3>4 DEF n
  <2> QED
    BY <2>8, <2>9, <2>10
<1> QED
  BY <1>3, <1>4

(* What trace adds for a block: its statements, each at its place and      *)
(* perhaps turned round, without a jump that is dropped, and after them a  *)
(* label that is new.                                                      *)
Copies(x, b, m) ==
  /\ x \in Seq(Statements) /\ x # <<>> /\ x[1] = b[1]
  /\ \A i \in DOMAIN x : \/ i \in DOMAIN b /\ \A s : Same(x[i], s) <=> Same(b[i], s)
                         \/ i = Len(b) + 1 /\ x[i] = Label(labels + 1) /\ m = labels + 1
  /\ \A i \in DOMAIN b : Counted(b[i]) => i \in DOMAIN x

LEMMA Sequel ==
  ASSUME NEW S, NEW o \in Seq(S), NEW x \in Seq(S)
  PROVE  /\ o \o x \in Seq(S) /\ Len(o \o x) = Len(o) + Len(x)
         /\ Len(o) \in Nat /\ Len(x) \in Nat
         /\ DOMAIN o = 1 .. Len(o) /\ DOMAIN x = 1 .. Len(x)
         /\ DOMAIN (o \o x) = 1 .. Len(o) + Len(x)
         /\ \A i \in DOMAIN o : i \in DOMAIN (o \o x) /\ (o \o x)[i] = o[i]
         /\ \A i \in DOMAIN x : /\ Len(o) + i \in DOMAIN (o \o x)
                                /\ (o \o x)[Len(o) + i] = x[i]
         /\ \A i \in DOMAIN (o \o x) : \/ i \in DOMAIN o
                                       \/ \E j \in DOMAIN x : i = Len(o) + j
<1>1. /\ o \o x \in Seq(S) /\ Len(o \o x) = Len(o) + Len(x)
      /\ Len(o) \in Nat /\ Len(x) \in Nat
      /\ DOMAIN o = 1 .. Len(o) /\ DOMAIN x = 1 .. Len(x)
      /\ DOMAIN (o \o x) = 1 .. Len(o) + Len(x)
  OBVIOUS
<1>2. \A i \in 1 .. Len(o) : i \in 1 .. Len(o) + Len(x) /\ (o \o x)[i] = o[i]
  BY <1>1
<1>3. \A i \in 1 .. Len(x) : Len(o) + i \in 1 .. Len(o) + Len(x) /\ (o \o x)[Len(o) + i] = x[i]
  BY <1>1
<1>4. ASSUME NEW i \in 1 .. Len(o) + Len(x), i \notin 1 .. Len(o)
      PROVE  \E j \in 1 .. Len(x) : i = Len(o) + j
  <2>1. i - Len(o) \in 1 .. Len(x) /\ i = Len(o) + (i - Len(o))
    BY <1>1, <1>4
  <2> QED
    BY <2>1
<1> QED
  BY <1>1, <1>2, <1>3, <1>4
LEMMA PlacedAfter ==
  ASSUME Sched, target # 0, NEW x, NEW o, Copies(x, blocks[target], labels'), o = out \o x,
         labels' \in {labels, labels + 1}, env' = EnvMarked, blocks' = blocks,
         program' = program
  PROVE  o \in Seq(Statements) /\ Placed(o)'
<1> DEFINE B == blocks[target]
           k == Len(out)
<1>1. /\ target \in DOMAIN blocks /\ Known /\ Cutting /\ cur = <<>> /\ stms = <<>>
      /\ Placed(out) /\ out \in Seq(Statements) /\ labels \in Nat /\ labels >= NLabels + 1
      /\ env[BlockLabel(target)] = target
  BY DEF Sched, Scheduling, Known, Cutting
<1>2. /\ x \in Seq(Statements)
      /\ \A i \in DOMAIN x : \/ i \in DOMAIN B /\ \A s : Same(x[i], s) <=> Same(B[i], s)
                             \/ /\ i = Len(B) + 1 /\ x[i] = Label(labels + 1)
                                /\ labels' = labels + 1
      /\ \A i \in DOMAIN B : Counted(B[i]) => i \in DOMAIN x
  BY DEF Copies
<1>3. /\ Len(B) \in Nat /\ DOMAIN B = 1 .. Len(B) /\ NLabels \in Nat
  BY <1>1, LabelsOfBlocks, NLabelsAssumption
<1>4. /\ \A i \in DOMAIN B : ~Has(out, B[i])
      /\ \A i \in DOMAIN B : /\ HasEffect(B[i]) => Has(program, B[i])
                             /\ IsLabel(B[i]) => B[i].label \in 1 .. labels
                                                 /\ B[i].label # NLabels + 1
      /\ \A i, j \in DOMAIN B : Same(B[i], B[j]) => i = j
  BY <1>1, BlocksHold DEF Placed
<1>5. \A b \in DOMAIN blocks : BlockLabel(b)' = BlockLabel(b)
  BY DEF BlockLabel
<1>6. /\ o \in Seq(Statements)
      /\ \A i \in DOMAIN out : i \in DOMAIN o /\ o[i] = out[i]
      /\ \A i \in DOMAIN x : k + i \in DOMAIN o /\ o[k + i] = x[i]
      /\ \A i \in DOMAIN o : i \in DOMAIN out \/ \E j \in DOMAIN x : i = k + j
  BY <1>1, <1>2, Sequel
<1> HIDE DEF B, k
<1>7. ASSUME NEW i \in DOMAIN out, NEW j \in DOMAIN x
      PROVE  ~Same(out[i], x[j]) /\ ~Same(x[j], out[i])
  <2>1. CASE j \in DOMAIN B /\ \A s : Same(x[j], s) <=> Same(B[j], s)
    BY <1>4, <2>1, Sameness DEF Has
  <2>2. CASE x[j] = Label(labels + 1)
    <3>1. IsLabel(out[i]) => out[i].label \in 1 .. labels
      BY <1>1 DEF Placed
    <3>2. labels + 1 \notin 1 .. labels
      BY <1>1
    <3> QED
      BY <2>2, <3>1, <3>2, Made, Sameness
  <2> QED
    BY <1>2, <2>1, <2>2
<1>8. ASSUME NEW i \in DOMAIN x, NEW j \in DOMAIN x, Same(x[i], x[j])
      PROVE  i = j
  <2>1. ASSUME NEW l \in DOMAIN x, NEW q \in DOMAIN x, Same(x[l], x[q]),
               l \in DOMAIN B, \A s : Same(x[l], s) <=> Same(B[l], s)
        PROVE  l = q
    <3>1. CASE q \in DOMAIN B /\ \A s : Same(x[q], s) <=> Same(B[q], s)
      <4>1. Same(B[l], x[q])
        BY <2>1
      <4>2. Same(B[q], B[l])
        BY <3>1, <4>1, Sameness
      <4> QED
        BY <1>4, <2>1, <3>1, <4>2
    <3>2. CASE x[q] = Label(labels + 1)
      <4>1. Same(B[l], Label(labels + 1))
        BY <2>1, <3>2
      <4>2. IsLabel(B[l]) /\ B[l].label = labels + 1
        <5>1. IsLabel(Label(labels + 1)) /\ Label(labels + 1).label = labels + 1
          BY Made
        <5> QED
          BY <4>1, <5>1, Sameness
      <4>3. labels + 1 \in 1 .. labels
        BY <1>4, <2>1, <4>2
      <4> QED
        BY <1>1, <4>3
    <3> QED
      BY <1>2, <3>1, <3>2
  <2>2. CASE i = Len(B) + 1 /\ j = Len(B) + 1
    BY <2>2
  <2>3. Same(x[j], x[i])
    BY <1>8, Sameness
  <2>4. \A l \in DOMAIN x : \/ l = Len(B) + 1
                            \/ l \in DOMAIN B /\ \A s : Same(x[l], s) <=> Same(B[l], s)
    BY <1>2
  <2>5. CASE i \in DOMAIN B /\ \A s : Same(x[i], s) <=> Same(B[i], s)
    BY <1>8, <2>1, <2>5
  <2>6. CASE j \in DOMAIN B /\ \A s : Same(x[j], s) <=> Same(B[j], s)
    BY <2>1, <2>3, <2>6
  <2> QED
    BY <2>2, <2>4, <2>5, <2>6
<1>9. ASSUME NEW i \in DOMAIN o, NEW j \in DOMAIN o, Same(o[i], o[j])
      PROVE  i = j
  <2>1. CASE i \in DOMAIN out /\ j \in DOMAIN out
    BY <1>1, <1>6, <1>9, <2>1 DEF Placed
  <2>2. CASE i \in DOMAIN out /\ j \notin DOMAIN out
    <3>1. PICK q \in DOMAIN x : j = k + q
      BY <1>6, <2>2
    <3> QED
      BY <1>6, <1>7, <1>9, <2>2, <3>1
  <2>3. CASE i \notin DOMAIN out /\ j \in DOMAIN out
    <3>1. PICK q \in DOMAIN x : i = k + q
      BY <1>6, <2>3
    <3> QED
      BY <1>6, <1>7, <1>9, <2>3, <3>1
  <2>4. CASE i \notin DOMAIN out /\ j \notin DOMAIN out
    <3>1. PICK l \in DOMAIN x : i = k + l
      BY <1>6, <2>4
    <3>2. PICK q \in DOMAIN x : j = k + q
      BY <1>6, <2>4
    <3> QED
      BY <1>6, <1>8, <1>9, <3>1, <3>2
  <2> QED
    BY <2>1, <2>2, <2>3, <2>4
<1>10. \A s : Has(out, s) => Has(o, s)
  BY <1>6 DEF Has
<1>11. ASSUME NEW b \in DOMAIN blocks
       PROVE  IF EnvMarked[BlockLabel(b)] = 0
              THEN \A i \in DOMAIN blocks[b] : Counted(blocks[b][i]) => Has(o, blocks[b][i])
              ELSE \A i \in DOMAIN blocks[b] : ~Has(o, blocks[b][i])
  <2>1. EnvMarked[BlockLabel(b)] = IF b = target THEN 0 ELSE env[BlockLabel(b)]
    BY EnvAfter
  <2>2. CASE b = target
    <3>1. ASSUME NEW i \in DOMAIN B, Counted(B[i]) PROVE Has(o, B[i])
      <4>1. i \in DOMAIN x /\ i # Len(B) + 1
        BY <1>2, <1>3, <3>1
      <4>2. Same(x[i], B[i])
        BY <1>2, <3>1, <4>1, Sameness
      <4> QED
        BY <1>6, <4>1, <4>2 DEF Has
    <3> QED
      BY <2>1, <2>2, <3>1 DEF B
  <2>3. CASE b # target /\ env[BlockLabel(b)] = 0
    BY <1>1, <1>10, <2>1, <2>3 DEF Placed
  <2>4. CASE b # target /\ env[BlockLabel(b)] # 0
    <3>1. ASSUME NEW i \in DOMAIN blocks[b], Has(o, blocks[b][i]) PROVE FALSE
      <4>1. ~Has(out, blocks[b][i])
        BY <1>1, <2>4 DEF Placed
      <4>2. PICK j \in DOMAIN o : Same(o[j], blocks[b][i])
        BY <3>1 DEF Has
      <4>3. j \notin DOMAIN out
        BY <1>6, <4>1, <4>2 DEF Has
      <4>4. PICK q \in DOMAIN x : j = k + q
        BY <1>6, <4>3
      <4>5. Same(x[q], blocks[b][i])
        BY <1>6, <4>2, <4>4
      <4>6. CASE q \in DOMAIN B /\ \A s : Same(x[q], s) <=> Same(B[q], s)
        <5>1. Same(B[q], blocks[b][i])
          BY <4>5, <4>6
        <5> QED
          BY <1>1, <2>4, <4>6, <5>1, BlocksHold DEF B
      <4>7. CASE x[q] = Label(labels + 1)
        <5>1. IsLabel(blocks[b][i]) /\ blocks[b][i].label = labels + 1
          BY <4>5, <4>7, Made, Sameness
        <5>2. labels + 1 \in 1 .. labels
          BY <1>1, <5>1, BlocksHold
        <5> QED
          BY <1>1, <5>2
      <4> QED
        BY <1>2, <4>6, <4>7
    <3> QED
      BY <2>1, <2>4, <3>1
  <2> QED
    BY <2>2, <2>3, <2>4
<1>12. \A n \in 1 .. labels : n \in 1 .. labels'
  BY <1>1
<1>13. ASSUME NEW i \in DOMAIN o
       PROVE  /\ HasEffect(o[i]) => Has(program, o[i])
              /\ IsLabel(o[i]) => o[i].label \in 1 .. labels' /\ o[i].label # NLabels + 1
  <2>1. CASE i \in DOMAIN out
    BY <1>1, <1>6, <1>12, <2>1 DEF Placed
  <2>2. CASE i \notin DOMAIN out
    <3>1. PICK q \in DOMAIN x : i = k + q
      BY <1>6, <2>2
    <3>2. o[i] = x[q]
      BY <1>6, <3>1
    <3>3. CASE q \in DOMAIN B /\ \A s : Same(x[q], s) <=> Same(B[q], s)
      <4>1. HasEffect(x[q]) => HasEffect(B[q]) /\ Same(B[q], x[q])
        BY <3>3, Sameness DEF Counted
      <4>2. HasEffect(x[q]) => Has(program, x[q])
        BY <1>4, <3>3, <4>1, Sameness DEF Has
      <4>3. IsLabel(x[q]) => IsLabel(B[q]) /\ x[q].label = B[q].label
        BY <3>3, Sameness DEF Counted
      <4> QED
        BY <1>4, <1>12, <3>2, <3>3, <4>2, <4>3
    <3>4. CASE x[q] = Label(labels + 1) /\ labels' = labels + 1
      <4>1. labels + 1 \in 1 .. labels + 1 /\ labels + 1 # NLabels + 1
        BY <1>1, <1>3
      <4> QED
        BY <3>2, <3>4, <4>1, Made
    <3> QED
      BY <1>2, <3>3, <3>4
  <2> QED
    BY <2>1, <2>2
<1> QED
  BY <1>5, <1>6, <1>9, <1>11, <1>13 DEF Placed
(* What the added statements must be like for the schedule to keep its     *)
(* shape, when v is the block trace is called with next.                   *)
Shaped(x, v) ==
  /\ \A i \in DOMAIN x : x[i].kind = "CJUMP" =>
       IF i < Len(x) THEN x[i + 1] = Label(x[i].falsee)
       ELSE v # 0 /\ BlockLabel(v) = x[i].falsee
  /\ \A i \in DOMAIN x : x[i].kind = "JUMP" =>
       \/ x[i].label \in {done, Elsewhere, BlockLabel(target)}
       \/ \E j \in DOMAIN out : out[j] = Label(x[i].label)

LEMMA FollowsAfter ==
  ASSUME Sched, target # 0, NEW x, Copies(x, blocks[target], labels'), Shaped(x, target'),
         out' = out \o x, blocks' = blocks
  PROVE  FalseLabelFollows'
<1>1. /\ target \in DOMAIN blocks /\ Cutting /\ cur = <<>> /\ stms = <<>>
      /\ out \in Seq(Statements) /\ x \in Seq(Statements) /\ x # <<>>
      /\ x[1] = Label(BlockLabel(target))
  BY LabelsOfBlocks DEF Sched, Scheduling, Known, Copies
<1>2. /\ Len(out') = Len(out) + Len(x) /\ Len(out) \in Nat /\ Len(x) \in Nat \ {0}
      /\ DOMAIN out = 1 .. Len(out) /\ DOMAIN x = 1 .. Len(x)
      /\ \A i \in DOMAIN out : out'[i] = out[i]
      /\ \A i \in DOMAIN x : out'[Len(out) + i] = x[i]
      /\ \A i \in DOMAIN out' : i \in DOMAIN out \/ \E j \in DOMAIN x : i = Len(out) + j
  BY <1>1, Sequel
<1>3. \A b : BlockLabel(b)' = blocks[b][1].label
  BY DEF BlockLabel
<1>4. ASSUME NEW i \in DOMAIN out', out'[i].kind = "CJUMP"
      PROVE  IF i < Len(out') THEN out'[i + 1] = Label(out'[i].falsee)
             ELSE target' # 0 /\ blocks[target'][1].label = out'[i].falsee
  <2>1. CASE i \in DOMAIN out /\ i < Len(out)
    <3>1. i + 1 \in DOMAIN out /\ i < Len(out')
      BY <1>2, <2>1
    <3> QED
      BY <1>2, <1>4, <2>1, <3>1 DEF Sched, FalseLabelFollows
  <2>2. CASE i \in DOMAIN out /\ i = Len(out)
    <3>1. BlockLabel(target) = out[i].falsee
      BY <1>2, <1>4, <2>2 DEF Sched, FalseLabelFollows
    <3>2. i < Len(out') /\ 1 \in DOMAIN x
      BY <1>2, <2>2
    <3>3. out'[i + 1] = x[1]
      BY <1>2, <2>2, <3>2
    <3> QED
      BY <1>1, <1>2, <2>2, <3>1, <3>2, <3>3
  <2>3. CASE i \notin DOMAIN out
    <3>1. PICK j \in DOMAIN x : i = Len(out) + j
      BY <1>2, <2>3
    <3>2. out'[i] = x[j]
      BY <1>2, <3>1
    <3>3. CASE j < Len(x)
      <4>1. j + 1 \in DOMAIN x /\ i < Len(out') /\ i + 1 = Len(out) + (j + 1)
        BY <1>2, <3>1, <3>3
      <4>2. out'[i + 1] = x[j + 1]
        BY <1>2, <4>1
      <4> QED
        BY <1>4, <3>2, <3>3, <4>1, <4>2 DEF Shaped
    <3>4. CASE ~(j < Len(x))
      <4>1. ~(i < Len(out'))
        BY <1>2, <3>1, <3>4
      <4> QED
        BY <1>4, <3>2, <3>4, <4>1 DEF Shaped, BlockLabel
    <3> QED
      BY <3>3, <3>4
  <2>4. i \in DOMAIN out => i < Len(out) \/ i = Len(out)
    BY <1>2
  <2> QED
    BY <2>1, <2>2, <2>3, <2>4
<1> QED
  BY <1>3, <1>4 DEF FalseLabelFollows

LEMMA JumpsAfter ==
  ASSUME Sched, target # 0, NEW x, Copies(x, blocks[target], labels'), Shaped(x, target'),
         out' = out \o x, done' = done
  PROVE  JumpsLeftGoBack'
<1>1. /\ target \in DOMAIN blocks /\ Cutting /\ cur = <<>> /\ stms = <<>>
      /\ out \in Seq(Statements) /\ x \in Seq(Statements) /\ x # <<>>
      /\ x[1] = Label(BlockLabel(target))
  BY LabelsOfBlocks DEF Sched, Scheduling, Known, Copies
<1>2. /\ Len(out) \in Nat /\ Len(x) \in Nat \ {0}
      /\ DOMAIN out = 1 .. Len(out) /\ DOMAIN x = 1 .. Len(x)
      /\ \A i \in DOMAIN out : out'[i] = out[i]
      /\ \A i \in DOMAIN x : out'[Len(out) + i] = x[i]
      /\ \A i \in DOMAIN out' : i \in DOMAIN out \/ \E j \in DOMAIN x : i = Len(out) + j
  BY <1>1, Sequel
<1>3. ASSUME NEW i \in DOMAIN out', out'[i].kind = "JUMP"
      PROVE  out'[i].label \in {done, Elsewhere} \/ \E j \in 1 .. i : out'[j] = Label(out'[i].label)
  <2>1. CASE i \in DOMAIN out
    <3>1. out[i].label \in {done, Elsewhere} \/ \E j \in 1 .. i : out[j] = Label(out[i].label)
      BY <1>2, <1>3, <2>1 DEF Sched, JumpsLeftGoBack
    <3>2. \A j \in 1 .. i : j \in DOMAIN out
      BY <1>2, <2>1
    <3> QED
      BY <1>2, <2>1, <3>1, <3>2
  <2>2. CASE i \notin DOMAIN out
    <3>1. PICK j \in DOMAIN x : i = Len(out) + j
      BY <1>2, <2>2
    <3>2. out'[i] = x[j]
      BY <1>2, <3>1
    <3>3. CASE x[j].label = BlockLabel(target)
      <4>1. Len(out) + 1 \in 1 .. i /\ 1 \in DOMAIN x
        BY <1>2, <3>1
      <4>2. out'[Len(out) + 1] = x[1]
        BY <1>2, <4>1
      <4> QED
        BY <1>1, <3>2, <3>3, <4>1, <4>2
    <3>4. CASE \E l \in DOMAIN out : out[l] = Label(x[j].label)
      <4>1. PICK l \in DOMAIN out : out[l] = Label(x[j].label)
        BY <3>4
      <4>2. l \in 1 .. i
        BY <1>2, <3>1
      <4> QED
        BY <1>2, <3>2, <4>1, <4>2
    <3> QED
      BY <1>3, <3>2, <3>3, <3>4 DEF Shaped
  <2> QED
    BY <2>1, <2>2
<1> QED
  BY <1>3 DEF JumpsLeftGoBack

(* One call of trace, whatever it adds.                                    *)
LEMMA TraceSched ==
  ASSUME Sched, Trace, NEW x, Copies(x, blocks[target], labels'), Shaped(x, target'),
         out' = out \o x, labels' \in {labels, labels + 1},
         \/ target' = 0
         \/ \E n \in Nat : IsUntraced(n) /\ target' = EnvMarked[n]
  PROVE  Sched'
<1>1. /\ phase = "schedule" /\ target # 0 /\ env' = EnvMarked /\ program' = program
      /\ phase' = phase /\ done' = done /\ stms' = stms /\ cur' = cur /\ blocks' = blocks
      /\ sList' = sList
  BY DEF Trace, cutting
<1>2. /\ target \in DOMAIN blocks /\ Known /\ Cutting /\ cur = <<>> /\ stms = <<>>
      /\ labels \in Nat /\ labels >= NLabels + 1 /\ sList \in Nat \ {0}
  BY <1>1 DEF Sched, Scheduling, Known, Cutting
<1>3. FalseLabelFollows' /\ JumpsLeftGoBack'
  BY <1>1, FollowsAfter, JumpsAfter
<1>4. (out \in Seq(Statements) /\ Placed(out))'
  <2>1. PICK o : o = out'
    OBVIOUS
  <2>2. o \in Seq(Statements) /\ Placed(o)'
    BY <1>1, <2>1, PlacedAfter
  <2> QED
    BY <2>1, <2>2 DEF Placed
<1>5. Cutting'
  <2>1. Contents(program, labels', blocks, cur, stms)
    BY <1>2, MoreLabels DEF Cutting
  <2>2. labels' \in Nat /\ labels' >= NLabels + 1
    BY <1>2, NLabelsAssumption
  <2> QED
    BY <1>1, <1>2, <2>1, <2>2 DEF Cutting
<1>6. /\ DOMAIN EnvMarked = DOMAIN env
      /\ \A b \in DOMAIN blocks :
           EnvMarked[BlockLabel(b)] = IF b = target THEN 0 ELSE env[BlockLabel(b)]
      /\ \A n \in Nat : IsUntraced(n) =>
           EnvMarked[n] \in DOMAIN blocks /\ BlockLabel(EnvMarked[n]) = n
  BY <1>1, EnvAfter
<1>7. \A b : BlockLabel(b)' = BlockLabel(b)
  BY <1>1 DEF BlockLabel
<1>8. Known'
  <2>1. {BlockLabel(b) : b \in DOMAIN blocks}' = {BlockLabel(b) : b \in DOMAIN blocks}
    BY <1>1, <1>7
  <2>2. \A b \in DOMAIN blocks : /\ EnvMarked[BlockLabel(b)] \in {0, b}
                                 /\ b < sList => EnvMarked[BlockLabel(b)] = 0
    BY <1>2, <1>6 DEF Known
  <2> QED
    BY <1>1, <1>2, <1>6, <1>7, <2>1, <2>2 DEF Known
<1>9. target' \in Nat /\ (target' # 0 => target' \in DOMAIN blocks
                                         /\ EnvMarked[BlockLabel(target')] = target')
  <2>1. CASE target' = 0
    BY <2>1
  <2>2. CASE \E n \in Nat : IsUntraced(n) /\ target' = EnvMarked[n]
    <3>1. PICK n \in Nat : IsUntraced(n) /\ target' = EnvMarked[n]
      BY <2>2
    <3> QED
      BY <1>2, <1>6, <3>1, LabelsOfBlocks
  <2> QED
    BY <2>1, <2>2
<1>10. (target # 0 => target \in DOMAIN blocks /\ env[BlockLabel(target)] = target)'
  <2>1. BlockLabel(target') = BlockLabel(target)'
    BY <1>1 DEF BlockLabel
  <2> QED
    BY <1>1, <1>9, <2>1
<1>11. Scheduling'
  <2>1. target' # 0 => phase' = "schedule"
    BY <1>1
  <2> QED
    BY <1>1, <1>2, <1>4, <1>8, <1>9, <1>10, <2>1 DEF Scheduling
<1> QED
  BY <1>3, <1>5, <1>11 DEF Sched
LEMMA TheBlock ==
  ASSUME Sched, Trace, NEW b, b = blocks[target]
  PROVE  /\ b \in Seq(Statements) /\ Len(b) \in Nat /\ Len(b) >= 2 /\ DOMAIN b = 1 .. Len(b)
         /\ Front(b) \in Seq(Statements) /\ Len(Front(b)) = Len(b) - 1
         /\ DOMAIN Front(b) = 1 .. Len(b) - 1 /\ \A i \in 1 .. Len(b) - 1 : Front(b)[i] = b[i]
         /\ LastStm = b[Len(b)] /\ LastStm \in Statements /\ out \in Seq(Statements)
         /\ \A i \in DOMAIN b : i # Len(b) => b[i].kind \notin {"JUMP", "CJUMP"}
         /\ labels \in Nat /\ target # 0
<1>1. /\ target \in DOMAIN blocks /\ Cutting /\ cur = <<>> /\ stms = <<>> /\ target # 0
      /\ out \in Seq(Statements) /\ labels \in Nat
  BY DEF Sched, Scheduling, Known, Trace, Cutting
<1>2. b \in Seq(Statements) /\ Len(b) \in Nat /\ Len(b) >= 2 /\ DOMAIN b = 1 .. Len(b)
  BY <1>1, LabelsOfBlocks
<1>3. /\ Front(b) \in Seq(Statements) /\ Len(Front(b)) = Len(b) - 1
      /\ DOMAIN Front(b) = 1 .. Len(b) - 1 /\ \A i \in 1 .. Len(b) - 1 : Front(b)[i] = b[i]
  BY <1>2 DEF Front
<1>4. LastStm = b[Len(b)] /\ LastStm \in Statements
  <2>1. LastStm = b[Len(b)]
    BY DEF LastStm, Last
  <2>2. Len(b) \in 1 .. Len(b)
    BY <1>2
  <2> QED
    BY <1>2, <2>1, <2>2
<1>5. \A i \in DOMAIN b : EndsBlock(b[i]) <=> i = Len(b)
  BY <1>1 DEF Cutting, Block
<1> QED
  BY <1>1, <1>2, <1>3, <1>4, <1>5 DEF EndsBlock

LEMMA TraceJumpSched ==
  ASSUME Sched, TraceJump
  PROVE  Sched'
<1>1. PICK b : b = blocks[target]
  OBVIOUS
<1>2. /\ Trace /\ LastStm.kind = "JUMP" /\ IsUntraced(LastStm.label) /\ out' = out \o Front(b)
      /\ target' = EnvMarked[LastStm.label] /\ labels' = labels
  BY <1>1 DEF TraceJump
<1>3. /\ b \in Seq(Statements) /\ Len(b) \in Nat /\ Len(b) >= 2 /\ DOMAIN b = 1 .. Len(b)
      /\ Front(b) \in Seq(Statements) /\ Len(Front(b)) = Len(b) - 1
      /\ DOMAIN Front(b) = 1 .. Len(b) - 1 /\ \A i \in 1 .. Len(b) - 1 : Front(b)[i] = b[i]
      /\ LastStm = b[Len(b)] /\ LastStm \in Statements /\ labels \in Nat
      /\ \A i \in DOMAIN b : i # Len(b) => b[i].kind \notin {"JUMP", "CJUMP"}
  BY <1>1, <1>2, TheBlock
<1>4. \A i \in 1 .. Len(b) - 1 : i \in 1 .. Len(b) /\ i # Len(b)
  <2>1. Len(b) \in Nat
    BY <1>3
  <2> QED
    BY <2>1
<1>5. Copies(Front(b), b, labels')
  <2>1. Front(b) # <<>> /\ Front(b)[1] = b[1]
    BY <1>3
  <2>2. ASSUME NEW i \in DOMAIN b, Counted(b[i]) PROVE i \in DOMAIN Front(b)
    <3>1. i # Len(b)
      BY <1>2, <1>3, <2>2 DEF Counted, IsLabel, HasEffect
    <3> QED
      BY <1>3, <3>1
  <2> QED
    BY <1>3, <1>4, <2>1, <2>2 DEF Copies
<1>6. Shaped(Front(b), target')
  BY <1>3, <1>4 DEF Shaped
<1>7. LastStm.label \in Nat
  BY <1>2, <1>3, Kinds
<1> QED
  BY <1>1, <1>2, <1>5, <1>6, <1>7, TraceSched

LEMMA TraceJumpBackSched ==
  ASSUME Sched, TraceJumpBack
  PROVE  Sched'
<1>1. PICK b : b = blocks[target]
  OBVIOUS
<1>2. /\ Trace /\ LastStm.kind = "JUMP" /\ ~IsUntraced(LastStm.label) /\ out' = out \o b
      /\ target' = 0 /\ labels' = labels
  BY <1>1 DEF TraceJumpBack
<1>3. /\ b \in Seq(Statements) /\ Len(b) \in Nat /\ Len(b) >= 2 /\ DOMAIN b = 1 .. Len(b)
      /\ LastStm = b[Len(b)] /\ labels \in Nat /\ target # 0
      /\ \A i \in DOMAIN b : i # Len(b) => b[i].kind \notin {"JUMP", "CJUMP"}
  BY <1>1, <1>2, TheBlock
<1>4. Copies(b, b, labels')
  BY <1>3 DEF Copies
<1>5. Len(b) \in DOMAIN blocks[target] /\ blocks[target][Len(b)] = LastStm
  BY <1>1, <1>3
<1>6. \/ LastStm.label \in {done, Elsewhere, BlockLabel(target)}
      \/ \E j \in DOMAIN out : out[j] = Label(LastStm.label)
  BY <1>2, <1>3, <1>5, JumpsBack
<1>7. Shaped(b, target')
  BY <1>2, <1>3, <1>6 DEF Shaped
<1> QED
  BY <1>1, <1>2, <1>4, <1>7, TraceSched

LEMMA TraceCjumpFalseSched ==
  ASSUME Sched, TraceCjumpFalse
  PROVE  Sched'
<1>1. PICK b : b = blocks[target]
  OBVIOUS
<1>2. /\ Trace /\ LastStm.kind = "CJUMP" /\ IsUntraced(LastStm.falsee) /\ out' = out \o b
      /\ target' = EnvMarked[LastStm.falsee] /\ labels' = labels
  BY <1>1 DEF TraceCjumpFalse
<1>3. /\ b \in Seq(Statements) /\ Len(b) \in Nat /\ Len(b) >= 2 /\ DOMAIN b = 1 .. Len(b)
      /\ LastStm = b[Len(b)] /\ LastStm \in Statements /\ labels \in Nat /\ target # 0
      /\ \A i \in DOMAIN b : i # Len(b) => b[i].kind \notin {"JUMP", "CJUMP"}
  BY <1>1, <1>2, TheBlock
<1>4. LastStm.falsee \in Nat
  BY <1>2, <1>3, Kinds
<1>5. target' # 0 /\ BlockLabel(target') = LastStm.falsee
  <2>1. /\ EnvMarked[LastStm.falsee] \in DOMAIN blocks
        /\ BlockLabel(EnvMarked[LastStm.falsee]) = LastStm.falsee
    BY <1>2, <1>3, <1>4, EnvAfter
  <2> QED
    BY <1>2, <2>1 DEF IsUntraced
<1>6. Copies(b, b, labels')
  BY <1>3 DEF Copies
<1>7. Shaped(b, target')
  BY <1>2, <1>3, <1>5 DEF Shaped
<1> QED
  BY <1>1, <1>2, <1>4, <1>6, <1>7, TraceSched

(* A conditional jump with other labels is the same statement.             *)
LEMMA Turned ==
  ASSUME NEW s \in Statements, s.kind = "CJUMP", NEW n \in Nat
  PROVE  /\ Swapped(s) \in Statements /\ Swapped(s).kind = "CJUMP"
         /\ Swapped(s).falsee = s.truee /\ s.truee \in Nat /\ s.falsee \in Nat
         /\ \A r : Same(Swapped(s), r) <=> Same(s, r)
         /\ [s EXCEPT !.falsee = n] \in Statements /\ [s EXCEPT !.falsee = n].kind = "CJUMP"
         /\ [s EXCEPT !.falsee = n].falsee = n
         /\ \A r : Same([s EXCEPT !.falsee = n], r) <=> Same(s, r)
<1> DEFINE Jumps == [kind : {"CJUMP"}, id : Ids, truee : Nat, falsee : Nat, negated : BOOLEAN]
<1>1. s \in Jumps
  BY Kinds
<1>2. PICK i \in Ids, t \in Nat, f \in Nat, g \in BOOLEAN :
        s = [kind |-> "CJUMP", id |-> i, truee |-> t, falsee |-> f, negated |-> g]
  BY <1>1
<1>3. PICK h \in BOOLEAN :
        Swapped(s) = [kind |-> "CJUMP", id |-> i, truee |-> f, falsee |-> t, negated |-> h]
  <2> DEFINE v == [s EXCEPT !.truee = s.falsee]
             w == [v EXCEPT !.falsee = s.truee]
  <2>1. Swapped(s) = [w EXCEPT !.negated = ~s.negated]
    BY DEF Swapped
  <2>2. v = [kind |-> "CJUMP", id |-> i, truee |-> f, falsee |-> f, negated |-> g]
    BY <1>2
  <2> HIDE DEF v
  <2>3. w = [kind |-> "CJUMP", id |-> i, truee |-> f, falsee |-> t, negated |-> g]
    BY <1>2, <2>2
  <2> HIDE DEF w
  <2>4. PICK r \in BOOLEAN : r = ~s.negated
    <3>1. ~s.negated = TRUE \/ ~s.negated = FALSE
      OBVIOUS
    <3> QED
      BY <3>1
  <2>5. Swapped(s) = [w EXCEPT !.negated = r]
    BY <2>1, <2>4
  <2>6. [w EXCEPT !.negated = r]
          = [kind |-> "CJUMP", id |-> i, truee |-> f, falsee |-> t, negated |-> r]
    BY <2>3
  <2> QED
    BY <2>5, <2>6
<1>4. [s EXCEPT !.falsee = n]
        = [kind |-> "CJUMP", id |-> i, truee |-> t, falsee |-> n, negated |-> g]
  BY <1>2
<1>5. \A u, v \in Nat, b \in BOOLEAN :
        [kind |-> "CJUMP", id |-> i, truee |-> u, falsee |-> v, negated |-> b] \in Jumps
  OBVIOUS
<1>6. Jumps \subseteq Statements
  BY DEF Statements
<1> HIDE DEF Jumps
<1>7. Swapped(s) \in Statements /\ [s EXCEPT !.falsee = n] \in Statements
  BY <1>3, <1>4, <1>5, <1>6
<1>8. /\ s.kind = "CJUMP" /\ s.id = i /\ s.truee = t /\ s.falsee = f
      /\ Swapped(s).kind = "CJUMP" /\ Swapped(s).id = i /\ Swapped(s).falsee = t
      /\ [s EXCEPT !.falsee = n].kind = "CJUMP" /\ [s EXCEPT !.falsee = n].id = i
      /\ [s EXCEPT !.falsee = n].falsee = n
  BY <1>2, <1>3, <1>4
<1> QED
  BY <1>7, <1>8 DEF Same, IsLabel, HasEffect
LEMMA TraceCjumpTrueSched ==
  ASSUME Sched, TraceCjumpTrue
  PROVE  Sched'
<1>1. PICK b, f, e, x : /\ b = blocks[target] /\ f = Front(b) /\ e = Swapped(LastStm)
                        /\ x = Append(f, e)
  OBVIOUS
<1>2. /\ Trace /\ LastStm.kind = "CJUMP" /\ IsUntraced(LastStm.truee)
      /\ out' = Append(out \o f, e) /\ target' = EnvMarked[LastStm.truee] /\ labels' = labels
  BY <1>1 DEF TraceCjumpTrue
<1>3. /\ b \in Seq(Statements) /\ Len(b) \in Nat /\ Len(b) >= 2 /\ DOMAIN b = 1 .. Len(b)
      /\ f \in Seq(Statements) /\ Len(f) = Len(b) - 1
      /\ DOMAIN f = 1 .. Len(b) - 1 /\ \A i \in 1 .. Len(b) - 1 : f[i] = b[i]
      /\ LastStm = b[Len(b)] /\ LastStm \in Statements /\ labels \in Nat /\ target # 0
      /\ \A i \in DOMAIN b : i # Len(b) => b[i].kind \notin {"JUMP", "CJUMP"}
      /\ out \in Seq(Statements)
  BY <1>1, <1>2, TheBlock
<1>4. /\ e \in Statements /\ e.kind = "CJUMP" /\ e.falsee = LastStm.truee
      /\ LastStm.truee \in Nat /\ \A r : Same(e, r) <=> Same(LastStm, r)
  <2>1. 0 \in Nat
    OBVIOUS
  <2> QED
    BY <1>1, <1>2, <1>3, <2>1, Turned
<1>5. out' = out \o x
  <2>1. <<e>> \in Seq(Statements) /\ out \o f \in Seq(Statements)
    BY <1>3, <1>4
  <2>2. out' = (out \o f) \o <<e>> /\ x = f \o <<e>>
    BY <1>1, <1>2, <1>3, <1>4, <2>1, AppendIsConcat, SMTT(30)
  <2>3. (out \o f) \o <<e>> = out \o (f \o <<e>>)
    <3>1. out \in Seq(Statements) /\ f \in Seq(Statements)
      BY <1>3
    <3> QED
      BY <2>1, <3>1, ConcatAssociative
  <2> QED
    BY <2>2, <2>3, Zenon
<1>6. /\ x \in Seq(Statements) /\ Len(x) = Len(b) /\ DOMAIN x = 1 .. Len(b)
      /\ x[Len(b)] = e /\ \A i \in 1 .. Len(b) - 1 : x[i] = b[i]
  BY <1>1, <1>3, <1>4
<1>7. \A i \in 1 .. Len(b) : i = Len(b) \/ i \in 1 .. Len(b) - 1
  <2>1. Len(b) \in Nat
    BY <1>3
  <2> QED
    BY <2>1
<1>8. target' # 0 /\ BlockLabel(target') = LastStm.truee
  <2>1. /\ EnvMarked[LastStm.truee] \in DOMAIN blocks
        /\ BlockLabel(EnvMarked[LastStm.truee]) = LastStm.truee
    BY <1>2, <1>3, <1>4, EnvAfter
  <2> QED
    BY <1>2, <2>1 DEF IsUntraced
<1>9. Copies(x, b, labels')
  <2>1. x # <<>> /\ x[1] = b[1]
    BY <1>3, <1>6
  <2>2. ASSUME NEW i \in DOMAIN x PROVE i \in DOMAIN b /\ \A s : Same(x[i], s) <=> Same(b[i], s)
    BY <1>3, <1>4, <1>6, <1>7
  <2> QED
    BY <1>3, <1>6, <2>1, <2>2 DEF Copies
<1>10. Shaped(x, target')
  <2>1. ASSUME NEW i \in DOMAIN x, i # Len(b) PROVE x[i].kind \notin {"JUMP", "CJUMP"}
    BY <1>3, <1>6, <1>7, <2>1
  <2>2. ~(Len(b) < Len(b))
    BY <1>3
  <2> QED
    BY <1>4, <1>6, <1>8, <2>1, <2>2 DEF Shaped
<1> QED
  BY <1>1, <1>2, <1>4, <1>5, <1>9, <1>10, TraceSched

LEMMA TraceCjumpNeitherSched ==
  ASSUME Sched, TraceCjumpNeither
  PROVE  Sched'
<1>1. PICK b, f, e, g : /\ b = blocks[target] /\ f = Front(b) /\ g = Label(labels + 1)
                        /\ e = [LastStm EXCEPT !.falsee = labels + 1]
  OBVIOUS
<1>2. /\ Trace /\ LastStm.kind = "CJUMP" /\ out' = (out \o f) \o <<e, g>>
      /\ target' = 0 /\ labels' = labels + 1
  BY <1>1 DEF TraceCjumpNeither
<1>3. /\ b \in Seq(Statements) /\ Len(b) \in Nat /\ Len(b) >= 2 /\ DOMAIN b = 1 .. Len(b)
      /\ f \in Seq(Statements) /\ Len(f) = Len(b) - 1
      /\ DOMAIN f = 1 .. Len(b) - 1 /\ \A i \in 1 .. Len(b) - 1 : f[i] = b[i]
      /\ LastStm = b[Len(b)] /\ LastStm \in Statements /\ labels \in Nat /\ target # 0
      /\ \A i \in DOMAIN b : i # Len(b) => b[i].kind \notin {"JUMP", "CJUMP"}
      /\ out \in Seq(Statements)
  BY <1>1, <1>2, TheBlock
<1>4. /\ e \in Statements /\ e.kind = "CJUMP" /\ e.falsee = labels + 1
      /\ \A r : Same(e, r) <=> Same(LastStm, r)
  <2>1. PICK m \in Nat : m = labels + 1
    BY <1>3
  <2>2. /\ [LastStm EXCEPT !.falsee = m] \in Statements
        /\ [LastStm EXCEPT !.falsee = m].kind = "CJUMP"
        /\ [LastStm EXCEPT !.falsee = m].falsee = m
        /\ \A r : Same([LastStm EXCEPT !.falsee = m], r) <=> Same(LastStm, r)
    BY <1>2, <1>3, Turned
  <2> QED
    BY <1>1, <2>1, <2>2
<1>5. g \in Statements /\ g.kind = "LABEL"
  <2>1. labels + 1 \in Nat
    BY <1>3
  <2> QED
    BY <1>1, <2>1, Made
<1>6. PICK y, x : y = <<e, g>> /\ x = f \o y
  OBVIOUS
<1>7. y \in Seq(Statements) /\ Len(y) = 2 /\ y[1] = e /\ y[2] = g /\ DOMAIN y = 1 .. 2
  BY <1>4, <1>5, <1>6
<1>8. out' = out \o x
  <2>1. out \in Seq(Statements) /\ f \in Seq(Statements) /\ y \in Seq(Statements)
    BY <1>3, <1>7
  <2>2. (out \o f) \o y = out \o (f \o y)
    BY <2>1, ConcatAssociative
  <2> QED
    BY <1>2, <1>6, <2>2, Zenon
<1>9. /\ x \in Seq(Statements) /\ Len(x) = Len(b) + 1 /\ DOMAIN x = 1 .. Len(b) + 1
      /\ x[Len(b)] = e /\ x[Len(b) + 1] = g /\ \A i \in 1 .. Len(b) - 1 : x[i] = b[i]
  <2>1. /\ x \in Seq(Statements) /\ Len(x) = Len(f) + Len(y)
        /\ DOMAIN x = 1 .. Len(f) + Len(y)
        /\ \A i \in DOMAIN f : x[i] = f[i]
        /\ \A i \in DOMAIN y : x[Len(f) + i] = y[i]
    BY <1>3, <1>6, <1>7, Sequel
  <2>2. /\ Len(f) + Len(y) = Len(b) + 1 /\ Len(f) + 1 = Len(b) /\ Len(f) + 2 = Len(b) + 1
        /\ 1 \in DOMAIN y /\ 2 \in DOMAIN y
    BY <1>3, <1>7
  <2>3. x[Len(b)] = e /\ x[Len(b) + 1] = g
    BY <1>7, <2>1, <2>2
  <2>4. \A i \in 1 .. Len(b) - 1 : x[i] = b[i]
    BY <1>3, <2>1
  <2> QED
    BY <2>1, <2>2, <2>3, <2>4
<1>10. \A i \in 1 .. Len(b) + 1 : i = Len(b) \/ i = Len(b) + 1 \/ i \in 1 .. Len(b) - 1
  <2>1. Len(b) \in Nat
    BY <1>3
  <2> QED
    BY <2>1
<1>11. /\ Len(b) \in 1 .. Len(b) /\ \A i \in 1 .. Len(b) - 1 : i \in 1 .. Len(b)
       /\ \A i \in 1 .. Len(b) : i \in 1 .. Len(b) + 1
  <2>1. Len(b) \in Nat /\ Len(b) >= 2
    BY <1>3
  <2> QED
    BY <2>1
<1>12. Copies(x, b, labels')
  <2>1. x # <<>> /\ x[1] = b[1]
    BY <1>3, <1>9
  <2>2. ASSUME NEW i \in DOMAIN x
        PROVE  \/ i \in DOMAIN b /\ \A s : Same(x[i], s) <=> Same(b[i], s)
               \/ i = Len(b) + 1 /\ x[i] = Label(labels + 1)
    <3>1. CASE i = Len(b)
      BY <1>3, <1>4, <1>9, <1>11, <3>1
    <3>2. CASE i = Len(b) + 1
      BY <1>1, <1>9, <3>2
    <3>3. CASE i \in 1 .. Len(b) - 1
      BY <1>3, <1>9, <1>11, <3>3
    <3> QED
      BY <1>9, <1>10, <3>1, <3>2, <3>3
  <2> QED
    BY <1>2, <1>3, <1>9, <1>11, <2>1, <2>2 DEF Copies
<1>13. Shaped(x, target')
  <2>1. ASSUME NEW i \in DOMAIN x, x[i].kind \in {"JUMP", "CJUMP"}
        PROVE  i = Len(b)
    <3>1. i # Len(b) + 1
      BY <1>5, <1>9, <2>1
    <3>2. i \notin 1 .. Len(b) - 1
      <4>1. \A j \in 1 .. Len(b) - 1 : j \in DOMAIN b /\ j # Len(b) /\ x[j] = b[j]
        <5> TAKE j \in 1 .. Len(b) - 1
        <5>1. Len(b) \in Nat
          BY <1>3
        <5>2. j # Len(b)
          BY <5>1
        <5> QED
          BY <1>3, <1>9, <1>11, <5>2
      <4> QED
        BY <1>3, <2>1, <4>1
    <3> QED
      BY <1>9, <1>10, <3>1, <3>2
  <2>2. Len(b) < Len(x)
    BY <1>3, <1>9
  <2> QED
    BY <1>1, <1>4, <1>9, <2>1, <2>2 DEF Shaped
<1>14. labels' \in {labels, labels + 1}
  BY <1>2
<1> QED
  BY <1>1, <1>2, <1>8, <1>12, <1>13, <1>14, TraceSched

-------------------------------------------------------------------------------
(* The steps that trace no block.                                          *)
LEMMA CuttingSched ==
  ASSUME Sched, MkBlocks \/ NextStm \/ EndBlock
  PROVE  Sched'
<1>1. /\ phase = "blocks" /\ phase' = phase /\ out' = out /\ target' = target /\ sList' = sList
      /\ done' = done
  BY DEF MkBlocks, NextStm, EndBlock, scheduling
<1>2. Cutting'
  BY MkBlocksCutting, NextStmCutting, EndBlockCutting DEF Sched
<1>3. out = <<>> /\ target = 0 /\ sList = 1
  BY <1>1 DEF Sched, Scheduling
<1>4. Scheduling'
  BY <1>1, <1>3 DEF Scheduling
<1>5. FalseLabelFollows' /\ JumpsLeftGoBack'
  BY <1>1, <1>3 DEF FalseLabelFollows, JumpsLeftGoBack
<1> QED
  BY <1>2, <1>4, <1>5 DEF Sched

LEMMA ScheduleSched ==
  ASSUME Sched, Schedule
  PROVE  Sched'
<1>1. /\ phase = "blocks" /\ cur = <<>> /\ stms = <<>> /\ phase' = "schedule"
      /\ env' = [n \in {BlockLabel(b) : b \in DOMAIN blocks} |->
                   CHOOSE b \in DOMAIN blocks : BlockLabel(b) = n]
      /\ program' = program /\ labels' = labels /\ done' = done /\ stms' = stms /\ cur' = cur
      /\ blocks' = blocks /\ sList' = sList /\ target' = target /\ out' = out
  BY DEF Schedule, cutting
<1>2. out = <<>> /\ target = 0 /\ sList = 1 /\ Cutting
  BY <1>1 DEF Sched, Scheduling
<1>3. DOMAIN blocks = 1 .. Len(blocks)
      /\ \A b, c \in DOMAIN blocks : BlockLabel(b) = BlockLabel(c) => b = c
  BY <1>1, <1>2, LabelsOfBlocks
<1>4. \A b \in DOMAIN blocks : env'[BlockLabel(b)] = b
  <2> TAKE b \in DOMAIN blocks
  <2>1. env'[BlockLabel(b)] = CHOOSE c \in DOMAIN blocks : BlockLabel(c) = BlockLabel(b)
    BY <1>1
  <2>2. \A c \in DOMAIN blocks : BlockLabel(c) = BlockLabel(b) <=> c = b
    BY <1>3
  <2> QED
    BY <2>1, <2>2
<1>5. DOMAIN env' = {BlockLabel(b) : b \in DOMAIN blocks}
  BY <1>1
<1>6. \A b : BlockLabel(b)' = BlockLabel(b)
  BY <1>1 DEF BlockLabel
<1>7. \A b \in DOMAIN blocks : b # 0 /\ ~(b < 1)
  BY <1>3
<1>8. Known'
  <2>1. {BlockLabel(b) : b \in DOMAIN blocks}' = {BlockLabel(b) : b \in DOMAIN blocks}
    BY <1>1, <1>6
  <2> QED
    BY <1>1, <1>2, <1>4, <1>5, <1>6, <1>7, <2>1 DEF Known
<1>9. Placed(out)'
  <2>1. \A i : i \notin DOMAIN out'
    BY <1>1, <1>2
  <2> QED
    BY <1>1, <1>4, <1>6, <1>7, <2>1 DEF Placed, Has
<1>10. Scheduling'
  BY <1>1, <1>2, <1>8, <1>9 DEF Sched, Scheduling
<1>11. Cutting'
  BY <1>1, <1>2 DEF Cutting
<1>12. FalseLabelFollows' /\ JumpsLeftGoBack'
  BY <1>1, <1>2 DEF FalseLabelFollows, JumpsLeftGoBack
<1> QED
  BY <1>10, <1>11, <1>12 DEF Sched
(* A step that leaves the blocks and what is known of them alone.          *)
LEMMA Unmoved ==
  ASSUME Sched, program' = program, done' = done, labels' = labels, stms' = stms, cur' = cur,
         blocks' = blocks, env' = env
  PROVE  /\ Cutting' /\ \A b : BlockLabel(b)' = BlockLabel(b)
         /\ \A o : Placed(o) => Placed(o)'
         /\ {BlockLabel(b) : b \in DOMAIN blocks}' = {BlockLabel(b) : b \in DOMAIN blocks}
<1>1. \A b : BlockLabel(b)' = BlockLabel(b)
  BY DEF BlockLabel
<1>2. Cutting'
  BY DEF Sched, Cutting
<1>3. \A o : Placed(o) => Placed(o)'
  BY <1>1 DEF Placed
<1> QED
  BY <1>1, <1>2, <1>3

LEMMA GetNextExitSched ==
  ASSUME Sched, GetNextExit
  PROVE  Sched'
<1>1. /\ phase = "schedule" /\ target = 0 /\ sList > Len(blocks) /\ phase' = "done"
      /\ program' = program /\ labels' = labels /\ done' = done /\ stms' = stms /\ cur' = cur
      /\ blocks' = blocks /\ sList' = sList /\ target' = target /\ env' = env
      /\ out' = Append(out, Label(done))
  BY DEF GetNextExit, GetNext, cutting
<1>2. /\ Cutting /\ Known /\ cur = <<>> /\ stms = <<>> /\ Placed(out) /\ out \in Seq(Statements)
      /\ sList \in Nat \ {0} /\ done \in Nat
  BY <1>1, NLabelsAssumption DEF Sched, Scheduling, Known, Cutting
<1>3. /\ Cutting' /\ \A b : BlockLabel(b)' = BlockLabel(b)
      /\ \A o : Placed(o) => Placed(o)'
      /\ {BlockLabel(b) : b \in DOMAIN blocks}' = {BlockLabel(b) : b \in DOMAIN blocks}
  BY <1>1, Unmoved
<1>4. Label(done) \in Statements
  BY <1>2, Made
<1>5. /\ out' \in Seq(Statements) /\ Len(out') = Len(out) + 1 /\ Len(out) \in Nat
      /\ DOMAIN out = 1 .. Len(out) /\ DOMAIN out' = 1 .. Len(out) + 1
      /\ out'[Len(out) + 1] = Label(done) /\ \A i \in 1 .. Len(out) : out'[i] = out[i]
  BY <1>1, <1>2, <1>4
<1>6. \A b \in DOMAIN blocks : env[BlockLabel(b)] = 0
  <2>1. DOMAIN blocks = 1 .. Len(blocks) /\ Len(blocks) \in Nat
    BY <1>2, LabelsOfBlocks
  <2>2. \A b \in DOMAIN blocks : b < sList
    BY <1>1, <1>2, <2>1
  <2> QED
    BY <1>2, <2>2 DEF Known
<1>7. Known'
  BY <1>1, <1>2, <1>3 DEF Known
<1>8. (\E o \in Seq(Statements) : out = Append(o, Label(done)) /\ Placed(o))'
  BY <1>1, <1>2, <1>3
<1>9. Scheduling'
  BY <1>1, <1>2, <1>3, <1>5, <1>6, <1>7, <1>8 DEF Scheduling
<1>10. \A i \in 1 .. Len(out) + 1 : i = Len(out) + 1 \/ i \in 1 .. Len(out)
  BY <1>5
<1>11. FalseLabelFollows'
  <2>1. ASSUME NEW i \in DOMAIN out', out'[i].kind = "CJUMP"
        PROVE  i < Len(out') /\ out'[i + 1] = Label(out'[i].falsee)
    <3>1. i # Len(out) + 1
      BY <1>5, <2>1, Made
    <3>2. i \in 1 .. Len(out) /\ out'[i] = out[i]
      BY <1>5, <1>10, <3>1
    <3>3. i < Len(out) /\ out[i + 1] = Label(out[i].falsee)
      BY <1>1, <1>5, <2>1, <3>2 DEF Sched, FalseLabelFollows
    <3>4. i + 1 \in 1 .. Len(out) /\ i < Len(out')
      BY <1>5, <3>2, <3>3
    <3> QED
      BY <1>5, <3>2, <3>3, <3>4
  <2> QED
    BY <2>1 DEF FalseLabelFollows
<1>12. JumpsLeftGoBack'
  <2>1. ASSUME NEW i \in DOMAIN out', out'[i].kind = "JUMP"
        PROVE  out'[i].label \in {done, Elsewhere} \/ \E j \in 1 .. i : out'[j] = Label(out'[i].label)
    <3>1. i # Len(out) + 1
      BY <1>5, <2>1, Made
    <3>2. i \in 1 .. Len(out) /\ out'[i] = out[i] /\ \A j \in 1 .. i : j \in 1 .. Len(out)
      BY <1>5, <1>10, <3>1
    <3>3. out[i].label \in {done, Elsewhere} \/ \E j \in 1 .. i : out[j] = Label(out[i].label)
      BY <1>5, <2>1, <3>2 DEF Sched, JumpsLeftGoBack
    <3> QED
      BY <1>5, <3>2, <3>3
  <2> QED
    BY <1>1, <2>1 DEF JumpsLeftGoBack
<1> QED
  BY <1>3, <1>9, <1>11, <1>12 DEF Sched

LEMMA GetNextSched ==
  ASSUME Sched, GetNextBlock \/ GetNextSkip
  PROVE  Sched'
<1>1. /\ phase = "schedule" /\ target = 0 /\ sList <= Len(blocks) /\ phase' = phase
      /\ program' = program /\ labels' = labels /\ done' = done /\ stms' = stms /\ cur' = cur
      /\ blocks' = blocks /\ env' = env /\ out' = out
      /\ \/ Look(BlockLabel(sList)) # 0 /\ target' = sList /\ sList' = sList
         \/ Look(BlockLabel(sList)) = 0 /\ target' = target /\ sList' = sList + 1
  BY DEF GetNextBlock, GetNextSkip, GetNext, cutting, Rest
<1>2. /\ Cutting /\ Known /\ cur = <<>> /\ stms = <<>> /\ Placed(out) /\ out \in Seq(Statements)
      /\ sList \in Nat \ {0}
  BY <1>1 DEF Sched, Scheduling, Known
<1>3. /\ Cutting' /\ \A b : BlockLabel(b)' = BlockLabel(b)
      /\ \A o : Placed(o) => Placed(o)'
      /\ {BlockLabel(b) : b \in DOMAIN blocks}' = {BlockLabel(b) : b \in DOMAIN blocks}
  BY <1>1, Unmoved
<1>4. sList \in DOMAIN blocks /\ DOMAIN blocks = 1 .. Len(blocks)
  BY <1>1, <1>2, LabelsOfBlocks
<1>5. Look(BlockLabel(sList)) = env[BlockLabel(sList)]
  BY <1>2, <1>4 DEF Known, Look
<1>6. \A b \in DOMAIN blocks : b < sList' => env[BlockLabel(b)] = 0
  <2>1. \A b \in DOMAIN blocks : b < sList + 1 => b < sList \/ b = sList
    BY <1>2, <1>4
  <2> QED
    BY <1>1, <1>2, <1>5, <2>1 DEF Known
<1>7. Known'
  BY <1>1, <1>2, <1>3, <1>6 DEF Known
<1>8. (target # 0 => target \in DOMAIN blocks /\ env[BlockLabel(target)] = target)'
  <2>1. CASE target' = sList
    <3>1. BlockLabel(target)' = BlockLabel(sList)
      BY <1>1, <2>1 DEF BlockLabel
    <3>2. Look(BlockLabel(sList)) # 0
      BY <1>1, <1>2, <2>1
    <3>3. env[BlockLabel(sList)] = sList
      BY <1>2, <1>4, <1>5, <3>2 DEF Known
    <3> QED
      BY <1>1, <1>4, <2>1, <3>1, <3>3
  <2>2. CASE target' = target
    BY <1>1, <2>2
  <2> QED
    BY <1>1, <2>1, <2>2
<1>9. Scheduling'
  <2>1. (target \in Nat /\ sList \in Nat \ {0})'
    BY <1>1, <1>2
  <2> QED
    BY <1>1, <1>2, <1>3, <1>7, <1>8, <2>1 DEF Scheduling
<1>10. FalseLabelFollows' /\ JumpsLeftGoBack'
  <2>1. \A i \in DOMAIN out : out[i].kind = "CJUMP" =>
           i < Len(out) /\ out[i + 1] = Label(out[i].falsee)
    BY <1>1 DEF Sched, FalseLabelFollows
  <2> QED
    BY <1>1, <2>1 DEF Sched, FalseLabelFollows, JumpsLeftGoBack
<1> QED
  BY <1>3, <1>9, <1>10 DEF Sched

-------------------------------------------------------------------------------
(* Sched is inductive.                                                     *)
LEMMA InitSched ==
  ASSUME Init
  PROVE  Sched
<1>1. Cutting
  BY InitCutting
<1>2. out = <<>> /\ phase = "blocks" /\ target = 0 /\ sList = 1
  BY DEF Init
<1>3. out \in Seq(Statements) /\ \A i : i \notin DOMAIN out
  BY <1>2
<1> QED
  BY <1>1, <1>2, <1>3 DEF Sched, Scheduling, FalseLabelFollows, JumpsLeftGoBack

LEMMA StepSched ==
  ASSUME Sched, [Next]_vars
  PROVE  Sched'
<1>1. CASE UNCHANGED vars
  <2>1. /\ program' = program /\ labels' = labels /\ done' = done /\ stms' = stms /\ cur' = cur
        /\ blocks' = blocks /\ env' = env /\ out' = out /\ phase' = phase /\ target' = target
        /\ sList' = sList
    BY <1>1 DEF vars, cutting, scheduling
  <2>2. /\ Cutting' /\ \A b : BlockLabel(b)' = BlockLabel(b)
        /\ \A o : Placed(o) => Placed(o)'
    BY <2>1, Unmoved
  <2>3. Known => Known'
    BY <2>1, <2>2 DEF Known
  <2>4. BlockLabel(target)' = BlockLabel(target)
    BY <2>1 DEF BlockLabel
  <2>5. Scheduling'
    BY <2>1, <2>2, <2>3, <2>4 DEF Sched, Scheduling
  <2>6. FalseLabelFollows' /\ JumpsLeftGoBack'
    BY <2>1, <2>4 DEF Sched, FalseLabelFollows, JumpsLeftGoBack
  <2> QED
    BY <2>2, <2>5, <2>6 DEF Sched
<1>2. CASE MkBlocks \/ NextStm \/ EndBlock
  BY <1>2, CuttingSched
<1>3. CASE Schedule
  BY <1>3, ScheduleSched
<1>4. CASE GetNextExit
  BY <1>4, GetNextExitSched
<1>5. CASE GetNextBlock \/ GetNextSkip
  BY <1>5, GetNextSched
<1>6. CASE TraceJump
  BY <1>6, TraceJumpSched
<1>7. CASE TraceJumpBack
  BY <1>7, TraceJumpBackSched
<1>8. CASE TraceCjumpFalse
  BY <1>8, TraceCjumpFalseSched
<1>9. CASE TraceCjumpTrue
  BY <1>9, TraceCjumpTrueSched
<1>10. CASE TraceCjumpNeither
  BY <1>10, TraceCjumpNeitherSched
<1> QED
  BY <1>1, <1>2, <1>3, <1>4, <1>5, <1>6, <1>7, <1>8, <1>9, <1>10 DEF Next, Terminating

LEMMA SchedAlways == Spec => []Sched
<1>1. Init => Sched
  BY InitSched
<1>2. Sched /\ [Next]_vars => Sched'
  BY StepSched
<1> QED
  BY <1>1, <1>2, PTL DEF Spec
-------------------------------------------------------------------------------
(* The schedule when it is finished: what the program counts, and the exit *)
(* label behind it.                                                        *)
LEMMA Finished ==
  ASSUME Sched, phase = "done"
  PROVE  /\ out \in Seq(Statements) /\ out # <<>> /\ out[Len(out)] = Label(NLabels + 1)
         /\ \A i, j \in DOMAIN out : Same(out[i], out[j]) => i = j
         /\ \A i \in DOMAIN program : Counted(program[i]) => Has(out, program[i])
         /\ \A i \in DOMAIN out : HasEffect(out[i]) => Has(program, out[i])
         /\ \A i \in DOMAIN out : IsLabel(out[i]) => out[i].label # Elsewhere
<1>1. /\ Cutting /\ Known /\ cur = <<>> /\ stms = <<>> /\ done = NLabels + 1
      /\ \A b \in DOMAIN blocks : env[BlockLabel(b)] = 0
  BY DEF Sched, Scheduling, Known, Cutting
<1>2. PICK o \in Seq(Statements) : out = Append(o, Label(NLabels + 1)) /\ Placed(o)
  BY <1>1 DEF Sched, Scheduling
<1> DEFINE e == Label(NLabels + 1)
<1>3. e \in Statements /\ IsLabel(e) /\ e.label = NLabels + 1 /\ ~HasEffect(e)
  <2>1. NLabels + 1 \in Nat
    BY NLabelsAssumption
  <2> QED
    BY <2>1, Made
<1> HIDE DEF e
<1>4. /\ out \in Seq(Statements) /\ out # <<>> /\ Len(out) = Len(o) + 1 /\ out[Len(out)] = e
      /\ Len(o) \in Nat /\ DOMAIN o = 1 .. Len(o) /\ DOMAIN out = 1 .. Len(o) + 1
      /\ \A i \in 1 .. Len(o) : out[i] = o[i]
  BY <1>2, <1>3 DEF e
<1>5. /\ \A i \in 1 .. Len(o) + 1 : i = Len(o) + 1 \/ i \in 1 .. Len(o)
      /\ \A i \in 1 .. Len(o) : i \in 1 .. Len(o) + 1
  <2>1. Len(o) \in Nat
    BY <1>4
  <2> QED
    BY <2>1
<1>6. ASSUME NEW i \in DOMAIN o PROVE ~Same(o[i], e) /\ ~Same(e, o[i])
  <2>1. IsLabel(o[i]) => o[i].label # NLabels + 1
    BY <1>2 DEF Placed
  <2> QED
    BY <1>3, <2>1, Sameness
<1>7. ASSUME NEW i \in DOMAIN out, NEW j \in DOMAIN out, Same(out[i], out[j])
      PROVE  i = j
  <2>1. CASE i \in DOMAIN o /\ j \in DOMAIN o
    BY <1>2, <1>4, <1>7, <2>1 DEF Placed
  <2>2. CASE i \in DOMAIN o /\ j = Len(o) + 1
    BY <1>4, <1>6, <1>7, <2>2
  <2>3. CASE i = Len(o) + 1 /\ j \in DOMAIN o
    BY <1>4, <1>6, <1>7, <2>3
  <2>4. CASE i = Len(o) + 1 /\ j = Len(o) + 1
    BY <2>4
  <2> QED
    BY <1>4, <1>5, <2>1, <2>2, <2>3, <2>4
<1>8. ASSUME NEW i \in DOMAIN program, Counted(program[i])
      PROVE  Has(out, program[i])
  <2>1. PICK b \in DOMAIN blocks : Has(blocks[b], program[i])
    BY <1>1, <1>8, BlocksHold
  <2>2. PICK k \in DOMAIN blocks[b] : Same(blocks[b][k], program[i])
    BY <2>1 DEF Has
  <2>3. Has(o, blocks[b][k])
    BY <1>1, <1>2, <2>2, Sameness DEF Placed
  <2>4. PICK j \in DOMAIN o : Same(o[j], blocks[b][k])
    BY <2>3 DEF Has
  <2>5. Same(o[j], program[i])
    BY <2>2, <2>4, Sameness
  <2> QED
    BY <1>4, <1>5, <2>5 DEF Has
<1>9. ASSUME NEW i \in DOMAIN out, HasEffect(out[i])
      PROVE  Has(program, out[i])
  <2>1. i # Len(o) + 1
    BY <1>3, <1>4, <1>9
  <2>2. i \in DOMAIN o /\ out[i] = o[i]
    BY <1>4, <1>5, <2>1
  <2> QED
    BY <1>2, <1>9, <2>2 DEF Placed
<1>10. ASSUME NEW i \in DOMAIN out, IsLabel(out[i])
       PROVE  out[i].label # Elsewhere
  <2>1. CASE i = Len(o) + 1
    BY <1>3, <1>4, <2>1, NLabelsAssumption DEF Elsewhere
  <2>2. CASE i # Len(o) + 1
    <3>1. i \in DOMAIN o /\ out[i] = o[i]
      BY <1>4, <1>5, <2>2
    <3>2. o[i].label \in 1 .. labels
      BY <1>2, <1>10, <3>1 DEF Placed
    <3> QED
      BY <3>1, <3>2 DEF Elsewhere
  <2> QED
    BY <2>1, <2>2
<1> QED
  BY <1>4, <1>7, <1>8, <1>9, <1>10 DEF e

LEMMA FinishedOnce ==
  ASSUME Sched
  PROVE  EverythingOnce
<1> SUFFICES ASSUME phase = "done"
             PROVE  /\ \A n \in 1 .. NLabels + 1 :
                         Cardinality({i \in DOMAIN out : out[i] = Label(n)}) = 1
                    /\ EffectIds(out) = EffectIds(program)
                    /\ \A i, j \in DOMAIN out :
                         HasEffect(out[i]) /\ HasEffect(out[j]) /\ out[i].id = out[j].id
                         => i = j
                    /\ out[Len(out)] = Label(done)
  BY DEF EverythingOnce
<1>1. program \in Programs /\ done = NLabels + 1 /\ NLabels \in Nat
  BY NLabelsAssumption DEF Sched, Cutting
<1>2. /\ out \in Seq(Statements) /\ out # <<>> /\ out[Len(out)] = Label(NLabels + 1)
      /\ \A i, j \in DOMAIN out : Same(out[i], out[j]) => i = j
      /\ \A i \in DOMAIN program : Counted(program[i]) => Has(out, program[i])
      /\ \A i \in DOMAIN out : HasEffect(out[i]) => Has(program, out[i])
  BY Finished
<1>3. ASSUME NEW n \in 1 .. NLabels + 1
      PROVE  Cardinality({i \in DOMAIN out : out[i] = Label(n)}) = 1
  <2>1. \E i \in DOMAIN out : out[i] = Label(n)
    <3>1. CASE n = NLabels + 1
      <4>1. Len(out) \in DOMAIN out
        BY <1>2
      <4> QED
        BY <1>2, <3>1, <4>1
    <3>2. CASE n # NLabels + 1
      <4>1. n \in 1 .. NLabels
        BY <1>1, <3>2
      <4>2. PICK k \in DOMAIN program : program[k] = Label(n)
        BY <1>1, <4>1, Given
      <4>3. Has(out, Label(n))
        <5>1. Counted(program[k])
          BY <4>2, Made DEF Counted
        <5> QED
          BY <1>2, <4>2, <5>1
      <4>4. PICK i \in DOMAIN out : Same(out[i], Label(n))
        BY <4>3 DEF Has
      <4>5. IsLabel(out[i]) /\ out[i].label = n
        BY <4>4, Made, Sameness
      <4>6. out[i] \in Statements
        BY <1>2
      <4> QED
        BY <4>5, <4>6, Kinds DEF IsLabel
    <3> QED
      BY <3>1, <3>2
  <2>2. PICK i \in DOMAIN out : out[i] = Label(n)
    BY <2>1
  <2>3. \A j \in DOMAIN out : out[j] = Label(n) => Same(out[j], out[i])
    BY <2>2, Made, Sameness DEF Counted
  <2>4. {j \in DOMAIN out : out[j] = Label(n)} = {i}
    BY <1>2, <2>2, <2>3
  <2> QED
    BY <2>4, FS_Singleton
<1>4. EffectIds(out) = EffectIds(program)
  <2>1. ASSUME NEW p, NEW q, \A i \in DOMAIN p : HasEffect(p[i]) => Has(q, p[i]),
               NEW x \in EffectIds(p)
        PROVE  x \in EffectIds(q)
    <3> PICK i \in DOMAIN p : HasEffect(p[i]) /\ x = p[i].id
      BY DEF EffectIds
    <3>1. PICK j \in DOMAIN q : Same(q[j], p[i])
      BY <2>1 DEF Has
    <3>2. HasEffect(q[j]) /\ q[j].id = p[i].id
      BY <2>1, <3>1 DEF Same, IsLabel, HasEffect
    <3> QED
      BY <3>2 DEF EffectIds
  <2>2. EffectIds(out) \subseteq EffectIds(program)
    BY <1>2, <2>1
  <2>3. \A i \in DOMAIN program : HasEffect(program[i]) => Has(out, program[i])
    BY <1>2 DEF Counted
  <2>4. EffectIds(program) \subseteq EffectIds(out)
    BY <2>1, <2>3
  <2> QED
    BY <2>2, <2>4
<1> QED
  BY <1>1, <1>2, <1>3, <1>4 DEF Same

(* Nothing is lost and nothing placed twice: when C_traceSchedule has      *)
(* ended, every label and every statement with an effect of the program is *)
(* in the schedule exactly once, nothing else with an effect is, and the   *)
(* exit label is last.                                                     *)
THEOREM ScheduleIsComplete == Spec => []EverythingOnce
<1>1. Sched => EverythingOnce
  BY FinishedOnce
<1> QED
  BY <1>1, SchedAlways, PTL

(* The blocks begin with a label, end with a jump and have neither in      *)
(* between, and in the schedule, all the while it is made, a conditional   *)
(* jump is followed by its false label: properties 3 to 7 of the comments  *)
(* on C_basicBlocks and C_traceSchedule.                                   *)
THEOREM ScheduleIsCanonical == Spec => []Canonical
<1>1. Sched => Canonical
  <2> SUFFICES ASSUME Sched PROVE BasicBlocks
    BY DEF Sched, Canonical
  <2>1. \A b \in DOMAIN blocks : Block(blocks[b])
    BY DEF Sched, Cutting
  <2> QED
    BY <2>1 DEF Block, BasicBlocks
<1> QED
  BY <1>1, SchedAlways, PTL

-------------------------------------------------------------------------------
(* What is placed last, when the next block has not been chosen, is a jump *)
(* with at most its labels behind it.                                      *)
Leaving ==
  /\ phase = "schedule" /\ target = 0 /\ out # <<>> => LeavesByJump(out)
  /\ phase = "done" => LeavesByJump(out)

(* No program is cut into nothing.                                         *)
LEMMA SomeBlock ==
  ASSUME Sched, cur = <<>>, stms = <<>>
  PROVE  \E b : b \in DOMAIN blocks
<1>1. program \in Programs /\ blocks \in Seq(Seq(Statements))
  BY DEF Sched, Cutting
<1>2. program # <<>>
  BY <1>1, Given
<1>3. blocks # <<>>
  BY <1>2 DEF Sched, Cutting
<1>4. Len(blocks) \in Nat \ {0} /\ DOMAIN blocks = 1 .. Len(blocks)
  BY <1>1, <1>3
<1> QED
  BY <1>4

LEMMA LeavesAfter ==
  ASSUME NEW o \in Seq(Statements), NEW x \in Seq(Statements), LeavesByJump(x)
  PROVE  LeavesByJump(o \o x)
<1>1. PICK k \in DOMAIN x : EndsBlock(x[k]) /\ \A j \in k + 1 .. Len(x) : IsLabel(x[j])
  BY DEF LeavesByJump
<1>2. PICK p : p = o \o x
  OBVIOUS
<1>3. /\ Len(p) = Len(o) + Len(x) /\ Len(o) \in Nat /\ Len(x) \in Nat
      /\ DOMAIN x = 1 .. Len(x)
      /\ \A i \in DOMAIN x : Len(o) + i \in DOMAIN p /\ p[Len(o) + i] = x[i]
  BY <1>2, Sequel
<1>4. ASSUME NEW j \in Len(o) + k + 1 .. Len(p) PROVE IsLabel(p[j])
  <2>1. PICK m : m = j - Len(o)
    OBVIOUS
  <2>2. m \in k + 1 .. Len(x) /\ m \in 1 .. Len(x) /\ j = Len(o) + m
    BY <1>3, <2>1
  <2> QED
    BY <1>1, <1>3, <2>2
<1>5. Len(o) + k \in DOMAIN p /\ EndsBlock(p[Len(o) + k])
  BY <1>1, <1>3
<1> QED
  BY <1>2, <1>4, <1>5 DEF LeavesByJump

LEMMA LeavingStep ==
  ASSUME Sched, Leaving, [Next]_vars
  PROVE  Leaving'
<1>1. CASE UNCHANGED vars
  BY <1>1 DEF vars, scheduling, Leaving
<1>2. CASE MkBlocks \/ NextStm \/ EndBlock
  <2>1. phase = "blocks" /\ phase' = "blocks"
    BY <1>2 DEF MkBlocks, NextStm, EndBlock
  <2> QED
    BY <2>1 DEF Leaving
<1>3. CASE Schedule
  <2>1. phase = "blocks" /\ phase' = "schedule" /\ out' = out
    BY <1>3 DEF Schedule
  <2>2. out = <<>>
    BY <2>1 DEF Sched, Scheduling
  <2> QED
    BY <2>1, <2>2 DEF Leaving
<1>4. CASE GetNextExit
  <2>1. /\ phase = "schedule" /\ target = 0 /\ sList > Len(blocks) /\ phase' = "done"
        /\ out' = Append(out, Label(done))
    BY <1>4 DEF GetNextExit, GetNext
  <2>2. /\ out \in Seq(Statements) /\ Placed(out) /\ Known /\ cur = <<>> /\ stms = <<>>
        /\ done \in Nat /\ Cutting /\ sList \in Nat
    BY <2>1, NLabelsAssumption DEF Sched, Scheduling, Known, Cutting
  <2>3. out # <<>>
    <3>1. DOMAIN blocks = 1 .. Len(blocks) /\ Len(blocks) \in Nat
      BY <2>2, LabelsOfBlocks
    <3>2. PICK b : b \in DOMAIN blocks
      BY <2>2, SomeBlock
    <3>3. env[BlockLabel(b)] = 0
      BY <2>1, <2>2, <3>1, <3>2 DEF Known
    <3>4. IsLabel(blocks[b][1]) /\ 1 \in DOMAIN blocks[b]
      BY <2>2, <3>2, LabelsOfBlocks
    <3>6. Counted(blocks[b][1])
      BY <3>4 DEF Counted
    <3>5. Has(out, blocks[b][1])
      <4>1. \A i \in DOMAIN blocks[b] : Counted(blocks[b][i]) => Has(out, blocks[b][i])
        BY <2>2, <3>2, <3>3, Zenon DEF Placed
      <4> QED
        BY <3>4, <3>6, <4>1
    <3> QED
      BY <3>5 DEF Has
  <2>4. PICK k \in DOMAIN out : EndsBlock(out[k]) /\ \A j \in k + 1 .. Len(out) : IsLabel(out[j])
    BY <2>1, <2>3 DEF Leaving, LeavesByJump
  <2>5. /\ Len(out') = Len(out) + 1 /\ Len(out) \in Nat /\ DOMAIN out = 1 .. Len(out)
        /\ DOMAIN out' = 1 .. Len(out) + 1
        /\ out'[Len(out) + 1] = Label(done) /\ \A i \in 1 .. Len(out) : out'[i] = out[i]
    <3>1. Label(done) \in Statements
      BY <2>2, Made
    <3> QED
      BY <2>1, <2>2, <3>1
  <2>6. \A j \in k + 1 .. Len(out) + 1 : j = Len(out) + 1 \/ j \in k + 1 .. Len(out)
    BY <2>5
  <2>7. k \in 1 .. Len(out) + 1 /\ k \in 1 .. Len(out)
        /\ \A j \in k + 1 .. Len(out) : j \in 1 .. Len(out)
    BY <2>5
  <2>8. IsLabel(Label(done))
    BY Made
  <2>9. LeavesByJump(out')
    BY <2>4, <2>5, <2>6, <2>7, <2>8 DEF LeavesByJump
  <2> QED
    BY <2>1, <2>9 DEF Leaving
<1>5. CASE GetNextBlock \/ GetNextSkip
  <2>1. /\ phase = "schedule" /\ phase' = phase /\ target = 0 /\ out' = out
    BY <1>5 DEF GetNextBlock, GetNextSkip, GetNext
  <2> QED
    BY <2>1 DEF Leaving
<1>6. CASE TraceJump \/ TraceCjumpFalse \/ TraceCjumpTrue
  <2>1. phase = "schedule" /\ phase' = phase /\ \E n : IsUntraced(n) /\ target' = EnvMarked[n]
    BY <1>6 DEF TraceJump, TraceCjumpFalse, TraceCjumpTrue, Trace
  <2>2. target' # 0
    BY <2>1 DEF IsUntraced
  <2> QED
    BY <2>1, <2>2 DEF Leaving
<1>7. CASE TraceJumpBack
  <2>1. PICK b : b = blocks[target]
    OBVIOUS
  <2>2. /\ Trace /\ LastStm.kind = "JUMP" /\ out' = out \o b /\ phase = "schedule" /\ phase' = phase
    BY <1>7, <2>1 DEF TraceJumpBack, Trace
  <2>3. /\ b \in Seq(Statements) /\ Len(b) \in Nat /\ Len(b) >= 2 /\ DOMAIN b = 1 .. Len(b)
        /\ LastStm = b[Len(b)] /\ out \in Seq(Statements)
    BY <2>1, <2>2, TheBlock
  <2>4. LeavesByJump(b)
    <3>1. Len(b) \in DOMAIN b /\ Len(b) + 1 .. Len(b) = {}
      BY <2>3
    <3> QED
      BY <2>2, <2>3, <3>1 DEF LeavesByJump, EndsBlock
  <2>5. LeavesByJump(out')
    BY <2>2, <2>3, <2>4, LeavesAfter
  <2> QED
    BY <2>2, <2>5 DEF Leaving
<1>8. CASE TraceCjumpNeither
  <2>1. PICK b, f, e, g : /\ b = blocks[target] /\ f = Front(b) /\ g = Label(labels + 1)
                          /\ e = [LastStm EXCEPT !.falsee = labels + 1]
    OBVIOUS
  <2>2. /\ Trace /\ LastStm.kind = "CJUMP" /\ out' = (out \o f) \o <<e, g>>
        /\ phase = "schedule" /\ phase' = phase
    BY <1>8, <2>1 DEF TraceCjumpNeither, Trace
  <2>3. /\ f \in Seq(Statements) /\ out \in Seq(Statements)
        /\ LastStm \in Statements /\ labels \in Nat
    BY <2>1, <2>2, TheBlock
  <2>4. e \in Statements /\ EndsBlock(e)
    <3>1. PICK m \in Nat : m = labels + 1
      BY <2>3
    <3>2. /\ [LastStm EXCEPT !.falsee = m] \in Statements
          /\ [LastStm EXCEPT !.falsee = m].kind = "CJUMP"
      BY <2>2, <2>3, Turned
    <3> QED
      BY <2>1, <3>1, <3>2 DEF EndsBlock
  <2>5. g \in Statements /\ IsLabel(g)
    BY <2>1, <2>3, Made
  <2>6. LeavesByJump(<<e, g>>) /\ <<e, g>> \in Seq(Statements)
    <3> DEFINE x == <<e, g>>
    <3>1. x \in Seq(Statements) /\ Len(x) = 2 /\ DOMAIN x = 1 .. 2 /\ x[1] = e /\ x[2] = g
      BY <2>4, <2>5
    <3>2. 1 \in 1 .. 2 /\ \A j \in 1 + 1 .. 2 : j = 2
      OBVIOUS
    <3> HIDE DEF x
    <3>3. LeavesByJump(x)
      BY <2>4, <2>5, <3>1, <3>2 DEF LeavesByJump
    <3> QED
      BY <3>1, <3>3 DEF x
  <2>7. out \o f \in Seq(Statements)
    BY <2>3
  <2>8. LeavesByJump(out')
    BY <2>2, <2>6, <2>7, LeavesAfter
  <2> QED
    BY <2>2, <2>8 DEF Leaving
<1> QED
  BY <1>1, <1>2, <1>3, <1>4, <1>5, <1>6, <1>7, <1>8 DEF Next, Terminating

(* A jump stays in the schedule only when it leads to the exit, out of the *)
(* function, or back to a label already placed, and the last block keeps   *)
(* its jump: control does not run into the exit label.                     *)
THEOREM JumpsRight == Spec => []JumpsAsNeeded
<1>1. Init => Leaving
  BY DEF Init, Leaving
<1>2. Sched /\ Leaving /\ [Next]_vars => Leaving'
  BY LeavingStep
<1>3. Sched /\ Leaving => JumpsAsNeeded
  BY DEF Sched, Leaving, ExitIsJumpedTo, JumpsAsNeeded
<1> QED
  BY <1>1, <1>2, <1>3, SchedAlways, PTL DEF Spec

-------------------------------------------------------------------------------
(* A function applied again and again.                                     *)
Iterates(S, f, a, g) ==
  g \in [Nat -> S] /\ g[0] = a /\ \A n \in Nat : g[n + 1] = f[g[n]]

LEMMA Iteration ==
  ASSUME NEW S, NEW f \in [S -> S], NEW a \in S
  PROVE  \E g : Iterates(S, f, a, g)
<1> DEFINE Good(h, m) == h[0] = a /\ \A n \in 0 .. m : n < m => h[n + 1] = f[h[n]]
           T == {m \in Nat : \E h \in [0 .. m -> S] : Good(h, m)}
           U == {m \in Nat : \A x, y : Good(x, m) /\ Good(y, m) => x[m] = y[m]}
<1>1. 0 \in T
  <2> DEFINE h == [n \in 0 .. 0 |-> a]
  <2>1. h \in [0 .. 0 -> S] /\ Good(h, 0)
    OBVIOUS
  <2> HIDE DEF h, Good
  <2> QED
    BY <2>1
<1>2. ASSUME NEW m \in Nat, m \in T PROVE m + 1 \in T
  <2>1. PICK h \in [0 .. m -> S] : Good(h, m)
    BY <1>2
  <2> DEFINE k == [n \in 0 .. m + 1 |-> IF n <= m THEN h[n] ELSE f[h[m]]]
  <2>2. k \in [0 .. m + 1 -> S]
    <3>1. \A n \in 0 .. m + 1 : n <= m => n \in 0 .. m
      OBVIOUS
    <3>2. \A n \in 0 .. m : h[n] \in S /\ f[h[n]] \in S
      OBVIOUS
    <3>3. m \in 0 .. m
      OBVIOUS
    <3> QED
      BY <3>1, <3>2, <3>3
  <2>3. /\ \A n \in 0 .. m + 1 : k[n] = IF n <= m THEN h[n] ELSE f[h[m]]
    OBVIOUS
  <2> HIDE DEF k
  <2>4. ASSUME NEW n \in 0 .. m + 1, n < m + 1 PROVE k[n + 1] = f[k[n]]
    <3>1. n \in 0 .. m /\ n + 1 \in 0 .. m + 1 /\ k[n] = h[n]
      BY <2>3, <2>4
    <3>2. CASE n = m
      BY <2>3, <3>1, <3>2
    <3>3. CASE n < m
      <4>1. n + 1 <= m
        BY <3>3
      <4> QED
        BY <2>1, <2>3, <3>1, <3>3, <4>1
    <3> QED
      BY <3>1, <3>2, <3>3
  <2>5. 0 \in 0 .. m + 1 /\ k[0] = a
    BY <2>1, <2>3
  <2>6. Good(k, m + 1)
    BY <2>4, <2>5
  <2> HIDE DEF Good
  <2> QED
    BY <2>2, <2>6
<1>3. \A x, y, m : m \in Nat /\ Good(x, m + 1) => Good(x, m) /\ x[m + 1] = f[x[m]]
  <2> TAKE x, y, m
  <2> HAVE m \in Nat /\ Good(x, m + 1)
  <2>1. \A n \in 0 .. m : n \in 0 .. m + 1 /\ n < m + 1
    OBVIOUS
  <2>2. m \in 0 .. m
    OBVIOUS
  <2> QED
    BY <2>1, <2>2
<1>4. 0 \in U
  OBVIOUS
<1>5. ASSUME NEW m \in Nat, m \in U PROVE m + 1 \in U
  <2> HIDE DEF Good
  <2> QED
    BY <1>3, <1>5
<1> HIDE DEF T, U
<1>6. Nat \subseteq T /\ Nat \subseteq U
  BY <1>1, <1>2, <1>4, <1>5, InductiveSet
<1> DEFINE h(m) == CHOOSE x \in [0 .. m -> S] : Good(x, m)
           g == [m \in Nat |-> h(m)[m]]
<1>7. ASSUME NEW m \in Nat
      PROVE  h(m) \in [0 .. m -> S] /\ Good(h(m), m)
  <2>1. m \in T
    BY <1>6
  <2> HIDE DEF Good
  <2>2. \E x \in [0 .. m -> S] : Good(x, m)
    BY <2>1 DEF T
  <2> QED
    BY <2>2
<1> HIDE DEF h
<1>8. g \in [Nat -> S]
  <2>1. \A m \in Nat : h(m) \in [0 .. m -> S] /\ m \in 0 .. m
    BY <1>7
  <2>2. \A m \in Nat : h(m)[m] \in S
    BY <2>1
  <2> QED
    BY <2>2
<1>9. g[0] = a
  BY <1>7
<1>10. ASSUME NEW m \in Nat PROVE g[m + 1] = f[g[m]]
  <2>1. Good(h(m + 1), m + 1) /\ Good(h(m), m)
    BY <1>7
  <2>2. Good(h(m + 1), m) /\ h(m + 1)[m + 1] = f[h(m + 1)[m]]
    BY <1>3, <2>1
  <2>3. m \in U
    BY <1>6
  <2>4. h(m + 1)[m] = h(m)[m]
    <3> HIDE DEF Good
    <3> QED
      BY <2>1, <2>2, <2>3 DEF U
  <2> QED
    BY <2>2, <2>4
<1> QED
  BY <1>8, <1>9, <1>10 DEF Iterates

(* Where control is after each number of steps from a position.            *)
Positions(p) == 1 .. Len(p) + 1

Walks(p, i, g) ==
  /\ g \in [Nat -> Positions(p)] /\ g[0] = i
  /\ \A n \in Nat : g[n + 1] = Onward(p, g[n])

LEMMA Placement ==
  ASSUME NEW p \in Seq(Statements)
  PROVE  /\ Len(p) \in Nat /\ DOMAIN p = 1 .. Len(p) /\ Len(p) + 1 \in Positions(p)
         /\ \A i \in DOMAIN p : i \in Positions(p)
         /\ \A n : Place(p, n) \in Positions(p)
         /\ \A n : (\E i \in DOMAIN p : p[i] = Label(n)) =>
                   Place(p, n) \in DOMAIN p /\ p[Place(p, n)] = Label(n)
         /\ \A n : ~(\E i \in DOMAIN p : p[i] = Label(n)) => Place(p, n) = Len(p) + 1
         /\ \A i \in Positions(p) : /\ Onward(p, i) \in Positions(p)
                                    /\ i \in DOMAIN p <=> ~(i > Len(p))
<1>1. /\ Len(p) \in Nat /\ DOMAIN p = 1 .. Len(p)
  OBVIOUS
<1>2. /\ Len(p) + 1 \in Positions(p)
      /\ \A i \in 1 .. Len(p) : i \in Positions(p) /\ i + 1 \in Positions(p)
      /\ \A i \in Positions(p) : i \in DOMAIN p <=> ~(i > Len(p))
  BY <1>1 DEF Positions
<1>3. ASSUME NEW n, \E i \in DOMAIN p : p[i] = Label(n)
      PROVE  Place(p, n) \in DOMAIN p /\ p[Place(p, n)] = Label(n)
  BY <1>3 DEF Place
<1>4. ASSUME NEW n, ~(\E i \in DOMAIN p : p[i] = Label(n))
      PROVE  Place(p, n) = Len(p) + 1
  BY <1>4 DEF Place
<1>5. \A n : Place(p, n) \in Positions(p)
  BY <1>1, <1>2, <1>3, <1>4
<1>6. \A i \in Positions(p) : Onward(p, i) \in Positions(p)
  BY <1>1, <1>2, <1>5 DEF Onward, Stops
<1> QED
  BY <1>1, <1>2, <1>3, <1>4, <1>5, <1>6

LEMMA WalkExists ==
  ASSUME NEW p \in Seq(Statements), NEW i \in Positions(p)
  PROVE  \E g : Walks(p, i, g)
<1> DEFINE f == [j \in Positions(p) |-> Onward(p, j)]
<1>1. f \in [Positions(p) -> Positions(p)]
  BY Placement
<1>2. \A j \in Positions(p) : f[j] = Onward(p, j)
  OBVIOUS
<1> HIDE DEF f
<1>3. PICK g : Iterates(Positions(p), f, i, g)
  BY <1>1, Iteration
<1> QED
  BY <1>2, <1>3, ZenonT(60) DEF Walks, Iterates

Value(p, j) == IF ~Stops(p, j) THEN -1 ELSE IF j > Len(p) THEN 0
               ELSE IF Leaves(p[j]) THEN -2 ELSE p[j].id

(* From is what the walk from a position has come to.                      *)
LEMMA FromWalk ==
  ASSUME NEW p \in Seq(Statements), NEW i \in Positions(p), NEW g, Walks(p, i, g)
  PROVE  From(p, i) = Value(p, g[Len(p) + 1])
<1> DEFINE K == Len(p) + 1
           F(h) == [k \in 0 .. K |-> IF k = 0 THEN i ELSE Onward(p, h[k - 1])]
           at == CHOOSE h : h = F(h)
           w == [k \in 0 .. K |-> g[k]]
<1>1. K \in Nat
  BY Placement
<1>2. /\ g[0] = i /\ \A n \in Nat : g[n + 1] = Onward(p, g[n])
  BY DEF Walks
<1> HIDE DEF K
<1>3. \A k \in 0 .. K : g[k] = IF k = 0 THEN i ELSE Onward(p, w[k - 1])
  <2> TAKE k \in 0 .. K
  <2>1. CASE k # 0
    <3>1. k - 1 \in 0 .. K /\ k - 1 \in Nat /\ k - 1 + 1 = k
      BY <1>1, <2>1
    <3> QED
      BY <1>2, <3>1, <2>1
  <2> QED
    BY <1>2, <2>1
<1>4. w = F(w)
  <2> HIDE DEF w
  <2>1. [k \in 0 .. K |-> g[k]] = [k \in 0 .. K |-> IF k = 0 THEN i ELSE Onward(p, w[k - 1])]
    BY <1>3
  <2> QED
    BY <2>1 DEF w
<1>5. at = F(at)
  <2> HIDE DEF w, F
  <2> QED
    BY <1>4
<1> HIDE DEF at
<1>6. \A k \in 0 .. K : at[k] = IF k = 0 THEN i ELSE Onward(p, at[k - 1])
  BY <1>5
<1> DEFINE S == {n \in Nat : n \in 0 .. K => at[n] = g[n]}
<1>7. 0 \in S
  <2>1. 0 \in 0 .. K
    BY <1>1
  <2> QED
    BY <1>2, <1>6, <2>1
<1>8. ASSUME NEW n \in Nat, n \in S PROVE n + 1 \in S
  <2> SUFFICES ASSUME n + 1 \in 0 .. K PROVE at[n + 1] = g[n + 1]
    OBVIOUS
  <2>1. n \in 0 .. K /\ n + 1 # 0 /\ n + 1 - 1 = n
    BY <1>1
  <2>2. at[n] = g[n]
    BY <1>8, <2>1
  <2> QED
    BY <1>2, <1>6, <2>1, <2>2
<1>9. at[K] = g[K]
  <2> HIDE DEF S
  <2>1. Nat \subseteq S
    BY <1>7, <1>8, InductiveSet
  <2> QED
    BY <1>1, <2>1 DEF S
<1>10. From(p, i) = Value(p, at[K])
  BY DEF From, Value, at, K, F
<1> QED
  BY <1>9, <1>10 DEF K

(* A walk that has stopped stays where it is.                              *)
LEMMA Resting ==
  ASSUME NEW p \in Seq(Statements), NEW i \in Positions(p), NEW g, Walks(p, i, g),
         NEW m \in Nat, Stops(p, g[m]), NEW n \in Nat, m <= n
  PROVE  g[n] = g[m]
<1> DEFINE S == {k \in Nat : g[m + k] = g[m]}
<1>1. \A k \in Nat : g[k + 1] = Onward(p, g[k])
  BY DEF Walks
<1>2. 0 \in S
  OBVIOUS
<1>3. ASSUME NEW k \in Nat, k \in S PROVE k + 1 \in S
  <2>1. m + k \in Nat /\ m + k + 1 = m + (k + 1) /\ g[m + k] = g[m]
    BY <1>3
  <2>2. g[m + k + 1] = g[m]
    BY <1>1, <2>1 DEF Onward
  <2> QED
    BY <2>1, <2>2
<1> HIDE DEF S
<1>4. n - m \in S
  <2>1. n - m \in Nat
    OBVIOUS
  <2> QED
    BY <1>2, <1>3, <2>1, InductiveSet
<1>5. m + (n - m) = n
  OBVIOUS
<1> QED
  BY <1>4, <1>5 DEF S

(* What a walk repeats it goes on repeating.                               *)
LEMMA Circling ==
  ASSUME NEW p \in Seq(Statements), NEW i \in Positions(p), NEW g, Walks(p, i, g),
         NEW m \in Nat, NEW n \in Nat, g[m] = g[n]
  PROVE  \A k \in Nat : g[m + k] = g[n + k]
<1> DEFINE S == {k \in Nat : g[m + k] = g[n + k]}
<1>1. \A k \in Nat : g[k + 1] = Onward(p, g[k])
  BY DEF Walks
<1>2. 0 \in S
  OBVIOUS
<1>3. ASSUME NEW k \in Nat, k \in S PROVE k + 1 \in S
  <2>1. /\ m + k \in Nat /\ m + k + 1 = m + (k + 1)
        /\ n + k \in Nat /\ n + k + 1 = n + (k + 1) /\ g[m + k] = g[n + k]
    BY <1>3
  <2>2. g[m + k + 1] = g[n + k + 1]
    BY <1>1, <2>1
  <2> QED
    BY <2>1, <2>2
<1> HIDE DEF S
<1>4. Nat \subseteq S
  BY <1>2, <1>3, InductiveSet
<1> QED
  BY <1>4 DEF S

(* A walk that stops has stopped after as many steps as there are          *)
(* positions: until then it has been nowhere twice.                        *)
LEMMA StopsInTime ==
  ASSUME NEW p \in Seq(Statements), NEW i \in Positions(p), NEW g, Walks(p, i, g),
         \E m \in Nat : Stops(p, g[m])
  PROVE  Stops(p, g[Len(p) + 1])
<1> DEFINE K == Len(p) + 1
           S == {m \in Nat : Stops(p, g[m])}
<1>1. K \in Nat
  BY Placement
<1>2. PICK m \in S : \A n \in S : m <= n
  <2>1. S \subseteq Nat /\ S # {}
    OBVIOUS
  <2> HIDE DEF S
  <2> QED
    BY <2>1, LeastElement
<1>3. CASE m <= K
  BY <1>1, <1>2, <1>3, Resting
<1>4. CASE ~(m <= K)
  <2> DEFINE f == [n \in 0 .. K |-> g[n]]
  <2>1. f \in [0 .. K -> Positions(p)]
    BY <1>1 DEF Walks
  <2>2. /\ IsFiniteSet(0 .. K) /\ Cardinality(0 .. K) = K + 1
        /\ IsFiniteSet(Positions(p)) /\ Cardinality(Positions(p)) = K
    BY <1>1, FS_Interval DEF Positions
  <2>3. PICK x \in 0 .. K, y \in 0 .. K : x # y /\ g[x] = g[y]
    <3>1. \A n \in 0 .. K : f[n] = g[n]
      OBVIOUS
    <3>2. Cardinality(Positions(p)) < Cardinality(0 .. K)
      BY <1>1, <2>2
    <3> HIDE DEF f, K
    <3>3. \E x, y \in 0 .. K : x # y /\ f[x] = f[y]
      BY <2>1, <2>2, <3>2, FS_PigeonHole, ZenonT(60)
    <3> QED
      BY <3>1, <3>3
  <2>4. ASSUME NEW a \in 0 .. K, NEW b \in 0 .. K, a < b, g[a] = g[b] PROVE FALSE
    <3>1. PICK k : k = m - b
      OBVIOUS
    <3>2. a \in Nat /\ b \in Nat /\ k \in Nat /\ b + k = m /\ a + k \in Nat /\ a + k < m
      BY <1>1, <1>4, <2>4, <3>1
    <3>3. \A l \in Nat : g[a + l] = g[b + l]
      BY <2>4, <3>2, Circling
    <3>4. a + k \in S
      BY <1>2, <3>2, <3>3
    <3> QED
      BY <1>2, <3>2, <3>4
  <2>5. x < y \/ y < x
    BY <1>1, <2>3
  <2> QED
    BY <2>3, <2>4, <2>5
<1> QED
  BY <1>3, <1>4

(* A walk, one step on.                                                    *)
LEMMA OneOn ==
  ASSUME NEW p \in Seq(Statements), NEW i \in Positions(p), NEW g, Walks(p, i, g)
  PROVE  Walks(p, Onward(p, i), [n \in Nat |-> g[n + 1]])
<1>1. /\ g \in [Nat -> Positions(p)] /\ g[0] = i /\ \A n \in Nat : g[n + 1] = Onward(p, g[n])
  BY DEF Walks
<1> DEFINE h == [n \in Nat |-> g[n + 1]]
<1>2. h \in [Nat -> Positions(p)] /\ \A n \in Nat : h[n] = g[n + 1]
  BY <1>1
<1> HIDE DEF h
<1>3. \A n \in Nat : n + 1 \in Nat /\ 0 \in Nat /\ 0 + 1 = 1
  OBVIOUS
<1>4. h[0] = Onward(p, i)
  BY <1>1, <1>2, <1>3
<1>5. \A n \in Nat : h[n + 1] = Onward(p, h[n])
  BY <1>1, <1>2, <1>3
<1>6. Walks(p, Onward(p, i), h)
  BY <1>2, <1>4, <1>5 DEF Walks
<1> QED
  BY <1>6 DEF h

(* From is what the statement says where control stops, and what it is one *)
(* step on where it does not.                                              *)
LEMMA FromStops ==
  ASSUME NEW p \in Seq(Statements), NEW i \in Positions(p), Stops(p, i)
  PROVE  From(p, i) = Value(p, i)
<1>1. PICK g : Walks(p, i, g)
  BY WalkExists
<1>2. g[0] = i /\ Len(p) + 1 \in Nat /\ 0 \in Nat
  BY <1>1, Placement DEF Walks
<1>3. \A n \in Nat : 0 <= n
  OBVIOUS
<1>4. g[Len(p) + 1] = i
  BY <1>1, <1>2, <1>3, Resting
<1> QED
  BY <1>1, <1>4, FromWalk

LEMMA FromOnward ==
  ASSUME NEW p \in Seq(Statements), NEW i \in Positions(p)
  PROVE  From(p, i) = From(p, Onward(p, i))
<1>1. PICK g : Walks(p, i, g)
  BY WalkExists
<1>2. PICK K : K = Len(p) + 1
  OBVIOUS
<1>3. K \in Nat /\ K + 1 \in Nat /\ K <= K + 1 /\ Onward(p, i) \in Positions(p)
  BY <1>2, Placement
<1> DEFINE h == [n \in Nat |-> g[n + 1]]
<1>4. Walks(p, Onward(p, i), h) /\ h[K] = g[K + 1]
  BY <1>1, <1>3, OneOn
<1> HIDE DEF h
<1>5. From(p, i) = Value(p, g[K]) /\ From(p, Onward(p, i)) = Value(p, g[K + 1])
  BY <1>1, <1>2, <1>3, <1>4, FromWalk
<1>6. CASE Stops(p, g[K])
  <2>1. g[K + 1] = g[K]
    BY <1>1, <1>3, <1>6, Resting
  <2> QED
    BY <1>5, <2>1
<1>7. CASE ~Stops(p, g[K])
  <2>1. ~Stops(p, g[K + 1])
    BY <1>1, <1>2, <1>3, <1>7, StopsInTime
  <2> QED
    BY <1>5, <1>7, <2>1 DEF Value
<1> QED
  BY <1>6, <1>7

(* Control from i has stopped after n steps.                               *)
Arrives(p, i, n) == \E g : Walks(p, i, g) /\ Stops(p, g[n])

LEMMA Arriving ==
  ASSUME NEW p \in Seq(Statements), NEW i \in Positions(p), NEW n \in Nat
  PROVE  /\ Arrives(p, i, 0) => Stops(p, i)
         /\ Arrives(p, i, n + 1) => Arrives(p, Onward(p, i), n)
         /\ Arrives(p, i, n) => Arrives(p, Onward(p, i), n)
<1>1. ASSUME NEW g, Walks(p, i, g) PROVE g[0] = i
  BY <1>1 DEF Walks
<1>2. ASSUME NEW g, Walks(p, i, g), Stops(p, g[n + 1]) PROVE Arrives(p, Onward(p, i), n)
  <2> DEFINE h == [k \in Nat |-> g[k + 1]]
  <2>1. Walks(p, Onward(p, i), h) /\ h[n] = g[n + 1]
    BY <1>2, OneOn
  <2> HIDE DEF h
  <2> QED
    BY <1>2, <2>1 DEF Arrives
<1>3. ASSUME NEW g, Walks(p, i, g), Stops(p, g[n]) PROVE Stops(p, g[n + 1])
  <2>1. n + 1 \in Nat /\ n <= n + 1
    OBVIOUS
  <2> QED
    BY <1>3, <2>1, Resting
<1> QED
  BY <1>1, <1>2, <1>3 DEF Arrives

LEMMA NoArrival ==
  ASSUME NEW p \in Seq(Statements), NEW i \in Positions(p),
         \A n \in Nat : ~Arrives(p, i, n)
  PROVE  From(p, i) = -1
<1>1. PICK g : Walks(p, i, g)
  BY WalkExists
<1>2. Len(p) + 1 \in Nat
  BY Placement
<1>3. ~Stops(p, g[Len(p) + 1])
  BY <1>1, <1>2 DEF Arrives
<1> QED
  BY <1>1, <1>3, FromWalk DEF Value

(* j is one step or two from i, which is no place to stop.                 *)
Nears(p, i, j) == ~Stops(p, i) /\ j \in {Onward(p, i), Onward(p, Onward(p, i))}

LEMMA Nearing ==
  ASSUME NEW p \in Seq(Statements), NEW i \in Positions(p), NEW j, Nears(p, i, j)
  PROVE  /\ j \in Positions(p) /\ From(p, i) = From(p, j)
         /\ ~Arrives(p, i, 0) /\ \A n \in Nat : Arrives(p, i, n + 1) => Arrives(p, j, n)
<1>1. PICK k : k = Onward(p, i)
  OBVIOUS
<1>2. k \in Positions(p) /\ Onward(p, k) \in Positions(p)
  BY <1>1, Placement
<1>3. From(p, i) = From(p, k) /\ From(p, k) = From(p, Onward(p, k))
  BY <1>1, <1>2, FromOnward
<1>4. ~Arrives(p, i, 0)
  <2>1. 0 \in Nat
    OBVIOUS
  <2> QED
    BY <2>1, Arriving DEF Nears
<1>5. \A n \in Nat : /\ Arrives(p, i, n + 1) => Arrives(p, k, n)
                     /\ Arrives(p, k, n) => Arrives(p, Onward(p, k), n)
  BY <1>1, <1>2, Arriving
<1> QED
  BY <1>1, <1>2, <1>3, <1>4, <1>5 DEF Nears

(* Two lists in which control goes from point to point in the same way     *)
(* until it comes to the same effect.                                      *)
Alike(p, q, N, P, Q) ==
  /\ P \in [N -> Positions(p)] /\ Q \in [N -> Positions(q)]
  /\ \A n \in N : \/ From(p, P[n]) = From(q, Q[n])
                  \/ \E m \in N : Nears(p, P[n], P[m]) /\ Nears(q, Q[n], Q[m])

LEMMA AlikeOneWay ==
  ASSUME NEW p \in Seq(Statements), NEW q \in Seq(Statements), NEW N, NEW P, NEW Q,
         Alike(p, q, N, P, Q), NEW k \in Nat
  PROVE  \A n \in N : Arrives(p, P[n], k) => From(p, P[n]) = From(q, Q[n])
<1> DEFINE S == {l \in Nat : \A n \in N : Arrives(p, P[n], l) => From(p, P[n]) = From(q, Q[n])}
<1>1. \A n \in N : P[n] \in Positions(p) /\ Q[n] \in Positions(q)
  BY DEF Alike
<1>2. ASSUME NEW n \in N, From(p, P[n]) # From(q, Q[n])
      PROVE  \E m \in N : Nears(p, P[n], P[m]) /\ Nears(q, Q[n], Q[m])
  BY <1>2 DEF Alike
<1>3. 0 \in S
  BY <1>1, <1>2, Nearing
<1>4. ASSUME NEW l \in Nat, l \in S PROVE l + 1 \in S
  <2>1. ASSUME NEW n \in N, Arrives(p, P[n], l + 1), From(p, P[n]) # From(q, Q[n])
        PROVE  FALSE
    <3>1. PICK m \in N : Nears(p, P[n], P[m]) /\ Nears(q, Q[n], Q[m])
      BY <1>2, <2>1
    <3>2. Arrives(p, P[m], l) /\ From(p, P[n]) = From(p, P[m]) /\ From(q, Q[n]) = From(q, Q[m])
      BY <1>1, <2>1, <3>1, Nearing
    <3> QED
      BY <1>4, <2>1, <3>2
  <2> QED
    BY <2>1
<1> HIDE DEF S
<1>5. k \in S
  BY <1>3, <1>4, InductiveSet
<1> QED
  BY <1>5 DEF S

LEMMA AlikeMeansSame ==
  ASSUME NEW p \in Seq(Statements), NEW q \in Seq(Statements), NEW N, NEW P, NEW Q,
         Alike(p, q, N, P, Q)
  PROVE  \A n \in N : From(p, P[n]) = From(q, Q[n])
<1> TAKE n \in N
<1>1. P[n] \in Positions(p) /\ Q[n] \in Positions(q)
  BY DEF Alike
<1>2. Alike(q, p, N, Q, P)
  BY DEF Alike
<1>3. CASE \E k \in Nat : Arrives(p, P[n], k)
  BY <1>3, AlikeOneWay
<1>4. CASE \E k \in Nat : Arrives(q, Q[n], k)
  BY <1>2, <1>4, AlikeOneWay
<1>5. CASE \A k \in Nat : ~Arrives(p, P[n], k) /\ ~Arrives(q, Q[n], k)
  BY <1>1, <1>5, NoArrival
<1> QED
  BY <1>3, <1>4, <1>5

-------------------------------------------------------------------------------
(* Where in the program the statement t of a block is from that is cut     *)
(* from position x on: a block without a label in the program has one      *)
(* statement more.                                                         *)
Source(p, x, t) == x + t - (IF IsLabel(p[x]) THEN 1 ELSE 2)

(* The first n statements of c are from position x on, or c begins with a  *)
(* label of its own.                                                       *)
CutFrom(p, x, c, n) ==
  /\ x \in DOMAIN p
  /\ IF IsLabel(p[x]) THEN c[1] = p[x] ELSE c[1].label > NLabels + 1
  /\ \A t \in 2 .. n : Source(p, x, t) \in DOMAIN p /\ c[t] = p[Source(p, x, t)]

(* A block that takes the program from position x to z: it ends with a     *)
(* jump of the program, or one made before a label or the end.             *)
CutTo(p, x, c, z) ==
  /\ CutFrom(p, x, c, Len(c) - 1)
  /\ LET y == Source(p, x, Len(c))
         e == c[Len(c)]
     IN  \/ y \in DOMAIN p /\ EndsBlock(p[y]) /\ e = p[y] /\ z = y + 1
         \/ y \in DOMAIN p /\ IsLabel(p[y]) /\ e = Jump(p[y].label) /\ z = y
         \/ y = Len(p) + 1 /\ e = Jump(NLabels + 1) /\ z = y

(* s is what is left of the program from position y on.                    *)
LeftFrom(p, y, s) ==
  /\ y \in Positions(p) /\ Len(s) = Len(p) + 1 - y
  /\ \A i \in DOMAIN s : s[i] = p[y + i - 1]

(* F[b] is the position from which block b is cut.                         *)
CutAt(F) ==
  /\ F \in [1 .. Len(blocks) + 1 -> Positions(program)] /\ F[1] = 1
  /\ \A b \in DOMAIN blocks : CutTo(program, F[b], blocks[b], F[b + 1])
  /\ LET x == F[Len(blocks) + 1]
     IN  IF cur = <<>> THEN LeftFrom(program, x, stms)
         ELSE /\ CutFrom(program, x, cur, Len(cur))
              /\ LeftFrom(program, Source(program, x, Len(cur) + 1), stms)

InPlace == \E F : CutAt(F)

LEMMA LeftOver ==
  ASSUME NEW p \in Seq(Statements), NEW y, NEW s \in Seq(Statements), LeftFrom(p, y, s)
  PROVE  /\ s = <<>> => y = Len(p) + 1
         /\ s # <<>> => /\ y \in DOMAIN p /\ Head(s) = p[y]
                        /\ LeftFrom(p, y + 1, Tail(s))
<1>1. /\ Len(p) \in Nat /\ DOMAIN p = 1 .. Len(p) /\ Len(s) \in Nat /\ y \in Nat /\ y >= 1
      /\ y <= Len(p) + 1 /\ Len(s) = Len(p) + 1 - y /\ \A i \in DOMAIN s : s[i] = p[y + i - 1]
      /\ DOMAIN s = 1 .. Len(s)
  BY DEF LeftFrom, Positions
<1>2. ASSUME s # <<>>
      PROVE  y \in DOMAIN p /\ Head(s) = p[y] /\ LeftFrom(p, y + 1, Tail(s))
  <2>1. Len(s) >= 1 /\ y \in 1 .. Len(p) /\ y + 1 \in 1 .. Len(p) + 1
    BY <1>1, <1>2
  <2>2. Head(s) = s[1] /\ 1 \in DOMAIN s /\ y + 1 - 1 = y
    BY <1>1, <1>2, <2>1
  <2>3. /\ Len(Tail(s)) = Len(s) - 1 /\ DOMAIN Tail(s) = 1 .. Len(s) - 1
        /\ \A i \in 1 .. Len(s) - 1 : Tail(s)[i] = s[i + 1]
    BY <1>1, <1>2
  <2>4. \A i \in 1 .. Len(s) - 1 : i + 1 \in 1 .. Len(s) /\ y + (i + 1) - 1 = y + 1 + i - 1
    BY <1>1
  <2>5. \A i \in 1 .. Len(s) - 1 : Tail(s)[i] = p[y + 1 + i - 1]
    BY <1>1, <2>3, <2>4
  <2>6. Len(Tail(s)) = Len(p) + 1 - (y + 1)
    BY <1>1, <2>3
  <2> QED
    BY <1>1, <2>1, <2>2, <2>3, <2>5, <2>6 DEF LeftFrom, Positions
<1>3. s = <<>> => y = Len(p) + 1
  BY <1>1
<1> QED
  BY <1>2, <1>3

LEMMA SourceNext ==
  ASSUME NEW p, NEW x \in Nat, NEW t \in Nat
  PROVE  /\ Source(p, x, t + 1) = Source(p, x, t) + 1
         /\ Source(p, x, 2) = IF IsLabel(p[x]) THEN x + 1 ELSE x
         /\ Source(p, x, t) \in Int
BY DEF Source

LEMMA InitInPlace ==
  ASSUME Init
  PROVE  InPlace
<1>1. /\ program \in Programs /\ stms = program /\ cur = <<>> /\ blocks = <<>>
  BY DEF Init
<1>2. program \in Seq(Statements)
  BY <1>1, Given
<1> DEFINE F == [b \in 1 .. 1 |-> 1]
<1>3. Len(program) \in Nat /\ 1 \in Positions(program)
  BY <1>2 DEF Positions
<1>4. F \in [1 .. 1 -> Positions(program)] /\ F[1] = 1
  BY <1>3
<1> HIDE DEF F
<1>5. LeftFrom(program, 1, program)
  <2>1. \A i \in DOMAIN program : 1 + i - 1 = i
    BY <1>2
  <2> QED
    BY <1>3, <2>1 DEF LeftFrom
<1>6. Len(blocks) + 1 = 1 /\ DOMAIN blocks = {}
  BY <1>1
<1>7. CutAt(F)
  BY <1>1, <1>4, <1>5, <1>6 DEF CutAt
<1> QED
  BY <1>7 DEF InPlace

LEMMA MkBlocksInPlace ==
  ASSUME Cutting, InPlace, MkBlocks
  PROVE  InPlace'
<1>1. /\ cur = <<>> /\ stms # <<>> /\ program' = program /\ blocks' = blocks
      /\ stms \in Seq(Statements) /\ blocks \in Seq(Seq(Statements)) /\ labels \in Nat
      /\ labels >= NLabels + 1 /\ program \in Programs
  BY DEF MkBlocks, Cutting
<1>2. program \in Seq(Statements) /\ NLabels \in Nat
  BY <1>1, Given, NLabelsAssumption
<1>3. PICK F : CutAt(F)
  BY DEF InPlace
<1>4. PICK x : x = F[Len(blocks) + 1]
  OBVIOUS
<1>5. LeftFrom(program, x, stms)
  BY <1>1, <1>3, <1>4 DEF CutAt
<1>6. x \in DOMAIN program /\ Head(stms) = program[x] /\ LeftFrom(program, x + 1, Tail(stms))
      /\ x \in Nat
  <2>1. DOMAIN program = 1 .. Len(program) /\ Len(program) \in Nat
    BY <1>2
  <2>2. x \in DOMAIN program /\ Head(stms) = program[x] /\ LeftFrom(program, x + 1, Tail(stms))
    BY <1>1, <1>2, <1>5, LeftOver
  <2> QED
    BY <2>1, <2>2
<1>7. Source(program, x, 1 + 1) = IF IsLabel(program[x]) THEN x + 1 ELSE x
  BY <1>6 DEF Source
<1>8. \A t : t \notin 2 .. 1
  OBVIOUS
<1>9. /\ cur' # <<>> /\ Len(cur') = 1
      /\ IF IsLabel(program[x]) THEN cur'[1] = program[x] ELSE cur'[1].label > NLabels + 1
      /\ LeftFrom(program, Source(program, x, 1 + 1), stms')
  <2>1. CASE IsLabel(Head(stms))
    <3>1. cur' = <<program[x]>> /\ stms' = Tail(stms) /\ IsLabel(program[x])
      BY <1>6, <2>1 DEF MkBlocks
    <3>2. Source(program, x, 1 + 1) = x + 1
      BY <1>7, <3>1
    <3>3. LeftFrom(program, Source(program, x, 1 + 1), stms')
      BY <1>6, <3>1, <3>2
    <3>4. cur' # <<>> /\ Len(cur') = 1 /\ cur'[1] = program[x]
      BY <3>1
    <3> QED
      BY <3>1, <3>3, <3>4
  <2>2. CASE ~IsLabel(Head(stms))
    <3>1. cur' = <<Label(labels + 1)>> /\ stms' = stms
      BY <2>2 DEF MkBlocks
    <3>2. Label(labels + 1).label > NLabels + 1
      BY <1>1, <1>2, Made
    <3> QED
      BY <1>5, <1>6, <1>7, <2>2, <3>1, <3>2
  <2> QED
    BY <2>1, <2>2
<1>10. CutFrom(program, x, cur', Len(cur'))
  BY <1>6, <1>8, <1>9 DEF CutFrom
<1>11. CutAt(F)'
  BY <1>1, <1>3, <1>4, <1>9, <1>10 DEF CutAt
<1> QED
  BY <1>11 DEF InPlace

LEMMA NextStmInPlace ==
  ASSUME Cutting, InPlace, NextStm
  PROVE  InPlace'
<1>1. /\ cur # <<>> /\ Ending = <<>> /\ cur' = Append(cur, Head(stms)) /\ stms' = Tail(stms)
      /\ program' = program /\ blocks' = blocks /\ program \in Programs
      /\ stms \in Seq(Statements) /\ cur \in Seq(Statements)
  BY DEF NextStm, Cutting
<1>2. stms # <<>>
  BY <1>1 DEF Ending
<1>3. program \in Seq(Statements)
  BY <1>1, Given
<1>4. PICK F : CutAt(F)
  BY DEF InPlace
<1>5. PICK x, n : x = F[Len(blocks) + 1] /\ n = Len(cur)
  OBVIOUS
<1>6. CutFrom(program, x, cur, n) /\ LeftFrom(program, Source(program, x, n + 1), stms)
  BY <1>1, <1>4, <1>5 DEF CutAt
<1>7. PICK y : y = Source(program, x, n + 1)
  OBVIOUS
<1>8. y \in DOMAIN program /\ Head(stms) = program[y] /\ LeftFrom(program, y + 1, Tail(stms))
  BY <1>1, <1>2, <1>3, <1>6, <1>7, LeftOver
<1>9. /\ n \in Nat \ {0} /\ x \in DOMAIN program /\ x \in Nat
  BY <1>1, <1>3, <1>5, <1>6 DEF CutFrom
<1>10. /\ Len(cur') = n + 1 /\ cur'[n + 1] = Head(stms) /\ \A i \in 1 .. n : cur'[i] = cur[i]
       /\ cur' # <<>>
  <2>1. Head(stms) \in Statements
    BY <1>1, <1>2, Heads
  <2> QED
    BY <1>1, <1>5, <2>1
<1>11. Source(program, x, n + 1 + 1) = y + 1
  <2>1. n + 1 \in Nat
    BY <1>9
  <2> QED
    BY <1>7, <1>9, <2>1, SourceNext
<1>12. CutFrom(program, x, cur', n + 1)
  <2>1. \A t \in 2 .. n + 1 : t = n + 1 \/ (t \in 2 .. n /\ t \in 1 .. n)
    BY <1>9
  <2>2. 1 \in 1 .. n
    BY <1>9
  <2> QED
    BY <1>6, <1>7, <1>8, <1>10, <2>1, <2>2 DEF CutFrom
<1>13. CutAt(F)'
  BY <1>1, <1>4, <1>5, <1>8, <1>10, <1>11, <1>12 DEF CutAt
<1> QED
  BY <1>13 DEF InPlace

LEMMA EndBlockInPlace ==
  ASSUME Cutting, InPlace, EndBlock
  PROVE  InPlace'
<1> DEFINE consumed == stms # <<>> /\ EndsBlock(Head(stms))
<1>1. /\ cur # <<>> /\ Ending # <<>> /\ blocks' = Append(blocks, cur \o Ending) /\ cur' = <<>>
      /\ stms' = IF consumed THEN Tail(stms) ELSE stms
      /\ program' = program /\ program \in Programs /\ done = NLabels + 1
      /\ stms \in Seq(Statements) /\ cur \in Seq(Statements) /\ blocks \in Seq(Seq(Statements))
  BY DEF EndBlock, Cutting
<1>2. program \in Seq(Statements) /\ NLabels \in Nat
  BY <1>1, Given, NLabelsAssumption
<1>3. PICK F : CutAt(F)
  BY DEF InPlace
<1>4. PICK x, n, L : x = F[Len(blocks) + 1] /\ n = Len(cur) /\ L = Len(blocks)
  OBVIOUS
<1>5. CutFrom(program, x, cur, n) /\ LeftFrom(program, Source(program, x, n + 1), stms)
  BY <1>1, <1>3, <1>4 DEF CutAt
<1>6. PICK y : y = Source(program, x, n + 1)
  OBVIOUS
<1>7. /\ stms = <<>> => y = Len(program) + 1
      /\ stms # <<>> => /\ y \in DOMAIN program /\ Head(stms) = program[y]
                        /\ LeftFrom(program, y + 1, Tail(stms))
  BY <1>1, <1>2, <1>5, <1>6, LeftOver
<1>8. /\ n \in Nat \ {0} /\ x \in DOMAIN program /\ x \in Nat /\ L \in Nat
      /\ DOMAIN blocks = 1 .. L
  BY <1>1, <1>2, <1>4, <1>5 DEF CutFrom
<1>9. PICK e, z : /\ Ending = <<e>> /\ e \in Statements /\ LeftFrom(program, z, stms')
                  /\ \/ y \in DOMAIN program /\ EndsBlock(program[y]) /\ e = program[y] /\ z = y + 1
                     \/ y \in DOMAIN program /\ IsLabel(program[y]) /\ e = Jump(program[y].label)
                        /\ z = y
                     \/ y = Len(program) + 1 /\ e = Jump(NLabels + 1) /\ z = y
  <2>1. CASE consumed
    <3>1. Ending = <<Head(stms)>> /\ stms' = Tail(stms) /\ Head(stms) \in Statements
      BY <1>1, <2>1, Heads DEF Ending
    <3> QED
      BY <1>7, <2>1, <3>1
  <2>2. CASE stms # <<>> /\ ~EndsBlock(Head(stms))
    <3>1. IsLabel(Head(stms)) /\ Ending = <<Jump(Head(stms).label)>> /\ stms' = stms
      BY <1>1, <2>2 DEF Ending
    <3>2. Head(stms).label \in Nat
      <4>1. Head(stms) \in Statements
        BY <1>1, <2>2, Heads
      <4> QED
        BY <3>1, <4>1, Kinds DEF IsLabel
    <3> QED
      BY <1>5, <1>6, <1>7, <2>2, <3>1, <3>2, Made
  <2>3. CASE stms = <<>>
    <3>1. Ending = <<Jump(NLabels + 1)>> /\ stms' = stms
      BY <1>1, <2>3 DEF Ending
    <3>2. NLabels + 1 \in Nat
      BY <1>2
    <3> QED
      BY <1>5, <1>6, <1>7, <2>3, <3>1, <3>2, Made
  <2> QED
    BY <2>1, <2>2, <2>3
<1>10. PICK c : c = cur \o Ending
  OBVIOUS
<1>11. /\ c \in Seq(Statements) /\ Len(c) = n + 1 /\ c[n + 1] = e
       /\ \A i \in 1 .. n : c[i] = cur[i]
  BY <1>1, <1>4, <1>9, <1>10
<1>12. CutTo(program, x, c, z)
  <2>1. CutFrom(program, x, c, Len(c) - 1)
    <3>1. \A t \in 2 .. n : t \in 1 .. n
      BY <1>8
    <3>2. 1 \in 1 .. n /\ Len(c) - 1 = n
      BY <1>8, <1>11
    <3>3. c[1] = cur[1] /\ \A t \in 2 .. n : c[t] = cur[t]
      BY <1>11, <3>1, <3>2
    <3>4. CutFrom(program, x, c, n)
      BY <1>5, <3>3 DEF CutFrom
    <3> QED
      BY <3>2, <3>4
  <2> QED
    BY <1>6, <1>9, <1>11, <2>1 DEF CutTo
<1>13. z \in Positions(program)
  BY <1>9 DEF LeftFrom
<1> DEFINE G == [b \in 1 .. L + 2 |-> IF b <= L + 1 THEN F[b] ELSE z]
<1>14. F \in [1 .. L + 1 -> Positions(program)] /\ F[1] = 1
  BY <1>3, <1>4 DEF CutAt
<1>15. /\ G \in [1 .. L + 2 -> Positions(program)] /\ G[L + 2] = z
       /\ \A b \in 1 .. L + 1 : G[b] = F[b]
  BY <1>8, <1>13, <1>14
<1> HIDE DEF G
<1>16. /\ Len(blocks') = L + 1 /\ DOMAIN blocks' = 1 .. L + 1 /\ blocks'[L + 1] = c
       /\ \A b \in 1 .. L : blocks'[b] = blocks[b]
  BY <1>1, <1>4, <1>8, <1>10, <1>11
<1>17. ASSUME NEW b \in 1 .. L + 1 PROVE CutTo(program, G[b], blocks'[b], G[b + 1])
  <2>1. CASE b = L + 1
    <3>1. b + 1 = L + 2 /\ G[b] = x
      BY <1>4, <1>8, <1>15, <2>1
    <3> QED
      BY <1>12, <1>15, <1>16, <2>1, <3>1
  <2>2. CASE b # L + 1
    <3>1. b \in 1 .. L /\ b \in 1 .. L + 1 /\ b + 1 \in 1 .. L + 1
      BY <1>8, <2>2
    <3>2. CutTo(program, F[b], blocks[b], F[b + 1])
      BY <1>3, <1>8, <3>1 DEF CutAt
    <3> QED
      BY <1>15, <1>16, <3>1, <3>2
  <2> QED
    BY <2>1, <2>2
<1>18. L + 1 + 1 = L + 2 /\ 1 \in 1 .. L + 1
  BY <1>8
<1>19. CutAt(G)'
  BY <1>1, <1>9, <1>14, <1>15, <1>16, <1>17, <1>18 DEF CutAt
<1> QED
  BY <1>19 DEF InPlace

LEMMA InPlaceStep ==
  ASSUME Cutting, InPlace, [Next]_vars
  PROVE  InPlace'
<1>1. CASE MkBlocks
  BY <1>1, MkBlocksInPlace
<1>2. CASE NextStm
  BY <1>2, NextStmInPlace
<1>3. CASE EndBlock
  BY <1>3, EndBlockInPlace
<1>4. CASE ~(MkBlocks \/ NextStm \/ EndBlock)
  <2>1. program' = program /\ stms' = stms /\ cur' = cur /\ blocks' = blocks
    BY <1>4 DEF Next, Schedule, GetNextExit, GetNextBlock, GetNextSkip, TraceJump,
                TraceJumpBack, TraceCjumpFalse, TraceCjumpTrue, TraceCjumpNeither, Trace,
                Terminating, vars, cutting
  <2> QED
    BY <2>1 DEF InPlace, CutAt
<1> QED
  BY <1>1, <1>2, <1>3, <1>4

-------------------------------------------------------------------------------
LEMMA Swapping ==
  ASSUME NEW s \in Statements, s.kind = "CJUMP"
  PROVE  /\ Swapped(s) \in Statements /\ Swapped(s).kind = "CJUMP" /\ Swapped(s).id = s.id
         /\ Swapped(s).truee = s.falsee /\ Swapped(s).falsee = s.truee
         /\ Swapped(s).negated = ~s.negated /\ s.truee \in Nat /\ s.falsee \in Nat
         /\ s.negated \in BOOLEAN
<1>1. s \in [kind : {"CJUMP"}, id : Ids, truee : Nat, falsee : Nat, negated : BOOLEAN]
  BY Kinds
<1> QED
  BY <1>1 DEF Swapped, Statements

(* Once the program is cut up: the last position is the exit's, and the    *)
(* blocks are where their statements are.                                  *)
LEMMA WhereBlocksAre ==
  ASSUME Cutting, cur = <<>>, stms = <<>>, NEW F, CutAt(F)
  PROVE  /\ program \in Seq(Statements) /\ NLabels \in Nat /\ Len(program) \in Nat
         /\ DOMAIN program = 1 .. Len(program)
         /\ F[Len(blocks) + 1] = Len(program) + 1 /\ F[1] = 1
         /\ \A b \in DOMAIN blocks :
              /\ b \in 1 .. Len(blocks) + 1 /\ b + 1 \in 1 .. Len(blocks) + 1
              /\ F[b] \in DOMAIN program /\ F[b] \in Nat
              /\ CutTo(program, F[b], blocks[b], F[b + 1])
         /\ \A b \in 1 .. Len(blocks) + 1 : /\ F[b] \in Positions(program)
                                            /\ F[b] \in DOMAIN program => b \in DOMAIN blocks
<1>1. program \in Seq(Statements) /\ NLabels \in Nat
  BY Given, NLabelsAssumption DEF Cutting
<1>2. Len(program) \in Nat /\ DOMAIN program = 1 .. Len(program)
  BY <1>1
<1>3. /\ F \in [1 .. Len(blocks) + 1 -> Positions(program)] /\ F[1] = 1
      /\ \A b \in DOMAIN blocks : CutTo(program, F[b], blocks[b], F[b + 1])
      /\ LeftFrom(program, F[Len(blocks) + 1], stms)
  BY DEF CutAt
<1>4. F[Len(blocks) + 1] = Len(program) + 1
  <2>1. <<>> \in Seq(Statements)
    OBVIOUS
  <2> QED
    BY <1>1, <1>3, <2>1, LeftOver
<1>5. DOMAIN blocks = 1 .. Len(blocks) /\ Len(blocks) \in Nat
  BY LabelsOfBlocks
<1>6. \A b \in DOMAIN blocks : /\ b \in 1 .. Len(blocks) + 1 /\ b + 1 \in 1 .. Len(blocks) + 1
  BY <1>5
<1>7. \A b \in DOMAIN blocks : F[b] \in DOMAIN program /\ F[b] \in Nat
  BY <1>2, <1>3 DEF CutTo, CutFrom
<1>8. ASSUME NEW b \in 1 .. Len(blocks) + 1
      PROVE  /\ F[b] \in Positions(program)
             /\ F[b] \in DOMAIN program => b \in DOMAIN blocks
  <2>1. b = Len(blocks) + 1 \/ b \in 1 .. Len(blocks)
    BY <1>5
  <2>2. Len(program) + 1 \notin 1 .. Len(program)
    BY <1>2
  <2> QED
    BY <1>2, <1>3, <1>4, <1>5, <2>1, <2>2
<1> QED
  BY <1>1, <1>2, <1>3, <1>4, <1>6, <1>7, <1>8

(* Two blocks that begin at the same position are one.                     *)
LEMMA OneBlockAt ==
  ASSUME Cutting, cur = <<>>, stms = <<>>, NEW F, CutAt(F),
         NEW b \in DOMAIN blocks, NEW c \in DOMAIN blocks, F[b] = F[c], IsLabel(program[F[b]])
  PROVE  b = c
<1>1. /\ CutFrom(program, F[b], blocks[b], Len(blocks[b]) - 1)
      /\ CutFrom(program, F[c], blocks[c], Len(blocks[c]) - 1)
  BY WhereBlocksAre DEF CutTo
<1>2. blocks[b][1] = blocks[c][1]
  BY <1>1 DEF CutFrom
<1> QED
  BY <1>2, LabelsOfBlocks DEF BlockLabel

(* A conditional jump ends a block whose successor in the list is one of   *)
(* its targets, and nobody else's.                                         *)
LastOf(b) == blocks[b][Len(blocks[b])]

OwnBlockBehind ==
  \A b \in DOMAIN blocks :
    LastOf(b).kind = "CJUMP" =>
      /\ b + 1 \in DOMAIN blocks
      /\ BlockLabel(b + 1) \in Targets(LastOf(b))
      /\ \A c \in DOMAIN blocks : BlockLabel(b + 1) \in Targets(LastOf(c)) => c = b

LEMMA OwnBlocks ==
  ASSUME Cutting, cur = <<>>, stms = <<>>, InPlace, OwnLabelBehind(program)
  PROVE  OwnBlockBehind
<1>1. PICK F : CutAt(F)
  BY DEF InPlace
<1>2. /\ program \in Seq(Statements) /\ program \in Programs /\ NLabels \in Nat
      /\ Len(program) \in Nat /\ DOMAIN program = 1 .. Len(program)
      /\ F[Len(blocks) + 1] = Len(program) + 1
      /\ \A b \in DOMAIN blocks :
           /\ b \in 1 .. Len(blocks) + 1 /\ b + 1 \in 1 .. Len(blocks) + 1
           /\ F[b] \in DOMAIN program /\ F[b] \in Nat
           /\ CutTo(program, F[b], blocks[b], F[b + 1])
      /\ \A b \in 1 .. Len(blocks) + 1 : F[b] \in DOMAIN program => b \in DOMAIN blocks
  BY <1>1, WhereBlocksAre DEF Cutting
<1>3. \A b \in DOMAIN blocks : Len(blocks[b]) \in DOMAIN blocks[b]
  BY LabelsOfBlocks
<1> DEFINE End(b) == Source(program, F[b], Len(blocks[b]))
<1>4. ASSUME NEW b \in DOMAIN blocks
      PROVE  \/ /\ End(b) \in DOMAIN program /\ EndsBlock(program[End(b)])
                /\ LastOf(b) = program[End(b)] /\ F[b + 1] = End(b) + 1
             \/ /\ End(b) \in DOMAIN program /\ IsLabel(program[End(b)])
                /\ LastOf(b) = Jump(program[End(b)].label) /\ F[b + 1] = End(b)
             \/ LastOf(b) = Jump(NLabels + 1)
  BY <1>2 DEF CutTo, LastOf
<1> HIDE DEF End
<1>5. \A i \in DOMAIN program : IsLabel(program[i]) => program[i].label \in 1 .. NLabels
  BY <1>2, Given
<1>6. ASSUME NEW b \in DOMAIN blocks, LastOf(b).kind = "CJUMP"
      PROVE  /\ b + 1 \in DOMAIN blocks /\ F[b + 1] = End(b) + 1
             /\ End(b) \in DOMAIN program /\ LastOf(b) = program[End(b)]
             /\ End(b) + 1 \in DOMAIN program /\ IsLabel(program[End(b) + 1])
             /\ BlockLabel(b + 1) = program[End(b) + 1].label
             /\ program[End(b) + 1].label \in Targets(LastOf(b))
             /\ \A j \in DOMAIN program \ {End(b)} :
                  program[End(b) + 1].label \notin Targets(program[j])
  <2>1. /\ End(b) \in DOMAIN program /\ LastOf(b) = program[End(b)] /\ F[b + 1] = End(b) + 1
    BY <1>4, <1>6, Made
  <2>2. /\ End(b) < Len(program) /\ IsLabel(program[End(b) + 1])
        /\ program[End(b) + 1].label \in Targets(program[End(b)])
        /\ \A j \in DOMAIN program \ {End(b)} :
             program[End(b) + 1].label \notin Targets(program[j])
    BY <1>6, <2>1 DEF OwnLabelBehind
  <2>3. End(b) + 1 \in DOMAIN program
    BY <1>2, <2>1, <2>2
  <2>4. b + 1 \in DOMAIN blocks
    BY <1>2, <2>1, <2>3
  <2>5. BlockLabel(b + 1) = program[End(b) + 1].label
    <3>1. CutFrom(program, F[b + 1], blocks[b + 1], Len(blocks[b + 1]) - 1)
      BY <1>2, <2>4 DEF CutTo
    <3> QED
      BY <2>1, <2>2, <3>1 DEF CutFrom, BlockLabel
  <2> QED
    BY <2>1, <2>2, <2>3, <2>4, <2>5
<1>7. ASSUME NEW b \in DOMAIN blocks, LastOf(b).kind = "CJUMP",
             NEW c \in DOMAIN blocks, BlockLabel(b + 1) \in Targets(LastOf(c))
      PROVE  c = b
  <2>1. PICK n : n = program[End(b) + 1].label
    OBVIOUS
  <2>2. BlockLabel(b + 1) = n /\ n \in 1 .. NLabels
    BY <1>5, <1>6, <1>7, <2>1
  <2>3. CASE /\ End(c) \in DOMAIN program /\ EndsBlock(program[End(c)])
             /\ LastOf(c) = program[End(c)]
    <3>1. End(c) = End(b)
      BY <1>6, <1>7, <2>1, <2>2, <2>3
    <3>2. LastOf(c) = LastOf(b)
      BY <1>6, <1>7, <2>3, <3>1
    <3>3. Same(LastOf(c), LastOf(b))
      BY <1>7, <3>2, Sameness DEF Counted, HasEffect
    <3> QED
      BY <1>3, <3>3, BlocksHold DEF LastOf
  <2>4. CASE /\ End(c) \in DOMAIN program /\ IsLabel(program[End(c)])
             /\ LastOf(c) = Jump(program[End(c)].label) /\ F[c + 1] = End(c)
    <3>1. program[End(c)].label = n
      BY <1>7, <2>2, <2>4, Made DEF Targets
    <3>2. Same(program[End(c)], program[End(b) + 1])
      BY <1>6, <1>7, <2>1, <2>4, <3>1 DEF Same
    <3>3. End(c) = End(b) + 1
      BY <1>2, <1>6, <1>7, <2>4, <3>2, Given
    <3>4. F[c + 1] = F[b + 1] /\ c + 1 \in DOMAIN blocks /\ b + 1 \in DOMAIN blocks
          /\ IsLabel(program[F[b + 1]])
      BY <1>2, <1>6, <1>7, <2>4, <3>3
    <3>5. c + 1 = b + 1
      BY <1>1, <3>4, OneBlockAt
    <3> QED
      BY <3>5, LabelsOfBlocks
  <2>5. CASE LastOf(c) = Jump(NLabels + 1)
    <3>1. n = NLabels + 1
      BY <1>7, <2>2, <2>5, Made DEF Targets
    <3> QED
      BY <1>2, <2>2, <3>1
  <2> QED
    BY <1>4, <2>3, <2>4, <2>5
<1> QED
  BY <1>6, <1>7 DEF OwnBlockBehind

-------------------------------------------------------------------------------
(* The block c is in o behind the first d statements: its statements are   *)
(* there, the last one perhaps turned round, or a jump that is not is      *)
(* replaced by its label, there or the one that is next.                   *)
Lies(o, c, d, next) ==
  /\ \A t \in 1 .. Len(c) - 1 : d + t \in DOMAIN o /\ o[d + t] = c[t]
  /\ LET e == c[Len(c)]
         z == d + Len(c)
     IN  \/ z \in DOMAIN o /\ o[z] = e
         \/ z \in DOMAIN o /\ e.kind = "CJUMP" /\ o[z] = Swapped(e)
         \/ z \in DOMAIN o /\ e.kind = "JUMP" /\ o[z] = Label(e.label)
         \/ z = Len(o) + 1 /\ e.kind = "JUMP" /\ e.label \in next

LEMMA LiesOn ==
  ASSUME NEW o \in Seq(Statements), NEW x \in Seq(Statements), NEW c \in Seq(Statements),
         NEW d \in Nat, NEW next, Lies(o, c, d, next),
         \A n \in next : x # <<>> /\ x[1] = Label(n)
  PROVE  \A new : Lies(o \o x, c, d, new)
<1> TAKE new
<1>1. PICK p : p = o \o x
  OBVIOUS
<1>2. /\ Len(o) \in Nat /\ Len(x) \in Nat /\ DOMAIN x = 1 .. Len(x)
      /\ \A i \in DOMAIN o : i \in DOMAIN p /\ p[i] = o[i]
      /\ \A i \in DOMAIN x : Len(o) + i \in DOMAIN p /\ p[Len(o) + i] = x[i]
  BY <1>1, Sequel, SMTT(30)
<1>3. x # <<>> => 1 \in DOMAIN x
  BY <1>2
<1> QED
  BY <1>1, <1>2, <1>3 DEF Lies

LEMMA LiesBehind ==
  ASSUME NEW o \in Seq(Statements), NEW x \in Seq(Statements), NEW c \in Seq(Statements),
         NEW next, Lies(x, c, 0, next)
  PROVE  Lies(o \o x, c, Len(o), next)
<1>1. PICK p : p = o \o x
  OBVIOUS
<1>2. /\ Len(o) \in Nat /\ Len(x) \in Nat /\ Len(p) = Len(o) + Len(x) /\ Len(c) \in Nat
      /\ \A i \in DOMAIN x : Len(o) + i \in DOMAIN p /\ p[Len(o) + i] = x[i]
  BY <1>1, Sequel
<1>3. \A t \in 1 .. Len(c) - 1 : t \in DOMAIN x /\ x[t] = c[t]
  BY DEF Lies
<1>4. PICK e, z : e = c[Len(c)] /\ z = Len(c)
  OBVIOUS
<1>5. \/ z \in DOMAIN x /\ x[z] = e
      \/ z \in DOMAIN x /\ e.kind = "CJUMP" /\ x[z] = Swapped(e)
      \/ z \in DOMAIN x /\ e.kind = "JUMP" /\ x[z] = Label(e.label)
      \/ z = Len(x) + 1 /\ e.kind = "JUMP" /\ e.label \in next
  BY <1>2, <1>4 DEF Lies
<1>6. z = Len(x) + 1 => Len(o) + z = Len(p) + 1
  BY <1>2
<1> QED
  BY <1>1, <1>2, <1>3, <1>4, <1>5, <1>6 DEF Lies

(* Of the blocks after a conditional jump none is traced before the jump   *)
(* is.                                                                     *)
InTurn ==
  \A b \in DOMAIN blocks :
    /\ LastOf(b).kind = "CJUMP"
    /\ env[BlockLabel(b + 1)] = 0 \/ target = b + 1
    => env[BlockLabel(b)] = 0

Awaited == IF target = 0 THEN {} ELSE {BlockLabel(target)}

TracedLie ==
  \A b \in DOMAIN blocks :
    env[BlockLabel(b)] = 0 => \E d \in Nat : Lies(out, blocks[b], d, Awaited)

(* The first block is the first to be traced.                              *)
FirstFirst ==
  IF out = <<>> THEN \/ target = 1
                     \/ target = 0 /\ sList = 1 /\ \A b \in DOMAIN blocks : env[BlockLabel(b)] # 0
  ELSE out[1] = blocks[1][1]

Keeping ==
  OwnLabelBehind(program) /\ phase # "blocks" => InTurn /\ TracedLie /\ FirstFirst

(* One step of trace.                                                      *)
LEMMA TraceKeeps ==
  ASSUME Sched, InPlace, Keeping, OwnLabelBehind(program), Trace,
         NEW x \in Seq(Statements), x # <<>>, x[1] = blocks[target][1], out' = out \o x,
         Lies(x, blocks[target], 0, Awaited'),
         \/ target' = 0
         \/ \E n \in Targets(LastStm) : IsUntraced(n) /\ target' = EnvMarked[n]
  PROVE  Keeping'
<1>1. /\ phase = "schedule" /\ target # 0 /\ env' = EnvMarked /\ program' = program
      /\ phase' = phase /\ blocks' = blocks /\ sList' = sList
  BY DEF Trace, cutting
<1>2. /\ target \in DOMAIN blocks /\ Known /\ Cutting /\ cur = <<>> /\ stms = <<>>
      /\ out \in Seq(Statements)
  BY <1>1 DEF Sched, Scheduling, Known
<1>3. InTurn /\ TracedLie /\ FirstFirst /\ OwnBlockBehind
  BY <1>1, <1>2, OwnBlocks DEF Keeping
<1>4. /\ \A b \in DOMAIN blocks :
           EnvMarked[BlockLabel(b)] = IF b = target THEN 0 ELSE env[BlockLabel(b)]
      /\ \A n \in Nat : IsUntraced(n) =>
           EnvMarked[n] \in DOMAIN blocks /\ BlockLabel(EnvMarked[n]) = n
  BY <1>1, EnvAfter
<1>5. /\ \A b \in DOMAIN blocks : blocks[b] \in Seq(Statements) /\ BlockLabel(b) \in Nat
      /\ \A b \in DOMAIN blocks : blocks[b][1] = Label(BlockLabel(b))
      /\ DOMAIN blocks = 1 .. Len(blocks)
      /\ \A b, c \in DOMAIN blocks : BlockLabel(b) = BlockLabel(c) => b = c
  BY <1>2, LabelsOfBlocks
<1>6. \A b : BlockLabel(b)' = BlockLabel(b) /\ LastOf(b)' = LastOf(b)
  BY <1>1 DEF BlockLabel, LastOf
<1>7. LastStm = LastOf(target)
  BY DEF LastStm, LastOf, Last
<1>8. InTurn'
  <2>1. ASSUME NEW b \in DOMAIN blocks, LastOf(b).kind = "CJUMP",
               EnvMarked[BlockLabel(b + 1)] = 0 \/ target' = b + 1
        PROVE  EnvMarked[BlockLabel(b)] = 0
    <3>1. /\ b + 1 \in DOMAIN blocks
          /\ \A c \in DOMAIN blocks : BlockLabel(b + 1) \in Targets(LastOf(c)) => c = b
      BY <1>3, <2>1 DEF OwnBlockBehind
    <3>2. CASE EnvMarked[BlockLabel(b + 1)] = 0
      <4>1. env[BlockLabel(b + 1)] = 0 \/ target = b + 1
        BY <1>4, <3>1, <3>2
      <4>2. env[BlockLabel(b)] = 0
        BY <1>3, <2>1, <4>1 DEF InTurn
      <4> QED
        BY <1>4, <4>2
    <3>3. CASE target' = b + 1
      <4>1. PICK n \in Targets(LastStm) : IsUntraced(n) /\ target' = EnvMarked[n]
        BY <1>5, <3>1, <3>3
      <4>2. n \in Nat
        <5>1. LastStm \in Statements
          BY TheBlock
        <5> QED
          BY <5>1, Kinds DEF Targets
      <4>3. BlockLabel(b + 1) = n
        BY <1>4, <3>3, <4>1, <4>2
      <4>4. target = b
        BY <1>2, <1>7, <3>1, <4>1, <4>3
      <4> QED
        BY <1>4, <4>4
    <3> QED
      BY <2>1, <3>2, <3>3
  <2> QED
    BY <1>1, <1>6, <2>1 DEF InTurn
<1>9. TracedLie'
  <2>1. \A n \in Awaited : x # <<>> /\ x[1] = Label(n)
    BY <1>2, <1>5 DEF Awaited
  <2>2. PICK next, o : next = Awaited' /\ o = out'
    OBVIOUS
  <2>3. ASSUME NEW b \in DOMAIN blocks, EnvMarked[BlockLabel(b)] = 0
        PROVE  \E d \in Nat : Lies(o, blocks[b], d, next)
    <3>1. CASE b = target
      <4>1. Lies(o, blocks[b], Len(out), next)
        BY <1>2, <1>5, <2>2, <3>1, LiesBehind
      <4> QED
        BY <1>2, <4>1
    <3>2. CASE b # target
      <4>1. env[BlockLabel(b)] = 0
        BY <1>4, <2>3, <3>2
      <4>2. PICK d \in Nat : Lies(out, blocks[b], d, Awaited)
        BY <1>3, <4>1 DEF TracedLie
      <4>3. Lies(o, blocks[b], d, next)
        BY <1>2, <1>5, <2>1, <2>2, <4>2, LiesOn
      <4> QED
        BY <4>3
    <3> QED
      BY <3>1, <3>2
  <2> QED
    BY <1>1, <1>6, <2>2, <2>3 DEF TracedLie
<1>10. FirstFirst'
  <2>1. PICK o : o = out'
    OBVIOUS
  <2>2. /\ Len(out) \in Nat /\ Len(x) \in Nat
        /\ DOMAIN x = 1 .. Len(x) /\ DOMAIN out = 1 .. Len(out)
        /\ \A i \in DOMAIN out : o[i] = out[i]
        /\ \A i \in DOMAIN x : o[Len(out) + i] = x[i]
        /\ Len(o) = Len(out) + Len(x)
    BY <1>2, <2>1, Sequel
  <2>3. o # <<>> /\ 1 \in DOMAIN x
    BY <2>2
  <2>4. CASE out = <<>>
    <3>1. target = 1 /\ Len(out) = 0
      BY <1>1, <1>3, <2>4 DEF FirstFirst
    <3>2. o[1] = x[1]
      BY <2>2, <2>3, <3>1
    <3> QED
      BY <1>1, <2>1, <2>3, <3>1, <3>2 DEF FirstFirst
  <2>5. CASE out # <<>>
    <3>1. 1 \in DOMAIN out
      BY <2>2, <2>5
    <3> QED
      BY <1>1, <1>3, <2>1, <2>2, <2>3, <2>5, <3>1 DEF FirstFirst
  <2> QED
    BY <2>4, <2>5
<1> QED
  BY <1>8, <1>9, <1>10 DEF Keeping

LEMMA TraceJumpKeeps ==
  ASSUME Sched, InPlace, Keeping, OwnLabelBehind(program), TraceJump
  PROVE  Keeping'
<1>1. PICK b, x : b = blocks[target] /\ x = Front(b)
  OBVIOUS
<1>2. /\ Trace /\ LastStm.kind = "JUMP" /\ IsUntraced(LastStm.label) /\ out' = out \o x
      /\ target' = EnvMarked[LastStm.label] /\ blocks' = blocks
  BY <1>1 DEF TraceJump, Trace, cutting
<1>3. /\ b \in Seq(Statements) /\ Len(b) \in Nat /\ Len(b) >= 2 /\ DOMAIN b = 1 .. Len(b)
      /\ x \in Seq(Statements) /\ Len(x) = Len(b) - 1 /\ DOMAIN x = 1 .. Len(b) - 1
      /\ \A i \in 1 .. Len(b) - 1 : x[i] = b[i]
      /\ LastStm = b[Len(b)] /\ LastStm \in Statements
  BY <1>1, <1>2, TheBlock
<1>4. LastStm.label \in Nat /\ LastStm.label \in Targets(LastStm)
  BY <1>2, <1>3, Kinds DEF Targets
<1>5. LastStm.label \in Awaited'
  <2>1. /\ EnvMarked[LastStm.label] \in DOMAIN blocks
        /\ BlockLabel(EnvMarked[LastStm.label]) = LastStm.label
    BY <1>2, <1>4, EnvAfter DEF Trace
  <2>2. target' # 0 /\ BlockLabel(target)' = LastStm.label
    BY <1>2, <2>1 DEF IsUntraced, BlockLabel
  <2> QED
    BY <2>2 DEF Awaited
<1>6. PICK next : next = Awaited'
  OBVIOUS
<1>7. Lies(x, b, 0, next)
  <2>1. \A t \in 1 .. Len(b) - 1 : 0 + t = t
    OBVIOUS
  <2>2. 0 + Len(b) = Len(x) + 1
    BY <1>3
  <2> QED
    BY <1>2, <1>3, <1>5, <1>6, <2>1, <2>2 DEF Lies
<1>8. x # <<>> /\ x[1] = b[1]
  BY <1>3
<1> QED
  BY <1>1, <1>2, <1>3, <1>4, <1>6, <1>7, <1>8, TraceKeeps

(* A block laid out whole.                                                 *)
LEMMA WholeKeeps ==
  ASSUME Sched, InPlace, Keeping, OwnLabelBehind(program), TraceJumpBack \/ TraceCjumpFalse
  PROVE  Keeping'
<1>1. PICK b : b = blocks[target]
  OBVIOUS
<1>2. /\ Trace /\ out' = out \o b
      /\ \/ target' = 0
         \/ \E n \in Targets(LastStm) : IsUntraced(n) /\ target' = EnvMarked[n]
  BY <1>1 DEF TraceJumpBack, TraceCjumpFalse, Targets
<1>3. /\ b \in Seq(Statements) /\ Len(b) \in Nat /\ Len(b) >= 2 /\ DOMAIN b = 1 .. Len(b)
  BY <1>1, <1>2, TheBlock
<1>4. \A next : Lies(b, b, 0, next)
  <2>1. \A t \in 1 .. Len(b) - 1 : 0 + t \in 1 .. Len(b) /\ 0 + t = t
    BY <1>3
  <2>2. 0 + Len(b) = Len(b) /\ Len(b) \in 1 .. Len(b)
    BY <1>3
  <2> QED
    BY <1>3, <2>1, <2>2 DEF Lies
<1>5. b # <<>>
  BY <1>3
<1> QED
  BY <1>1, <1>2, <1>3, <1>4, <1>5, TraceKeeps

LEMMA TraceCjumpTrueKeeps ==
  ASSUME Sched, InPlace, Keeping, OwnLabelBehind(program), TraceCjumpTrue
  PROVE  Keeping'
<1>1. PICK b, f, e, x : /\ b = blocks[target] /\ f = Front(b) /\ e = Swapped(LastStm)
                        /\ x = Append(f, e)
  OBVIOUS
<1>2. /\ Trace /\ LastStm.kind = "CJUMP" /\ IsUntraced(LastStm.truee)
      /\ out' = Append(out \o f, e) /\ target' = EnvMarked[LastStm.truee]
  BY <1>1 DEF TraceCjumpTrue
<1>3. /\ b \in Seq(Statements) /\ Len(b) \in Nat /\ Len(b) >= 2 /\ DOMAIN b = 1 .. Len(b)
      /\ f \in Seq(Statements) /\ Len(f) = Len(b) - 1
      /\ DOMAIN f = 1 .. Len(b) - 1 /\ \A i \in 1 .. Len(b) - 1 : f[i] = b[i]
      /\ LastStm = b[Len(b)] /\ LastStm \in Statements /\ out \in Seq(Statements)
  BY <1>1, <1>2, TheBlock
<1>4. e \in Statements
  BY <1>1, <1>2, <1>3, Swapping
<1>5. out' = out \o x
  <2>1. <<e>> \in Seq(Statements) /\ out \o f \in Seq(Statements)
    BY <1>3, <1>4
  <2>2. out' = (out \o f) \o <<e>> /\ x = f \o <<e>>
    BY <1>1, <1>2, <1>3, <1>4, <2>1, AppendIsConcat
  <2>3. (out \o f) \o <<e>> = out \o (f \o <<e>>)
    <3>1. out \in Seq(Statements) /\ f \in Seq(Statements)
      BY <1>3
    <3> QED
      BY <2>1, <3>1, ConcatAssociative
  <2> QED
    BY <2>2, <2>3, Zenon
<1>6. /\ x \in Seq(Statements) /\ Len(x) = Len(b) /\ DOMAIN x = 1 .. Len(b)
      /\ x[Len(b)] = e /\ \A i \in 1 .. Len(b) - 1 : x[i] = b[i]
  BY <1>1, <1>3, <1>4
<1>7. \A next : Lies(x, b, 0, next)
  <2>1. \A t \in 1 .. Len(b) - 1 : 0 + t \in 1 .. Len(b) /\ 0 + t = t
    BY <1>3
  <2>2. 0 + Len(b) = Len(b) /\ Len(b) \in 1 .. Len(b)
    BY <1>3
  <2> QED
    BY <1>1, <1>2, <1>3, <1>6, <2>1, <2>2 DEF Lies
<1>8. x # <<>> /\ x[1] = b[1]
  BY <1>3, <1>6
<1>9. LastStm.truee \in Targets(LastStm)
  BY <1>2 DEF Targets
<1> QED
  BY <1>1, <1>2, <1>5, <1>6, <1>7, <1>8, <1>9, TraceKeeps

(* A conditional jump from translate.c never finds both its blocks traced. *)
LEMMA NeverNeither ==
  ASSUME Sched, InPlace, Keeping, OwnLabelBehind(program), TraceCjumpNeither
  PROVE  FALSE
<1>1. /\ Trace /\ LastStm.kind = "CJUMP" /\ ~IsUntraced(LastStm.falsee)
      /\ ~IsUntraced(LastStm.truee) /\ phase = "schedule" /\ target # 0
  BY DEF TraceCjumpNeither, Trace
<1>2. /\ target \in DOMAIN blocks /\ Known /\ Cutting /\ cur = <<>> /\ stms = <<>>
      /\ env[BlockLabel(target)] = target
  BY <1>1 DEF Sched, Scheduling, Known
<1>3. InTurn /\ OwnBlockBehind
  BY <1>1, <1>2, OwnBlocks DEF Keeping
<1>4. LastStm = LastOf(target)
  BY DEF LastStm, LastOf, Last
<1>5. /\ target + 1 \in DOMAIN blocks /\ BlockLabel(target + 1) \in Targets(LastStm)
      /\ env[BlockLabel(target + 1)] # 0
  BY <1>1, <1>2, <1>3, <1>4 DEF OwnBlockBehind, InTurn
<1>6. target + 1 # target
  BY <1>2, LabelsOfBlocks
<1>7. /\ EnvMarked[BlockLabel(target + 1)] # 0 /\ DOMAIN EnvMarked = DOMAIN env
  BY <1>1, <1>5, <1>6, EnvAfter
<1>8. IsUntraced(BlockLabel(target + 1))
  BY <1>2, <1>5, <1>7 DEF IsUntraced, Known
<1> QED
  BY <1>1, <1>5, <1>8 DEF Targets

LEMMA ScheduleKeeps ==
  ASSUME Sched, InPlace, Schedule
  PROVE  Keeping'
<1>1. /\ phase = "blocks" /\ out' = out /\ target' = target /\ sList' = sList /\ blocks' = blocks
      /\ cur = <<>> /\ stms = <<>> /\ program' = program
      /\ env' = [n \in {BlockLabel(b) : b \in DOMAIN blocks} |->
                   CHOOSE b \in DOMAIN blocks : BlockLabel(b) = n]
  BY DEF Schedule, cutting
<1>2. out = <<>> /\ target = 0 /\ sList = 1 /\ Cutting
  BY <1>1 DEF Sched, Scheduling
<1>3. DOMAIN blocks = 1 .. Len(blocks)
      /\ \A b, c \in DOMAIN blocks : BlockLabel(b) = BlockLabel(c) => b = c
  BY <1>1, <1>2, LabelsOfBlocks
<1>4. \A b \in DOMAIN blocks : env'[BlockLabel(b)] = b
  <2> TAKE b \in DOMAIN blocks
  <2>1. env'[BlockLabel(b)] = CHOOSE c \in DOMAIN blocks : BlockLabel(c) = BlockLabel(b)
    BY <1>1
  <2>2. \A c \in DOMAIN blocks : BlockLabel(c) = BlockLabel(b) <=> c = b
    BY <1>3
  <2> QED
    BY <2>1, <2>2
<1>5. \A b : BlockLabel(b)' = BlockLabel(b) /\ LastOf(b)' = LastOf(b)
  BY <1>1 DEF BlockLabel, LastOf
<1>6. \A b \in DOMAIN blocks : b # 0 /\ env'[BlockLabel(b)] # 0
  BY <1>3, <1>4
<1>7. FirstFirst' /\ TracedLie'
  BY <1>1, <1>2, <1>5, <1>6 DEF FirstFirst, TracedLie
<1>8. ASSUME OwnLabelBehind(program) PROVE InTurn'
  <2>1. OwnBlockBehind
    BY <1>1, <1>2, <1>8, OwnBlocks
  <2>2. ASSUME NEW b \in DOMAIN blocks, LastOf(b).kind = "CJUMP"
        PROVE  env'[BlockLabel(b + 1)] # 0 /\ target' # b + 1
    <3>1. b + 1 \in DOMAIN blocks
      BY <2>1, <2>2 DEF OwnBlockBehind
    <3> QED
      BY <1>1, <1>2, <1>6, <3>1
  <2> QED
    BY <1>1, <1>5, <2>2 DEF InTurn
<1> QED
  BY <1>1, <1>7, <1>8 DEF Keeping

LEMMA GetNextKeeps ==
  ASSUME Sched, InPlace, Keeping, GetNextBlock \/ GetNextSkip
  PROVE  Keeping'
<1>1. /\ phase = "schedule" /\ target = 0 /\ sList <= Len(blocks) /\ phase' = phase
      /\ program' = program /\ blocks' = blocks /\ env' = env /\ out' = out
      /\ \/ Look(BlockLabel(sList)) # 0 /\ target' = sList /\ sList' = sList
         \/ Look(BlockLabel(sList)) = 0 /\ target' = target /\ sList' = sList + 1
  BY DEF GetNextBlock, GetNextSkip, GetNext, cutting, Rest
<1>2. /\ Cutting /\ Known /\ cur = <<>> /\ stms = <<>> /\ sList \in Nat \ {0}
      /\ out \in Seq(Statements)
  BY <1>1 DEF Sched, Scheduling, Known
<1>3. sList \in DOMAIN blocks /\ DOMAIN blocks = 1 .. Len(blocks)
      /\ \A b \in DOMAIN blocks : blocks[b] \in Seq(Statements)
  BY <1>1, <1>2, LabelsOfBlocks
<1>4. Look(BlockLabel(sList)) = env[BlockLabel(sList)]
  BY <1>2, <1>3 DEF Known, Look
<1>5. \A b : BlockLabel(b)' = BlockLabel(b) /\ LastOf(b)' = LastOf(b)
  BY <1>1 DEF BlockLabel, LastOf
<1> SUFFICES ASSUME OwnLabelBehind(program)
             PROVE  (InTurn /\ TracedLie /\ FirstFirst)'
  BY <1>1 DEF Keeping
<1>6. InTurn /\ TracedLie /\ FirstFirst /\ OwnBlockBehind
  BY <1>1, <1>2, OwnBlocks DEF Keeping
<1>7. InTurn'
  <2>1. ASSUME NEW b \in DOMAIN blocks, LastOf(b).kind = "CJUMP",
               env[BlockLabel(b + 1)] = 0 \/ target' = b + 1
        PROVE  env[BlockLabel(b)] = 0
    <3>1. CASE env[BlockLabel(b + 1)] = 0
      BY <1>6, <2>1, <3>1 DEF InTurn
    <3>2. CASE target' = b + 1
      <4>1. b < sList
        BY <1>1, <1>3, <3>2
      <4> QED
        BY <1>2, <4>1 DEF Known
    <3> QED
      BY <2>1, <3>1, <3>2
  <2> QED
    BY <1>1, <1>5, <2>1 DEF InTurn
<1>8. TracedLie'
  <2>1. PICK next : next = Awaited'
    OBVIOUS
  <2>2. ASSUME NEW b \in DOMAIN blocks, env[BlockLabel(b)] = 0
        PROVE  \E d \in Nat : Lies(out, blocks[b], d, next)
    <3>1. PICK d \in Nat : Lies(out, blocks[b], d, {})
      BY <1>1, <1>6, <2>2 DEF TracedLie, Awaited
    <3>2. Lies(out, blocks[b], d, next)
      BY <3>1 DEF Lies
    <3> QED
      BY <3>2
  <2> QED
    BY <1>1, <1>5, <2>1, <2>2 DEF TracedLie
<1>9. FirstFirst'
  <2>1. CASE out = <<>>
    <3>1. sList = 1 /\ \A b \in DOMAIN blocks : env[BlockLabel(b)] # 0
      BY <1>1, <1>6, <2>1 DEF FirstFirst
    <3>2. target' = 1
      BY <1>1, <1>3, <1>4, <3>1
    <3> QED
      BY <1>1, <2>1, <3>2 DEF FirstFirst
  <2>2. CASE out # <<>>
    BY <1>1, <1>6, <2>2 DEF FirstFirst
  <2> QED
    BY <2>1, <2>2
<1> QED
  BY <1>7, <1>8, <1>9

LEMMA GetNextExitKeeps ==
  ASSUME Sched, InPlace, Keeping, GetNextExit
  PROVE  Keeping'
<1>1. /\ phase = "schedule" /\ target = 0 /\ sList > Len(blocks) /\ target' = target
      /\ program' = program /\ blocks' = blocks /\ env' = env /\ sList' = sList
      /\ out' = Append(out, Label(done))
  BY DEF GetNextExit, GetNext, cutting
<1>2. /\ Cutting /\ Known /\ cur = <<>> /\ stms = <<>> /\ sList \in Nat \ {0}
      /\ out \in Seq(Statements) /\ done \in Nat
  BY <1>1, NLabelsAssumption DEF Sched, Scheduling, Known, Cutting
<1>3. DOMAIN blocks = 1 .. Len(blocks) /\ Len(blocks) \in Nat
      /\ \A b \in DOMAIN blocks : blocks[b] \in Seq(Statements)
  BY <1>1, <1>2, LabelsOfBlocks
<1>4. PICK x : x = <<Label(done)>>
  OBVIOUS
<1>5. x \in Seq(Statements) /\ out' = out \o x
  <2>1. Label(done) \in Statements
    BY <1>2, Made
  <2> QED
    BY <1>1, <1>2, <1>4, <2>1, AppendIsConcat
<1>6. \A b : BlockLabel(b)' = BlockLabel(b) /\ LastOf(b)' = LastOf(b)
  BY <1>1 DEF BlockLabel, LastOf
<1> SUFFICES ASSUME OwnLabelBehind(program)
             PROVE  (InTurn /\ TracedLie /\ FirstFirst)'
  BY <1>1 DEF Keeping
<1>7. InTurn /\ TracedLie /\ FirstFirst
  BY <1>1, <1>2 DEF Keeping
<1>8. InTurn'
  BY <1>1, <1>6, <1>7 DEF InTurn
<1>9. TracedLie'
  <2>1. PICK next, o : next = Awaited' /\ o = out'
    OBVIOUS
  <2>2. ASSUME NEW b \in DOMAIN blocks, env[BlockLabel(b)] = 0
        PROVE  \E d \in Nat : Lies(o, blocks[b], d, next)
    <3>1. PICK d \in Nat : Lies(out, blocks[b], d, {})
      BY <1>1, <1>7, <2>2 DEF TracedLie, Awaited
    <3>2. Lies(o, blocks[b], d, next)
      BY <1>2, <1>3, <1>5, <2>1, <3>1, LiesOn
    <3> QED
      BY <3>2
  <2> QED
    BY <1>1, <1>6, <2>1, <2>2 DEF TracedLie
<1>10. out # <<>>
  <2>1. PICK b : b \in DOMAIN blocks
    BY <1>2, SomeBlock
  <2>2. 1 \in DOMAIN blocks /\ sList # 1
    BY <1>1, <1>2, <1>3, <2>1
  <2> QED
    BY <1>1, <1>7, <2>2 DEF FirstFirst
<1>11. FirstFirst'
  <2>1. Len(out) \in Nat \ {0} /\ out' # <<>> /\ out'[1] = out[1]
    <3>1. Label(done) \in Statements
      BY <1>2, Made
    <3> QED
      BY <1>1, <1>2, <1>10, <3>1
  <2> QED
    BY <1>1, <1>7, <1>10, <2>1 DEF FirstFirst
<1> QED
  BY <1>8, <1>9, <1>11

LEMMA KeepingStep ==
  ASSUME Sched, InPlace, Keeping, [Next]_vars
  PROVE  Keeping'
<1>1. CASE MkBlocks \/ NextStm \/ EndBlock
  <2>1. phase' = "blocks"
    BY <1>1 DEF MkBlocks, NextStm, EndBlock
  <2> QED
    BY <2>1 DEF Keeping
<1>2. CASE Schedule
  BY <1>2, ScheduleKeeps
<1>3. CASE GetNextBlock \/ GetNextSkip
  BY <1>3, GetNextKeeps
<1>4. CASE GetNextExit
  BY <1>4, GetNextExitKeeps
<1>5. CASE TraceJump \/ TraceJumpBack \/ TraceCjumpFalse \/ TraceCjumpTrue \/ TraceCjumpNeither
  <2>1. program' = program
    BY <1>5 DEF TraceJump, TraceJumpBack, TraceCjumpFalse, TraceCjumpTrue, TraceCjumpNeither, Trace
  <2>2. CASE OwnLabelBehind(program)
    BY <1>5, <2>2, TraceJumpKeeps, WholeKeeps, TraceCjumpTrueKeeps, NeverNeither
  <2>3. CASE ~OwnLabelBehind(program)
    BY <2>1, <2>3 DEF Keeping
  <2> QED
    BY <2>2, <2>3
<1>6. CASE UNCHANGED vars
  BY <1>6 DEF vars, cutting, scheduling, Keeping, InTurn, TracedLie, FirstFirst, Awaited,
              BlockLabel, LastOf
<1> QED
  BY <1>1, <1>2, <1>3, <1>4, <1>5, <1>6 DEF Next, Terminating

-------------------------------------------------------------------------------
(* The finished schedule of a program from translate.c: block b is cut     *)
(* from F[b] and laid out behind D[b].                                     *)
Laid(F, D) ==
  /\ Sched /\ phase = "done" /\ CutAt(F) /\ D \in [DOMAIN blocks -> Nat]
  /\ \A b \in DOMAIN blocks : Lies(out, blocks[b], D[b], {})

(* The points at which the two lists are compared: the beginnings of the   *)
(* blocks, and the exit.                                                   *)
Points == 1 .. Len(blocks) + 1

Beginnings(D) == [b \in Points |-> IF b \in DOMAIN blocks THEN D[b] + 1 ELSE Len(out)]

LEMMA LaidOut ==
  ASSUME NEW F, NEW D, Laid(F, D)
  PROVE  /\ program \in Programs /\ program \in Seq(Statements) /\ out \in Seq(Statements)
         /\ NLabels \in Nat /\ Len(program) \in Nat /\ DOMAIN program = 1 .. Len(program)
         /\ Len(out) \in Nat \ {0} /\ DOMAIN out = 1 .. Len(out)
         /\ out[Len(out)] = Label(NLabels + 1)
         /\ \A i \in DOMAIN out : IsLabel(out[i]) => out[i].label # Elsewhere
         /\ \A i, j \in DOMAIN out : Same(out[i], out[j]) => i = j
         /\ \A i, j \in DOMAIN program : Same(program[i], program[j]) => i = j
         /\ Cutting /\ cur = <<>> /\ stms = <<>>
         /\ \A b \in DOMAIN blocks :
              /\ b \in Points /\ b + 1 \in Points /\ D[b] \in Nat
              /\ F[b] \in DOMAIN program /\ F[b] \in Nat
              /\ CutTo(program, F[b], blocks[b], F[b + 1])
              /\ blocks[b] \in Seq(Statements) /\ Len(blocks[b]) \in Nat /\ Len(blocks[b]) >= 2
              /\ DOMAIN blocks[b] = 1 .. Len(blocks[b])
              /\ blocks[b][1] = Label(BlockLabel(b)) /\ Block(blocks[b])
              /\ Beginnings(D)[b] = D[b] + 1
              /\ D[b] + 1 \in DOMAIN out /\ out[D[b] + 1] = Label(BlockLabel(b))
         /\ Len(blocks) + 1 \in Points /\ Beginnings(D)[Len(blocks) + 1] = Len(out)
         /\ F[Len(blocks) + 1] = Len(program) + 1 /\ F[1] = 1
         /\ \A b \in Points : F[b] \in Positions(program) /\ Beginnings(D)[b] \in Positions(out)
<1>1. /\ Sched /\ Cutting /\ cur = <<>> /\ stms = <<>> /\ phase = "done"
  BY DEF Laid, Sched, Scheduling, Known
<1>2. /\ out \in Seq(Statements) /\ out # <<>> /\ out[Len(out)] = Label(NLabels + 1)
      /\ \A i \in DOMAIN out : IsLabel(out[i]) => out[i].label # Elsewhere
      /\ \A i, j \in DOMAIN out : Same(out[i], out[j]) => i = j
  BY <1>1, Finished
<1>3. Len(out) \in Nat \ {0} /\ DOMAIN out = 1 .. Len(out)
  BY <1>2
<1>4. /\ program \in Programs /\ \A i, j \in DOMAIN program : Same(program[i], program[j]) => i = j
  BY <1>1, Given DEF Cutting
<1>5. /\ program \in Seq(Statements) /\ NLabels \in Nat /\ Len(program) \in Nat
      /\ DOMAIN program = 1 .. Len(program)
      /\ F[Len(blocks) + 1] = Len(program) + 1 /\ F[1] = 1
      /\ \A b \in DOMAIN blocks :
           /\ b \in Points /\ b + 1 \in Points
           /\ F[b] \in DOMAIN program /\ F[b] \in Nat
           /\ CutTo(program, F[b], blocks[b], F[b + 1])
      /\ \A b \in Points : F[b] \in Positions(program)
  BY <1>1, WhereBlocksAre DEF Laid, Points
<1>6. /\ DOMAIN blocks = 1 .. Len(blocks) /\ Len(blocks) \in Nat
      /\ \A b \in DOMAIN blocks :
           /\ blocks[b] \in Seq(Statements) /\ Len(blocks[b]) \in Nat /\ Len(blocks[b]) >= 2
           /\ DOMAIN blocks[b] = 1 .. Len(blocks[b])
           /\ blocks[b][1] = Label(BlockLabel(b)) /\ Block(blocks[b])
  BY <1>1, LabelsOfBlocks DEF Cutting
<1>7. ASSUME NEW b \in DOMAIN blocks
      PROVE  /\ D[b] \in Nat /\ D[b] + 1 \in DOMAIN out /\ out[D[b] + 1] = Label(BlockLabel(b))
             /\ D[b] + 1 \in Positions(out)
  <2>1. D[b] \in Nat /\ Lies(out, blocks[b], D[b], {})
    BY DEF Laid
  <2>2. 1 \in 1 .. Len(blocks[b]) - 1
    BY <1>6
  <2>3. D[b] + 1 \in DOMAIN out /\ out[D[b] + 1] = blocks[b][1]
    BY <2>1, <2>2 DEF Lies
  <2> QED
    BY <1>2, <1>6, <2>1, <2>3, Placement
<1>8. /\ Len(blocks) + 1 \in Points /\ Len(blocks) + 1 \notin DOMAIN blocks
      /\ \A b \in Points : b = Len(blocks) + 1 \/ b \in DOMAIN blocks
  BY <1>6 DEF Points
<1>9. /\ \A b \in DOMAIN blocks : Beginnings(D)[b] = D[b] + 1
      /\ Beginnings(D)[Len(blocks) + 1] = Len(out)
  BY <1>5, <1>8 DEF Beginnings
<1>10. Len(out) \in Positions(out)
  BY <1>3 DEF Positions
<1>11. \A b \in Points : F[b] \in Positions(program) /\ Beginnings(D)[b] \in Positions(out)
  BY <1>5, <1>7, <1>8, <1>9, <1>10
<1> QED
  BY <1>1, <1>2, <1>3, <1>4, <1>5, <1>6, <1>7, <1>8, <1>9, <1>11

(* A label a jump may name begins the same block in both lists, or is the  *)
(* exit.                                                                   *)
LEMMA LabelPoint ==
  ASSUME NEW F, NEW D, Laid(F, D), NEW n \in 1 .. NLabels + 1
  PROVE  \E c \in Points : Place(program, n) = F[c] /\ Place(out, n) = Beginnings(D)[c]
<1>1. /\ program \in Programs /\ program \in Seq(Statements) /\ out \in Seq(Statements)
      /\ NLabels \in Nat
      /\ \A i, j \in DOMAIN out : Same(out[i], out[j]) => i = j
      /\ \A i, j \in DOMAIN program : Same(program[i], program[j]) => i = j
      /\ Cutting /\ cur = <<>> /\ stms = <<>>
  BY LaidOut
<1>2. ASSUME NEW i \in DOMAIN out, out[i] = Label(n) PROVE Place(out, n) = i
  <2>1. Place(out, n) \in DOMAIN out /\ out[Place(out, n)] = Label(n)
    BY <1>1, <1>2, Placement
  <2>2. Same(out[Place(out, n)], out[i])
    BY <1>2, <2>1, Made, Sameness DEF Counted
  <2> QED
    BY <1>1, <2>1, <2>2
<1>3. CASE n = NLabels + 1
  <2>1. ~\E i \in DOMAIN program : program[i] = Label(n)
    <3>1. ASSUME NEW i \in DOMAIN program, program[i] = Label(n) PROVE FALSE
      <4>1. program[i].label \in 1 .. NLabels
        BY <1>1, <3>1, Given, Made
      <4> QED
        BY <1>1, <1>3, <3>1, <4>1, Made
    <3> QED
      BY <3>1
  <2>2. Place(program, n) = F[Len(blocks) + 1]
    BY <1>1, <2>1, Placement, LaidOut
  <2>3. Place(out, n) = Beginnings(D)[Len(blocks) + 1]
    <3>1. Len(out) \in DOMAIN out /\ out[Len(out)] = Label(n)
      BY <1>3, LaidOut
    <3> QED
      BY <1>2, <3>1, LaidOut
  <2> QED
    BY <2>2, <2>3, LaidOut
<1>4. CASE n # NLabels + 1
  <2>1. n \in 1 .. NLabels
    BY <1>1, <1>4
  <2>2. PICK y : y = Place(program, n)
    OBVIOUS
  <2>3. y \in DOMAIN program /\ program[y] = Label(n)
    BY <1>1, <2>1, <2>2, Given, Placement
  <2>4. IsLabel(program[y]) /\ program[y].label = n /\ Counted(program[y])
    BY <2>3, Made DEF Counted
  <2>5. PICK c \in DOMAIN blocks : Has(blocks[c], program[y])
    BY <1>1, <2>3, <2>4, BlocksHold
  <2>6. PICK k \in DOMAIN blocks[c] : Same(blocks[c][k], program[y])
    BY <2>5 DEF Has
  <2>7. IsLabel(blocks[c][k])
    BY <2>4, <2>6, Sameness
  <2>8. k = 1
    BY <2>7, LaidOut DEF Block
  <2>9. BlockLabel(c) = n
    BY <2>4, <2>6, <2>7, <2>8, Sameness DEF BlockLabel
  <2>10. CutFrom(program, F[c], blocks[c], Len(blocks[c]) - 1)
    BY LaidOut DEF CutTo
  <2>11. IsLabel(program[F[c]]) /\ blocks[c][1] = program[F[c]]
    <3>1. ~(n > NLabels + 1)
      BY <1>1
    <3> QED
      BY <2>9, <2>10, <3>1 DEF CutFrom, BlockLabel
  <2>12. F[c] = y
    <3>1. Same(program[F[c]], program[y]) /\ F[c] \in DOMAIN program
      BY <2>6, <2>8, <2>11, LaidOut
    <3> QED
      BY <1>1, <2>3, <3>1
  <2>13. Place(out, n) = D[c] + 1
    BY <1>2, <2>9, LaidOut
  <2> QED
    BY <2>2, <2>12, <2>13, LaidOut, SMTT(30)
<1> QED
  BY <1>3, <1>4

(* A label stops nothing.                                                  *)
LEMMA Passed ==
  ASSUME NEW p \in Seq(Statements), NEW i \in DOMAIN p, IsLabel(p[i])
  PROVE  ~Stops(p, i) /\ Onward(p, i) = i + 1
<1>1. ~(i > Len(p))
  OBVIOUS
<1>2. ~HasEffect(p[i]) /\ ~Leaves(p[i])
  BY DEF IsLabel, HasEffect, Leaves
<1> QED
  BY <1>1, <1>2 DEF Stops, Onward

(* What the jump that ends a block does in both lists, when it stays in    *)
(* the function: control is at the same point after one step, or there     *)
(* already.                                                                *)
LEMMA JumpPoint ==
  ASSUME NEW F, NEW D, Laid(F, D), NEW b \in DOMAIN blocks, LastOf(b).kind = "JUMP",
         LastOf(b).label # Elsewhere,
         NEW y, y = Source(program, F[b], Len(blocks[b])),
         NEW z, z = D[b] + Len(blocks[b])
  PROVE  \E c \in Points :
           /\ y \in Positions(program) /\ z \in DOMAIN out /\ ~Stops(out, z)
           /\ \/ ~Stops(program, y) /\ ~IsLabel(program[y]) /\ Onward(program, y) = F[c]
              \/ y = F[c] /\ (y \in DOMAIN program => IsLabel(program[y]))
           /\ z = Beginnings(D)[c] \/ Onward(out, z) = Beginnings(D)[c]
<1>1. /\ program \in Programs /\ program \in Seq(Statements) /\ out \in Seq(Statements)
      /\ NLabels \in Nat /\ Len(program) \in Nat /\ DOMAIN program = 1 .. Len(program)
      /\ Len(out) \in Nat /\ DOMAIN out = 1 .. Len(out)
      /\ \A i, j \in DOMAIN out : Same(out[i], out[j]) => i = j
      /\ \A i, j \in DOMAIN program : Same(program[i], program[j]) => i = j
  BY LaidOut
<1>2. PICK e : e = LastOf(b)
  OBVIOUS
<1>3. PICK n : n = e.label
  OBVIOUS
<1>4. \/ y \in DOMAIN program /\ EndsBlock(program[y]) /\ e = program[y]
      \/ y \in DOMAIN program /\ IsLabel(program[y]) /\ n = program[y].label
      \/ y = Len(program) + 1 /\ n = NLabels + 1
  <2>1. CutTo(program, F[b], blocks[b], F[b + 1])
    BY LaidOut
  <2> QED
    BY <1>2, <1>3, <2>1, Made DEF CutTo, LastOf
<1>5. /\ \A i \in DOMAIN program : IsLabel(program[i]) => program[i].label \in 1 .. NLabels
      /\ \A i \in DOMAIN program : program[i].kind = "JUMP" => program[i].label \in 0 .. NLabels
  BY <1>1, Given
<1>6. n \in 1 .. NLabels + 1
  <2>1. /\ \A m \in 1 .. NLabels : m \in 1 .. NLabels + 1
        /\ \A m \in 0 .. NLabels : m # 0 => m \in 1 .. NLabels + 1
    BY <1>1
  <2>2. NLabels + 1 \in 1 .. NLabels + 1
    BY <1>1
  <2> QED
    BY <1>2, <1>3, <1>4, <1>5, <2>1, <2>2 DEF EndsBlock, Elsewhere
<1>7. PICK c \in Points : Place(program, n) = F[c] /\ Place(out, n) = Beginnings(D)[c]
  BY <1>6, LabelPoint
<1>8. /\ y \in Positions(program)
      /\ \/ ~Stops(program, y) /\ ~IsLabel(program[y]) /\ Onward(program, y) = F[c]
         \/ y = F[c] /\ (y \in DOMAIN program => IsLabel(program[y]))
  <2>1. CASE y \in DOMAIN program /\ EndsBlock(program[y]) /\ e = program[y]
    <3>1. y \in Positions(program) /\ ~(y > Len(program))
      BY <1>1, <2>1, Placement
    <3>2. ~HasEffect(program[y]) /\ ~IsLabel(program[y]) /\ ~Leaves(program[y])
      BY <1>2, <2>1 DEF HasEffect, IsLabel, Leaves
    <3> QED
      BY <1>3, <1>7, <2>1, <3>1, <3>2 DEF Stops, Onward
  <2>2. CASE y \in DOMAIN program /\ IsLabel(program[y]) /\ n = program[y].label
    <3>1. y \in Positions(program)
      BY <1>1, <2>2, Placement
    <3>2. program[y] = Label(n)
      BY <1>1, <2>2, Kinds DEF IsLabel
    <3>3. Place(program, n) \in DOMAIN program /\ program[Place(program, n)] = Label(n)
      BY <1>1, <2>2, <3>2, Placement
    <3>4. Same(program[Place(program, n)], program[y])
      BY <3>2, <3>3, Made, Sameness DEF Counted
    <3>5. Place(program, n) = y
      BY <1>1, <2>2, <3>3, <3>4
    <3> QED
      BY <1>7, <2>2, <3>1, <3>5
  <2>3. CASE y = Len(program) + 1 /\ n = NLabels + 1
    <3>1. y \in Positions(program) /\ y \notin DOMAIN program
      BY <1>1, <2>3 DEF Positions
    <3>2. ~\E i \in DOMAIN program : program[i] = Label(n)
      <4>1. ASSUME NEW i \in DOMAIN program, program[i] = Label(n) PROVE FALSE
        <5>1. program[i].label \in 1 .. NLabels
          BY <1>5, <4>1, Made
        <5> QED
          BY <1>1, <2>3, <4>1, <5>1, Made
      <4> QED
        BY <4>1
    <3>3. Place(program, n) = y
      BY <1>1, <2>3, <3>2, Placement
    <3> QED
      BY <1>7, <3>1, <3>3
  <2> QED
    BY <1>4, <2>1, <2>2, <2>3
<1>9. /\ z \in DOMAIN out
      /\ out[z] = e \/ out[z] = Label(n)
  <2>1. Lies(out, blocks[b], D[b], {})
    BY DEF Laid
  <2> QED
    BY <1>2, <1>3, <2>1 DEF Lies, LastOf
<1>10. ~Stops(out, z) /\ (z = Beginnings(D)[c] \/ Onward(out, z) = Beginnings(D)[c])
  <2>1. ~(z > Len(out))
    BY <1>1, <1>9
  <2>2. CASE out[z] = e
    <3>1. ~HasEffect(out[z]) /\ ~IsLabel(out[z]) /\ ~Leaves(out[z])
      BY <1>2, <2>2 DEF HasEffect, IsLabel, Leaves
    <3> QED
      BY <1>3, <1>7, <2>1, <2>2, <3>1 DEF Stops, Onward
  <2>3. CASE out[z] = Label(n)
    <3>1. Place(out, n) \in DOMAIN out /\ out[Place(out, n)] = Label(n)
      BY <1>1, <1>9, <2>3, Placement
    <3>2. Same(out[Place(out, n)], out[z])
      BY <2>3, <3>1, Made, Sameness DEF Counted
    <3>3. Place(out, n) = z
      BY <1>1, <1>9, <3>1, <3>2
    <3>4. ~Stops(out, z)
      BY <1>1, <1>9, <2>3, Made, Passed
    <3> QED
      BY <1>7, <3>3, <3>4
  <2> QED
    BY <1>9, <2>2, <2>3
<1> QED
  BY <1>8, <1>9, <1>10

(* The jump out of the function is in both lists.                          *)
LEMMA LeavingPoint ==
  ASSUME NEW F, NEW D, Laid(F, D), NEW b \in DOMAIN blocks, LastOf(b).kind = "JUMP",
         LastOf(b).label = Elsewhere,
         NEW y, y = Source(program, F[b], Len(blocks[b])),
         NEW z, z = D[b] + Len(blocks[b])
  PROVE  /\ y \in Positions(program) /\ z \in Positions(out)
         /\ From(program, y) = From(out, z)
<1>1. /\ program \in Programs /\ program \in Seq(Statements) /\ out \in Seq(Statements)
      /\ NLabels \in Nat /\ \A i \in DOMAIN out : IsLabel(out[i]) => out[i].label # Elsewhere
  BY LaidOut
<1>2. PICK e : e = LastOf(b)
  OBVIOUS
<1>3. y \in DOMAIN program /\ program[y] = e
  <2>1. CutTo(program, F[b], blocks[b], F[b + 1])
    BY LaidOut
  <2>2. \/ y \in DOMAIN program /\ e = program[y]
        \/ y \in DOMAIN program /\ IsLabel(program[y]) /\ e = Jump(program[y].label)
        \/ e = Jump(NLabels + 1)
    BY <1>2, <2>1 DEF CutTo, LastOf
  <2>3. e # Jump(NLabels + 1)
    BY <1>1, <1>2, Made DEF Elsewhere
  <2>4. \A i \in DOMAIN program : IsLabel(program[i]) => e # Jump(program[i].label)
    <3>1. ASSUME NEW i \in DOMAIN program, IsLabel(program[i]), e = Jump(program[i].label)
          PROVE  FALSE
      <4>1. program[i].label \in 1 .. NLabels
        BY <1>1, <3>1, Given
      <4>2. program[i].label = 0
        BY <1>2, <3>1, Made DEF Elsewhere
      <4> QED
        BY <4>1, <4>2
    <3> QED
      BY <3>1
  <2> QED
    BY <2>2, <2>3, <2>4
<1>4. z \in DOMAIN out /\ out[z] = e
  <2>1. Lies(out, blocks[b], D[b], {})
    BY DEF Laid
  <2>2. z \in DOMAIN out /\ (out[z] = e \/ out[z] = Label(Elsewhere))
    BY <1>2, <2>1 DEF Lies, LastOf
  <2> QED
    BY <1>1, <2>2, Made
<1>5. /\ y \in Positions(program) /\ ~(y > Len(program))
      /\ z \in Positions(out) /\ ~(z > Len(out))
  BY <1>1, <1>3, <1>4, Placement
<1>6. Leaves(e)
  BY <1>2 DEF Leaves
<1>7. From(program, y) = -2
  <2>1. Stops(program, y)
    BY <1>3, <1>6 DEF Stops
  <2> QED
    BY <1>1, <1>3, <1>5, <1>6, <2>1, FromStops DEF Value
<1>8. From(out, z) = -2
  <2>1. Stops(out, z)
    BY <1>4, <1>6 DEF Stops
  <2> QED
    BY <1>1, <1>4, <1>5, <1>6, <2>1, FromStops DEF Value
<1> QED
  BY <1>5, <1>7, <1>8

LEMMA FromEffect ==
  ASSUME NEW p \in Seq(Statements), NEW y \in DOMAIN p, HasEffect(p[y]),
         NEW q \in Seq(Statements), NEW z \in DOMAIN q, HasEffect(q[z]), p[y].id = q[z].id
  PROVE  From(p, y) = From(q, z)
<1>1. /\ y \in Positions(p) /\ ~(y > Len(p)) /\ z \in Positions(q) /\ ~(z > Len(q))
  BY Placement
<1>2. Stops(p, y) /\ Stops(q, z) /\ ~Leaves(p[y]) /\ ~Leaves(q[z])
  BY DEF Stops, HasEffect, Leaves
<1> QED
  BY <1>1, <1>2, FromStops DEF Value

(* A statement of a block that has an effect stops control in both lists,  *)
(* for the same effect.                                                    *)
LEMMA EffectPoint ==
  ASSUME NEW F, NEW D, Laid(F, D), NEW b \in DOMAIN blocks, NEW t \in 2 .. Len(blocks[b]),
         ~(t = Len(blocks[b]) /\ LastOf(b).kind = "JUMP"),
         NEW y, y = Source(program, F[b], t), NEW z, z = D[b] + t
  PROVE  /\ y \in DOMAIN program /\ program[y] = blocks[b][t] /\ HasEffect(program[y])
         /\ z \in DOMAIN out /\ HasEffect(out[z]) /\ out[z].id = program[y].id
         /\ t < Len(blocks[b]) => program[y].kind = "MOVE" /\ out[z] = program[y]
         /\ t = Len(blocks[b]) => /\ program[y].kind = "CJUMP"
                                  /\ out[z] = program[y] \/ out[z] = Swapped(program[y])
         /\ From(program, y) = From(out, z)
<1>1. /\ program \in Seq(Statements) /\ out \in Seq(Statements)
      /\ Len(program) \in Nat /\ DOMAIN program = 1 .. Len(program)
      /\ Len(out) \in Nat /\ DOMAIN out = 1 .. Len(out)
      /\ blocks[b] \in Seq(Statements) /\ Len(blocks[b]) \in Nat /\ Len(blocks[b]) >= 2
      /\ DOMAIN blocks[b] = 1 .. Len(blocks[b]) /\ Block(blocks[b])
      /\ CutTo(program, F[b], blocks[b], F[b + 1])
  BY LaidOut
<1>2. Lies(out, blocks[b], D[b], {})
  BY DEF Laid
<1>3. PICK B : B = blocks[b]
  OBVIOUS
<1>4. /\ t \in 1 .. Len(B) /\ t # 1 /\ B[t] \in Statements /\ Len(B) \in Nat
      /\ t < Len(B) \/ t = Len(B)
  <2>1. B \in Seq(Statements) /\ Len(B) \in Nat /\ t \in 2 .. Len(B)
    BY <1>1, <1>3
  <2> QED
    BY <2>1
<1>5. CASE t < Len(B)
  <2>1. t \in 2 .. Len(B) - 1 /\ t \in 1 .. Len(B) - 1 /\ t # Len(B)
    BY <1>4, <1>5
  <2>2. ~IsLabel(B[t]) /\ ~EndsBlock(B[t])
    BY <1>1, <1>3, <1>4, <2>1 DEF Block
  <2>3. B[t].kind = "MOVE"
    BY <1>4, <2>2, Kinds DEF IsLabel, EndsBlock
  <2>4. y \in DOMAIN program /\ program[y] = B[t]
    BY <1>1, <1>3, <2>1 DEF CutTo, CutFrom
  <2>5. z \in DOMAIN out /\ out[z] = B[t]
    BY <1>2, <1>3, <2>1 DEF Lies
  <2>6. HasEffect(B[t])
    BY <2>3 DEF HasEffect
  <2> QED
    <3>1. HasEffect(program[y]) /\ HasEffect(out[z]) /\ program[y].id = out[z].id
      BY <2>4, <2>5, <2>6
    <3>2. From(program, y) = From(out, z)
      BY <1>1, <2>4, <2>5, <3>1, FromEffect
    <3> QED
      BY <1>3, <2>1, <2>3, <2>4, <2>5, <2>6, <3>2
<1>6. CASE t = Len(B)
  <2>1. EndsBlock(B[t]) /\ B[t] = LastOf(b)
    BY <1>1, <1>3, <1>4, <1>6 DEF Block, LastOf
  <2>2. B[t].kind = "CJUMP" /\ HasEffect(B[t])
    BY <1>3, <1>6, <2>1 DEF EndsBlock, HasEffect
  <2>3. y \in DOMAIN program /\ program[y] = B[t]
    BY <1>1, <1>3, <1>6, <2>2, Made DEF CutTo
  <2>4. z \in DOMAIN out /\ (out[z] = B[t] \/ out[z] = Swapped(B[t]))
    BY <1>2, <1>3, <1>6, <2>2 DEF Lies
  <2>5. HasEffect(out[z]) /\ out[z].id = B[t].id
    BY <1>4, <2>2, <2>4, Swapping DEF HasEffect
  <2> QED
    <3>1. HasEffect(program[y]) /\ program[y].id = out[z].id
      BY <2>2, <2>3, <2>5
    <3>2. From(program, y) = From(out, z)
      BY <1>1, <2>3, <2>4, <2>5, <3>1, FromEffect
    <3>3. ~(t < Len(B))
      BY <1>4, <1>6
    <3> QED
      BY <1>3, <1>6, <2>2, <2>3, <2>4, <2>5, <3>2, <3>3
<1> QED
  BY <1>4, <1>5, <1>6

(* Control goes from the beginning of a block in the schedule to what it   *)
(* goes to from the beginning in the program.                              *)
LEMMA SameFromPoints ==
  ASSUME NEW F, NEW D, Laid(F, D)
  PROVE  \A b \in Points : From(program, F[b]) = From(out, Beginnings(D)[b])
<1>1. PICK G : G = [b \in Points |-> F[b]]
  OBVIOUS
<1>2. PICK Q : Q = Beginnings(D)
  OBVIOUS
<1>3. /\ program \in Seq(Statements) /\ out \in Seq(Statements)
      /\ Len(program) \in Nat /\ DOMAIN program = 1 .. Len(program)
      /\ Len(out) \in Nat \ {0} /\ DOMAIN out = 1 .. Len(out)
      /\ \A b \in Points : F[b] \in Positions(program) /\ Q[b] \in Positions(out)
  BY <1>2, LaidOut
<1>4. /\ G \in [Points -> Positions(program)] /\ Q \in [Points -> Positions(out)]
      /\ \A b \in Points : G[b] = F[b]
  <2>1. Q = [b \in Points |-> IF b \in DOMAIN blocks THEN D[b] + 1 ELSE Len(out)]
    BY <1>2 DEF Beginnings
  <2>2. \A b \in Points : (IF b \in DOMAIN blocks THEN D[b] + 1 ELSE Len(out)) \in Positions(out)
    BY <1>3, <2>1
  <2> QED
    BY <1>1, <1>3, <2>1, <2>2
<1>5. ASSUME NEW b \in Points
      PROVE  \/ From(program, F[b]) = From(out, Q[b])
             \/ \E c \in Points : Nears(program, F[b], F[c]) /\ Nears(out, Q[b], Q[c])
  <2>1. CASE b \notin DOMAIN blocks
    <3>1. b = Len(blocks) + 1
      <4>1. DOMAIN blocks = 1 .. Len(blocks) /\ Len(blocks) \in Nat
        BY LaidOut, LabelsOfBlocks
      <4> QED
        BY <2>1, <4>1 DEF Points
    <3>2. F[b] = Len(program) + 1 /\ Q[b] = Len(out)
      BY <1>2, <3>1, LaidOut
    <3>3. From(program, F[b]) = 0
      <4>1. F[b] > Len(program) /\ F[b] \in Positions(program)
        BY <1>3, <3>2
      <4> QED
        BY <1>3, <4>1, FromStops DEF Stops, Value
    <3>4. PICK z : z = Len(out) + 1
      OBVIOUS
    <3>5. Onward(out, Q[b]) = z
      <4>1. out[Len(out)] = Label(NLabels + 1) /\ Len(out) \in DOMAIN out
        BY <1>3, LaidOut
      <4>2. IsLabel(out[Len(out)])
        BY <4>1, Made
      <4> QED
        BY <1>3, <3>2, <3>4, <4>1, <4>2, Passed
    <3>6. z > Len(out) /\ z \in Positions(out)
      BY <1>3, <3>4 DEF Positions
    <3>7. From(out, z) = 0
      BY <1>3, <3>6, FromStops DEF Stops, Value
    <3>8. From(out, Q[b]) = From(out, z)
      BY <1>3, <3>5, FromOnward
    <3> QED
      BY <3>3, <3>7, <3>8
  <2>2. CASE b \in DOMAIN blocks
    <3>1. /\ F[b] \in DOMAIN program /\ F[b] \in Nat /\ D[b] \in Nat
          /\ Len(blocks[b]) \in Nat /\ Len(blocks[b]) >= 2
          /\ Q[b] = D[b] + 1 /\ Q[b] \in DOMAIN out /\ out[Q[b]] = Label(BlockLabel(b))
          /\ CutTo(program, F[b], blocks[b], F[b + 1])
      BY <1>2, <2>2, LaidOut
    <3>2. PICK y, z : y = Source(program, F[b], 2) /\ z = D[b] + 2
      OBVIOUS
    <3>3. y = IF IsLabel(program[F[b]]) THEN F[b] + 1 ELSE F[b]
      BY <3>1, <3>2, SourceNext
    <3>4. ~(F[b] > Len(program)) /\ ~(Q[b] > Len(out)) /\ z = Q[b] + 1
      BY <1>3, <3>1, <3>2
    <3>5. ~Stops(out, Q[b]) /\ Onward(out, Q[b]) = z
      <4>1. IsLabel(out[Q[b]])
        BY <3>1, Made
      <4> QED
        BY <1>3, <3>1, <3>4, <4>1, Passed
    <3>6. IsLabel(program[F[b]]) => ~Stops(program, F[b]) /\ Onward(program, F[b]) = y
      BY <1>3, <3>1, <3>3, Passed
    <3>7. F[b] \in Positions(program) /\ Q[b] \in Positions(out)
      BY <1>3
    <3> DEFINE jumps == 2 = Len(blocks[b]) /\ LastOf(b).kind = "JUMP"
    <3>8. CASE ~jumps \/ LastOf(b).label = Elsewhere
      <4>1. PICK t : t = 2
        OBVIOUS
      <4>2. ASSUME jumps, LastOf(b).label = Elsewhere
            PROVE  From(program, y) = From(out, z)
        <5>1. y = Source(program, F[b], Len(blocks[b])) /\ z = D[b] + Len(blocks[b])
          BY <3>2, <4>2
        <5> QED
          BY <2>2, <4>2, <5>1, LeavingPoint
      <4>3. ASSUME ~jumps PROVE From(program, y) = From(out, z)
        <5>1. t \in 2 .. Len(blocks[b]) /\ ~(t = Len(blocks[b]) /\ LastOf(b).kind = "JUMP")
          BY <3>1, <4>1, <4>3
        <5>2. y = Source(program, F[b], t) /\ z = D[b] + t
          BY <3>2, <4>1
        <5> QED
          BY <2>2, <5>1, <5>2, EffectPoint
      <4>4. From(program, F[b]) = From(program, y)
        BY <1>3, <3>3, <3>6, <3>7, FromOnward
      <4>5. From(out, Q[b]) = From(out, z)
        BY <1>3, <3>5, <3>7, FromOnward
      <4> QED
        BY <3>8, <4>2, <4>3, <4>4, <4>5
    <3>9. CASE jumps /\ LastOf(b).label # Elsewhere
      <4>1. y = Source(program, F[b], Len(blocks[b])) /\ z = D[b] + Len(blocks[b])
        BY <3>2, <3>9
      <4>2. PICK c \in Points :
              /\ \/ ~Stops(program, y) /\ ~IsLabel(program[y]) /\ Onward(program, y) = F[c]
                 \/ y = F[c] /\ (y \in DOMAIN program => IsLabel(program[y]))
              /\ z = Q[c] \/ Onward(out, z) = Q[c]
        BY <1>2, <2>2, <3>9, <4>1, JumpPoint
      <4>3. Nears(out, Q[b], Q[c])
        BY <3>5, <4>2 DEF Nears
      <4>4. Nears(program, F[b], F[c])
        BY <3>1, <3>3, <3>6, <4>2 DEF Nears
      <4> QED
        BY <4>3, <4>4
    <3> QED
      BY <3>8, <3>9
  <2> QED
    BY <2>1, <2>2
<1>6. Alike(program, out, Points, G, Q)
  BY <1>4, <1>5 DEF Alike
<1> QED
  BY <1>2, <1>3, <1>4, <1>6, AlikeMeansSame

(* So it does from every statement of a block behind its label.            *)
LEMMA SameFromStatements ==
  ASSUME NEW F, NEW D, Laid(F, D), NEW b \in DOMAIN blocks, NEW t \in 2 .. Len(blocks[b])
  PROVE  From(program, Source(program, F[b], t)) = From(out, D[b] + t)
<1>1. PICK y, z : y = Source(program, F[b], t) /\ z = D[b] + t
  OBVIOUS
<1>2. CASE ~(t = Len(blocks[b]) /\ LastOf(b).kind = "JUMP")
  BY <1>1, <1>2, EffectPoint
<1>3. CASE t = Len(blocks[b]) /\ LastOf(b).kind = "JUMP" /\ LastOf(b).label = Elsewhere
  BY <1>1, <1>3, LeavingPoint
<1>4. CASE t = Len(blocks[b]) /\ LastOf(b).kind = "JUMP" /\ LastOf(b).label # Elsewhere
  <2>1. y = Source(program, F[b], Len(blocks[b])) /\ z = D[b] + Len(blocks[b])
    BY <1>1, <1>4
  <2>2. PICK c \in Points :
          /\ y \in Positions(program) /\ z \in DOMAIN out
          /\ Onward(program, y) = F[c] \/ y = F[c]
          /\ z = Beginnings(D)[c] \/ Onward(out, z) = Beginnings(D)[c]
    BY <1>4, <2>1, JumpPoint
  <2>3. program \in Seq(Statements) /\ out \in Seq(Statements)
    BY LaidOut
  <2>4. z \in Positions(out)
    BY <2>2, <2>3, Placement
  <2>5. From(program, y) = From(program, F[c])
    BY <2>2, <2>3, FromOnward
  <2>6. From(out, z) = From(out, Beginnings(D)[c])
    BY <2>2, <2>3, <2>4, FromOnward
  <2> QED
    BY <1>1, <2>2, <2>5, <2>6, SameFromPoints
<1> QED
  BY <1>2, <1>3, <1>4

(* The labels of a conditional jump are the program's.                     *)
LEMMA GivenCjump ==
  ASSUME NEW p \in Programs, NEW i \in DOMAIN p, p[i].kind = "CJUMP"
  PROVE  /\ p[i].truee \in 1 .. NLabels /\ p[i].falsee \in 1 .. NLabels
         /\ p[i].negated = FALSE /\ p[i] \in Statements
<1>1. WellFormed(p) /\ p \in Seq(Statements)
  BY ProgramsAssumption, Given
<1>2. \A n : Label(n).kind # "CJUMP" /\ Jump(n).kind # "CJUMP" /\ Plain(n).kind # "CJUMP"
  BY DEF Label, Jump, Plain
<1>3. PICK t \in 1 .. NLabels, f \in 1 .. NLabels : p[i] = Cjump(p[i].id, t, f)
  BY <1>1, <1>2 DEF WellFormed
<1>4. \A id : /\ Cjump(id, t, f).truee = t /\ Cjump(id, t, f).falsee = f
              /\ Cjump(id, t, f).negated = FALSE
  BY DEF Cjump
<1> QED
  BY <1>1, <1>3, <1>4

LEMMA SameAfter ==
  ASSUME NEW F, NEW D, Laid(F, D), NEW i \in DOMAIN program, NEW j \in DOMAIN out,
         HasEffect(program[i]), HasEffect(out[j]), program[i].id = out[j].id
  PROVE  After(program, i) = After(out, j)
<1>1. /\ program \in Programs /\ program \in Seq(Statements) /\ out \in Seq(Statements)
      /\ NLabels \in Nat /\ Cutting /\ cur = <<>> /\ stms = <<>>
      /\ \A k, l \in DOMAIN out : Same(out[k], out[l]) => k = l
      /\ \A k, l \in DOMAIN program : Same(program[k], program[l]) => k = l
  BY LaidOut
<1>2. PICK b \in DOMAIN blocks : Has(blocks[b], program[i])
  BY <1>1, BlocksHold DEF Counted
<1>3. PICK t \in DOMAIN blocks[b] : Same(blocks[b][t], program[i])
  BY <1>2 DEF Has
<1>4. /\ F[b] \in Nat /\ D[b] \in Nat /\ Len(blocks[b]) \in Nat /\ Len(blocks[b]) >= 2
      /\ DOMAIN blocks[b] = 1 .. Len(blocks[b]) /\ Block(blocks[b])
  BY LaidOut
<1>5. HasEffect(blocks[b][t])
  BY <1>3, Sameness
<1>6. t \in 2 .. Len(blocks[b])
  <2>1. t # 1
    BY <1>4, <1>5 DEF Block, IsLabel, HasEffect
  <2> QED
    BY <1>4, <2>1
<1>7. ~(t = Len(blocks[b]) /\ LastOf(b).kind = "JUMP")
  BY <1>5 DEF LastOf, HasEffect
<1>8. PICK y, z : y = Source(program, F[b], t) /\ z = D[b] + t
  OBVIOUS
<1>9. /\ y \in DOMAIN program /\ program[y] = blocks[b][t] /\ HasEffect(program[y])
      /\ z \in DOMAIN out /\ HasEffect(out[z]) /\ out[z].id = program[y].id
      /\ t < Len(blocks[b]) => program[y].kind = "MOVE" /\ out[z] = program[y]
      /\ t = Len(blocks[b]) => /\ program[y].kind = "CJUMP"
                               /\ out[z] = program[y] \/ out[z] = Swapped(program[y])
  BY <1>6, <1>7, <1>8, EffectPoint
<1>10. y = i
  BY <1>1, <1>3, <1>9
<1>11. z = j
  <2>1. Same(out[z], out[j])
    BY <1>9, <1>10 DEF Same
  <2> QED
    BY <1>1, <1>9, <2>1
<1>12. CASE t < Len(blocks[b])
  <2>1. t + 1 \in 2 .. Len(blocks[b]) /\ t \in Nat
    BY <1>4, <1>6, <1>12
  <2>2. From(program, Source(program, F[b], t + 1)) = From(out, D[b] + (t + 1))
    BY <2>1, SameFromStatements
  <2>3. Source(program, F[b], t + 1) = i + 1 /\ D[b] + (t + 1) = j + 1
    <3>1. Source(program, F[b], t + 1) = i + 1
      BY <1>4, <1>8, <1>10, <2>1, SMTT(30) DEF Source
    <3>2. D[b] + (t + 1) = j + 1
      BY <1>4, <1>8, <1>11, <2>1
    <3> QED
      BY <3>1, <3>2
  <2>4. From(program, i + 1) = From(out, j + 1)
    BY <2>2, <2>3
  <2> QED
    BY <1>9, <1>10, <1>11, <1>12, <2>4 DEF After
<1>13. CASE t = Len(blocks[b])
  <2>1. PICK s : s = program[i]
    OBVIOUS
  <2>2. s.kind = "CJUMP" /\ (out[j] = s \/ out[j] = Swapped(s))
    BY <1>9, <1>10, <1>11, <1>13, <2>1
  <2>3. /\ s.truee \in 1 .. NLabels /\ s.falsee \in 1 .. NLabels /\ s.negated = FALSE
        /\ s \in Statements
    BY <1>1, <2>1, <2>2, GivenCjump
  <2>4. ASSUME NEW n \in 1 .. NLabels
        PROVE  From(program, Place(program, n)) = From(out, Place(out, n))
    <3>1. n \in 1 .. NLabels + 1
      BY <1>1
    <3> QED
      BY <3>1, LabelPoint, SameFromPoints
  <2>5. /\ From(program, Place(program, s.truee)) = From(out, Place(out, s.truee))
        /\ From(program, Place(program, s.falsee)) = From(out, Place(out, s.falsee))
    BY <2>3, <2>4
  <2>6. After(program, i) = <<From(program, Place(program, s.truee)),
                              From(program, Place(program, s.falsee))>>
    BY <2>1, <2>2, <2>3 DEF After
  <2>7. CASE out[j] = s
    BY <2>2, <2>3, <2>5, <2>6, <2>7 DEF After
  <2>8. CASE out[j] = Swapped(s)
    <3>1. /\ Swapped(s).truee = s.falsee /\ Swapped(s).falsee = s.truee
          /\ Swapped(s).negated = TRUE /\ Swapped(s).kind = "CJUMP"
      BY <2>2, <2>3, Swapping
    <3> QED
      BY <2>5, <2>6, <2>8, <3>1 DEF After
  <2> QED
    BY <2>2, <2>7, <2>8
<1> QED
  BY <1>4, <1>6, <1>12, <1>13

LEMMA DoneKeepsControl ==
  ASSUME Sched, InPlace, Keeping
  PROVE  ControlPreserved
<1> SUFFICES ASSUME phase = "done", OwnLabelBehind(program)
             PROVE  /\ From(out, 1) = From(program, 1)
                    /\ \A i \in DOMAIN program, j \in DOMAIN out :
                         /\ HasEffect(program[i]) /\ HasEffect(out[j])
                         /\ program[i].id = out[j].id
                         => After(program, i) = After(out, j)
  BY DEF ControlPreserved
<1>1. PICK F : CutAt(F)
  BY DEF InPlace
<1>2. /\ TracedLie /\ FirstFirst /\ target = 0 /\ cur = <<>> /\ stms = <<>>
      /\ \A b \in DOMAIN blocks : env[BlockLabel(b)] = 0
  BY DEF Keeping, Sched, Scheduling, Known
<1>3. \A b \in DOMAIN blocks : \E d \in Nat : Lies(out, blocks[b], d, {})
  BY <1>2 DEF TracedLie, Awaited
<1>4. PICK D : D = [b \in DOMAIN blocks |-> CHOOSE d \in Nat : Lies(out, blocks[b], d, {})]
  OBVIOUS
<1>5. Laid(F, D)
  BY <1>1, <1>3, <1>4 DEF Laid
<1>6. From(out, 1) = From(program, 1)
  <2>1. 1 \in DOMAIN blocks
    <3>1. DOMAIN blocks = 1 .. Len(blocks) /\ Len(blocks) \in Nat
      BY <1>5, LaidOut, LabelsOfBlocks
    <3>2. PICK b : b \in DOMAIN blocks
      BY <1>2, SomeBlock
    <3> QED
      BY <3>1, <3>2
  <2>2. out[1] = blocks[1][1]
    <3>1. out # <<>>
      BY <1>5, LaidOut
    <3> QED
      BY <1>2, <3>1 DEF FirstFirst
  <2>3. D[1] + 1 = 1
    <3>1. /\ D[1] + 1 \in DOMAIN out /\ out[D[1] + 1] = Label(BlockLabel(1))
          /\ blocks[1][1] = Label(BlockLabel(1)) /\ 1 \in DOMAIN out
          /\ \A i, j \in DOMAIN out : Same(out[i], out[j]) => i = j
      BY <1>5, <2>1, LaidOut
    <3>2. Same(out[D[1] + 1], out[1])
      BY <2>2, <3>1, Made, Sameness DEF Counted
    <3> QED
      BY <3>1, <3>2
  <2>4. F[1] = 1 /\ Beginnings(D)[1] = 1 /\ 1 \in Points
    <3>1. \A b \in DOMAIN blocks : b \in Points /\ Beginnings(D)[b] = D[b] + 1
      BY <1>5, LaidOut
    <3>2. F[1] = 1
      BY <1>5, LaidOut
    <3> QED
      BY <2>1, <2>3, <3>1, <3>2
  <2> QED
    BY <1>5, <2>4, SameFromPoints
<1> QED
  BY <1>5, <1>6, SameAfter

(* The schedule does what the program does: for every list in which a      *)
(* conditional jump has a label of its own behind it, as in those from     *)
(* translate.c, control begins at the same effect and goes from every      *)
(* effect to the same one, however the conditions turn out, though blocks  *)
(* have changed places, jumps are gone or made and conditions are turned.  *)
THEOREM ScheduleKeepsControl == Spec => []ControlPreserved
<1>1. Init => InPlace /\ Keeping
  BY InitInPlace DEF Init, Keeping
<1>2. Sched /\ InPlace /\ Keeping /\ [Next]_vars => InPlace' /\ Keeping'
  BY InPlaceStep, KeepingStep DEF Sched
<1>3. Sched /\ InPlace /\ Keeping => ControlPreserved
  BY DoneKeepsControl
<1> QED
  BY <1>1, <1>2, <1>3, SchedAlways, PTL DEF Spec
===============================================================================
