--------------------------- MODULE ScopeTableProofs ---------------------------
(***************************************************************************)
(* That the hash table of table.c, threaded by keys, is a stack of scopes, *)
(* for any symbols, however their addresses fall on the buckets.  The      *)
(* inductive invariant names what the code nowhere holds: the list e of    *)
(* all binders in the order they were entered (Listed).  The thread of     *)
(* tops is this list read by keys (Threaded), and each chain is a part of  *)
(* it read backwards (Chained); so the binder TAB_pop takes from the head  *)
(* of a chain is the last of the list.                                     *)
(***************************************************************************)
EXTENDS ScopeTable, FiniteSetTheorems, WellFoundedInduction, TLAPS

(* A set of naturals that is not empty has a least element.                *)
LEMMA LeastElement ==
  ASSUME NEW S, S \subseteq Nat, S # {}
  PROVE  \E x \in S : \A y \in S : x <= y
<1>1. PICK x \in S : \A y \in S : ~(<<y, x>> \in OpToRel(<, Nat))
  BY WFMin, NatLessThanWellFounded, Zenon
<1>2. ASSUME NEW y \in S PROVE ~(y < x)
  <2>1. y < x => <<y, x>> \in OpToRel(<, Nat)
    BY Zenon DEF OpToRel
  <2> QED
    BY <2>1, <1>1
<1>3. \A y \in S : x \in Nat /\ y \in Nat
  OBVIOUS
<1> QED
  BY <1>2, <1>3

Binder == [key : Keys, value : Values \union {Null}, prevtop : Keys \union {NoKey},
           at : Nat]

Typed == /\ hash \in [Keys -> Buckets]
         /\ table \in [Buckets -> Seq(Binder)]
         /\ closing \in BOOLEAN

Listed(e) ==
  /\ Len(e) <= MaxBinders
  /\ \A i \in 1 .. Len(e) : e[i].at = i
  /\ Binders = {e[i] : i \in 1 .. Len(e)}

Threaded(e) ==
  /\ top = IF Len(e) = 0 THEN NoKey ELSE e[Len(e)].key
  /\ \A i \in 1 .. Len(e) : e[i].prevtop = IF i = 1 THEN NoKey ELSE e[i - 1].key

Chained ==
  \A b \in Buckets : \A i \in 1 .. Len(table[b]) :
    /\ hash[table[b][i].key] = b
    /\ \A j \in 1 .. i - 1 : table[b][j].at > table[b][i].at

InOrder(e) == Listed(e) /\ Threaded(e)

TableInv == Typed /\ Chained /\ \E e \in Seq(Binder) : InOrder(e)

-------------------------------------------------------------------------------
LEMMA Keyed == Mark \in Keys /\ NoKey \notin Keys /\ Symbols \subseteq Keys
                 /\ Mark \notin Symbols
BY KeysAssumption DEF Keys

LEMMA Cons ==
  ASSUME NEW S, NEW x \in S, NEW s \in Seq(S)
  PROVE  /\ <<x>> \o s \in Seq(S) /\ Len(<<x>> \o s) = Len(s) + 1
         /\ (<<x>> \o s)[1] = x
         /\ \A i \in 1 .. Len(s) : (<<x>> \o s)[i + 1] = s[i]
         /\ \A i \in 2 .. Len(s) + 1 : (<<x>> \o s)[i] = s[i - 1]
OBVIOUS

LEMMA Uncons ==
  ASSUME NEW S, NEW s \in Seq(S), s # <<>>
  PROVE  /\ Tail(s) \in Seq(S) /\ Len(s) \in Nat \ {0} /\ Len(Tail(s)) = Len(s) - 1
         /\ s[1] \in S
         /\ \A i \in 1 .. Len(s) - 1 : Tail(s)[i] = s[i + 1]
OBVIOUS

(* A binder is in the table when it is in some place of some chain.        *)
LEMMA BinderPlaces ==
  \A x : x \in Binders <=> \E b \in Buckets : \E i \in 1 .. Len(table[b]) : x = table[b][i]
BY DEF Binders

LEMMA AppendIs ==
  ASSUME NEW S, NEW s \in Seq(S), NEW r \in Seq(S), NEW x, Len(s) \in Nat,
         Len(r) = Len(s) + 1, r[Len(r)] = x, \A i \in 1 .. Len(s) : r[i] = s[i]
  PROVE  r = Append(s, x)
<1>1. x \in S
  OBVIOUS
<1>2. Append(s, x) \in Seq(S) /\ Len(Append(s, x)) = Len(r)
  BY <1>1
<1>3. \A i \in 1 .. Len(r) : r[i] = Append(s, x)[i]
  BY <1>1
<1> QED
  BY <1>2, <1>3

LEMMA SubSeqIs ==
  ASSUME NEW S, NEW s \in Seq(S), NEW r \in Seq(S),
         Len(s) = Len(r) + 1, \A i \in 1 .. Len(r) : s[i] = r[i]
  PROVE  r = SubSeq(s, 1, Len(s) - 1)
<1>1. Len(r) \in Nat /\ Len(s) - 1 = Len(r)
  OBVIOUS
<1>2. /\ SubSeq(s, 1, Len(r)) \in Seq(S) /\ Len(SubSeq(s, 1, Len(r))) = Len(r)
      /\ \A i \in 1 .. Len(r) : SubSeq(s, 1, Len(r))[i] = s[i]
  BY <1>1
<1> QED
  BY <1>1, <1>2

LEMMA LastPlace == \A n \in Nat \ {0} : n # 1 => n - 1 \in 1 .. n - 1
OBVIOUS

LEMMA UpTo == \A n \in Nat : IsFiniteSet(1 .. n) /\ Cardinality(1 .. n) = n
BY FS_Interval

LEMMA StampIs ==
  ASSUME NEW e \in Seq(Binder), Listed(e)
  PROVE  Stamp = Len(e) + 1 /\ Len(e) \in Nat
<1>1. Len(e) \in Nat
  OBVIOUS
<1>2. {n \in 1 .. MaxBinders : \E b \in Binders : b.at >= n} = 1 .. Len(e)
  <2>1. ASSUME NEW n \in 1 .. MaxBinders
        PROVE  (\E b \in Binders : b.at >= n) <=> n <= Len(e)
    BY <1>1 DEF Listed
  <2> QED
    BY <1>1, <2>1, MaxBindersAssumption DEF Listed
<1>3. Cardinality(1 .. Len(e)) = Len(e)
  BY <1>1, UpTo
<1>4. Stamp = 1 + Cardinality(1 .. Len(e))
  BY <1>2, Zenon DEF Stamp
<1> QED
  BY <1>1, <1>3, <1>4

(* TAB_enter puts the new binder at the end of the list.                   *)
LEMMA EnterInOrder ==
  ASSUME Typed, Chained, NEW e \in Seq(Binder), InOrder(e),
         NEW k \in Keys, NEW v \in Values \union {Null}, TAB_enter(k, v),
         Stamp <= MaxBinders, UNCHANGED <<hash, closing>>,
         NEW nb, nb = [key |-> k, value |-> v, prevtop |-> top, at |-> Len(e) + 1],
         NEW b, b = hash[k], NEW f, f = Append(e, nb)
  PROVE  /\ nb \in Binder /\ Binders' = Binders \union {nb}
         /\ f \in Seq(Binder) /\ InOrder(f)'
         /\ Typed' /\ Chained'
<1>1. Stamp = Len(e) + 1 /\ Len(e) \in Nat
  BY StampIs DEF InOrder
<1>2. nb = NewBinder(k, v) /\ nb \in Binder
  <2>1. top \in Keys \union {NoKey}
    <3>1. CASE Len(e) = 0
      BY <3>1 DEF InOrder, Threaded
    <3>2. CASE Len(e) # 0
      <4>1. e[Len(e)] \in Binder
        BY <1>1, <3>2
      <4> QED
        BY <3>2, <4>1 DEF InOrder, Threaded, Binder
    <3> QED
      BY <3>1, <3>2
  <2> QED
    BY <1>1, <2>1 DEF NewBinder, Binder
<1>3. /\ b \in Buckets /\ table[b] \in Seq(Binder)
      /\ table' = [table EXCEPT ![b] = <<nb>> \o table[b]] /\ top' = k
  BY <1>2 DEF Typed, TAB_enter
<1>4. nb.key = k /\ nb.at = Len(e) + 1 /\ nb.prevtop = top
  OBVIOUS
<1>5. /\ table'[b] \in Seq(Binder) /\ Len(table'[b]) = Len(table[b]) + 1
      /\ Len(table[b]) \in Nat
      /\ table'[b][1] = nb
      /\ \A i \in 1 .. Len(table[b]) : table'[b][i + 1] = table[b][i]
      /\ \A i \in 2 .. Len(table[b]) + 1 : table'[b][i] = table[b][i - 1]
  <2>1. table'[b] = <<nb>> \o table[b]
    BY <1>3 DEF Typed
  <2> QED
    BY <1>2, <1>3, <2>1, Cons
<1>6. \A c \in Buckets : c # b => table'[c] = table[c]
  BY <1>3 DEF Typed
<1>7. Typed'
  BY <1>3, <1>5, <1>6 DEF Typed
<1>8. Binders' = Binders \union {nb}
  <2>1. \A x : x \in Binders' <=>
                 \E c \in Buckets : \E i \in 1 .. Len(table'[c]) : x = table'[c][i]
    BY DEF Binders
  <2>2. ASSUME NEW x \in Binders PROVE x \in Binders'
    <3>1. PICK c \in Buckets : \E i \in 1 .. Len(table[c]) : x = table[c][i]
      BY BinderPlaces
    <3>2. PICK i \in 1 .. Len(table[c]) : x = table[c][i]
      BY <3>1
    <3>3. CASE c = b
      <4>0. i \in 1 .. Len(table[b]) /\ x = table[b][i]
        BY <3>2, <3>3
      <4>1. i + 1 \in 1 .. Len(table'[b])
        BY <1>5, <4>0
      <4>2. table'[b][i + 1] = x
        BY <1>5, <4>0
      <4> QED
        BY <1>3, <2>1, <4>1, <4>2
    <3>4. CASE c # b
      BY <1>6, <2>1, <3>2, <3>4
    <3> QED
      BY <3>3, <3>4
  <2>3. nb \in Binders'
    <3>1. 1 \in 1 .. Len(table'[b])
      BY <1>5
    <3> QED
      BY <1>3, <1>5, <2>1, <3>1
  <2>4. ASSUME NEW x \in Binders', x # nb PROVE x \in Binders
    <3>1. PICK c \in Buckets : \E i \in 1 .. Len(table'[c]) : x = table'[c][i]
      BY <2>1
    <3>2. PICK i \in 1 .. Len(table'[c]) : x = table'[c][i]
      BY <3>1
    <3>3. CASE c = b
      <4>1. i # 1
        BY <1>5, <2>4, <3>2, <3>3
      <4>2. i - 1 \in 1 .. Len(table[b]) /\ i \in 2 .. Len(table[b]) + 1
        BY <1>5, <3>3, <4>1
      <4>3. table'[b][i] = table[b][i - 1]
        BY <1>5, <4>2
      <4> QED
        BY <1>3, <3>2, <3>3, <4>2, <4>3, BinderPlaces
    <3>4. CASE c # b
      BY <1>6, <3>2, <3>4, BinderPlaces
    <3> QED
      BY <3>3, <3>4
  <2> QED
    BY <2>2, <2>3, <2>4
<1>9. /\ f \in Seq(Binder) /\ Len(f) = Len(e) + 1
      /\ \A i \in 1 .. Len(e) : f[i] = e[i]
      /\ f[Len(e) + 1] = nb
  BY <1>2
<1>10. Listed(f)'
  <2>1. Len(f) <= MaxBinders
    BY <1>1, <1>9
  <2>2. \A i \in 1 .. Len(f) : f[i].at = i
    BY <1>1, <1>4, <1>9 DEF InOrder, Listed
  <2>3. {f[i] : i \in 1 .. Len(f)} = {e[i] : i \in 1 .. Len(e)} \union {nb}
    BY <1>1, <1>9
  <2> QED
    BY <1>8, <2>1, <2>2, <2>3 DEF InOrder, Listed
<1>11. Threaded(f)'
  <2>1. top' = f[Len(f)].key /\ Len(f) # 0
    BY <1>1, <1>3, <1>4, <1>9
  <2>2. ASSUME NEW i \in 1 .. Len(f)
        PROVE  f[i].prevtop = IF i = 1 THEN NoKey ELSE f[i - 1].key
    <3>1. CASE i = Len(e) + 1
      <4>1. Len(e) # 0 => f[i - 1] = e[Len(e)]
        BY <1>1, <1>9, <3>1
      <4> QED
        BY <1>1, <1>4, <1>9, <3>1, <4>1 DEF InOrder, Threaded
    <3>2. CASE i \in 1 .. Len(e)
      <4>1. f[i] = e[i] /\ (i # 1 => f[i - 1] = e[i - 1])
        BY <1>1, <1>9, <3>2
      <4> QED
        BY <3>2, <4>1 DEF InOrder, Threaded
    <3> QED
      BY <1>1, <1>9, <3>1, <3>2
  <2> QED
    BY <2>1, <2>2 DEF Threaded
<1>12. Chained'
  <2> SUFFICES ASSUME NEW c \in Buckets, NEW i \in 1 .. Len(table'[c])
               PROVE  /\ hash[table'[c][i].key] = c
                      /\ \A j \in 1 .. i - 1 : table'[c][j].at > table'[c][i].at
    BY DEF Chained
  <2>1. CASE c # b
    BY <1>6, <2>1 DEF Chained
  <2>2. CASE c = b /\ i = 1
    BY <1>4, <1>5, <2>2
  <2>3. CASE c = b /\ i # 1
    <3>1. /\ i - 1 \in 1 .. Len(table[b]) /\ table'[b][i] = table[b][i - 1]
          /\ i \in Int
      <4>1. i - 1 \in 1 .. Len(table[b]) /\ i \in 2 .. Len(table[b]) + 1
        BY <1>5, <2>3
      <4>2. table'[b][i] = table[b][i - 1]
        BY <1>5, <4>1
      <4>3. i \in Int
        BY <4>1
      <4> QED
        BY <4>1, <4>2, <4>3
    <3>2. table[b][i - 1].at <= Len(e) /\ table[b][i - 1].at \in Nat
      <4>1. table[b][i - 1] \in Binders
        BY <1>3, <3>1, BinderPlaces
      <4>2. \A x \in Binders : x.at \in 1 .. Len(e)
        BY <1>1 DEF InOrder, Listed
      <4>3. table[b][i - 1].at \in 1 .. Len(e)
        BY <4>1, <4>2
      <4> QED
        BY <1>1, <4>3
    <3>3. ASSUME NEW j \in 1 .. i - 1 PROVE table'[b][j].at > table'[b][i].at
      <4>1. CASE j = 1
        <5>1. table'[b][j].at = Len(e) + 1
          BY <1>4, <1>5, <4>1
        <5> QED
          BY <1>1, <3>1, <3>2, <5>1
      <4>2. CASE j # 1
        <5>0. i \in Int /\ i - 1 \in 1 .. Len(table[b]) /\ Len(table[b]) \in Nat
          BY <1>5, <3>1
        <5>1. j - 1 \in 1 .. (i - 1) - 1 /\ j \in 2 .. Len(table[b]) + 1
          BY <4>2, <5>0
        <5>2. table'[b][j] = table[b][j - 1]
          BY <1>5, <5>1
        <5>3. table[b][j - 1].at > table[b][i - 1].at
          BY <1>3, <3>1, <5>1 DEF Chained
        <5> QED
          BY <3>1, <5>2, <5>3
      <4> QED
        BY <4>1, <4>2
    <3>4. hash[table'[b][i].key] = b
      <4>1. hash[table[b][i - 1].key] = b
        BY <1>3, <3>1 DEF Chained
      <4> QED
        BY <3>1, <4>1
    <3> QED
      BY <2>3, <3>3, <3>4
  <2> QED
    BY <2>1, <2>2, <2>3
<1> QED
  BY <1>2, <1>7, <1>8, <1>9, <1>10, <1>11, <1>12 DEF InOrder

-------------------------------------------------------------------------------
(* TAB_pop takes the last binder of the list: it is the first of the       *)
(* chain that its key falls on.                                            *)
LEMMA PopInOrder ==
  ASSUME Typed, Chained, NEW e \in Seq(Binder), InOrder(e), TAB_pop,
         NEW b, b = hash[top], NEW last, last = e[Len(e)],
         NEW f, f = [i \in 1 .. Len(e) - 1 |-> e[i]]
  PROVE  /\ Len(e) \in Nat \ {0} /\ last \in Binders
         /\ last = First(table, top) /\ last.key = top /\ last.at = Len(e)
         /\ Binders' = Binders \ {last}
         /\ f \in Seq(Binder) /\ InOrder(f)'
         /\ Typed' /\ Chained'
<1>1. /\ closing /\ top # NoKey /\ table[hash[top]] # <<>> /\ hash' = hash
      /\ table' = [table EXCEPT ![hash[top]] = Tail(@)]
      /\ top' = First(table, top).prevtop
      /\ closing' = (First(table, top).key # Mark)
  BY DEF TAB_pop, IsEmpty, Without
<1>2. Len(e) \in Nat \ {0}
  BY <1>1 DEF InOrder, Threaded
<1>3. /\ last \in Binder /\ last.key = top /\ last.at = Len(e) /\ last \in Binders
  <2>1. Len(e) \in 1 .. Len(e)
    BY <1>2
  <2> QED
    BY <1>2, <2>1 DEF InOrder, Threaded, Listed
<1>4. \A x \in Binders : x \in Binder /\ x.at <= Len(e) /\ (x.at = Len(e) => x = last)
  BY <1>2 DEF InOrder, Listed
<1>5. b \in Buckets /\ table[b] \in Seq(Binder) /\ table[b] # <<>>
  <2>1. top \in Keys
    BY <1>3 DEF Binder
  <2> QED
    BY <1>1, <2>1 DEF Typed
<1>6. /\ Len(table[b]) \in Nat \ {0} /\ table'[b] = Tail(table[b])
      /\ table'[b] \in Seq(Binder) /\ Len(table'[b]) = Len(table[b]) - 1
      /\ \A i \in 1 .. Len(table[b]) - 1 : table'[b][i] = table[b][i + 1]
      /\ 1 \in 1 .. Len(table[b])
  <2>1. table'[b] = Tail(table[b])
    BY <1>1, <1>5 DEF Typed
  <2>2. Len(table[b]) \in Nat \ {0}
    BY <1>5, Uncons
  <2> QED
    BY <1>5, <2>1, <2>2, Uncons
<1>7. \A c \in Buckets : c # b => table'[c] = table[c]
  BY <1>1 DEF Typed
(* Where the last binder is.                                               *)
<1>8. ASSUME NEW c \in Buckets, NEW i \in 1 .. Len(table[c]), table[c][i] = last
      PROVE  c = b /\ i = 1
  <2>1. c = b
    BY <1>3, <1>8 DEF Chained
  <2>2. i = 1
    <3> SUFFICES ASSUME i # 1 PROVE FALSE
      OBVIOUS
    <3>1. 1 \in 1 .. i - 1
      BY <1>6, <2>1
    <3>2. table[c][1].at > Len(e)
      BY <1>3, <1>8, <3>1 DEF Chained
    <3>3. table[c][1] \in Binders
      BY <1>5, <1>6, <2>1, BinderPlaces
    <3>4. table[c][1].at <= Len(e) /\ table[c][1].at \in Nat
      BY <1>4, <3>3 DEF Binder
    <3> QED
      BY <1>2, <3>2, <3>4
  <2> QED
    BY <2>1, <2>2
<1>9. table[b][1] = last
  <2>1. PICK c \in Buckets : \E i \in 1 .. Len(table[c]) : last = table[c][i]
    BY <1>3, BinderPlaces
  <2>2. PICK i \in 1 .. Len(table[c]) : last = table[c][i]
    BY <2>1
  <2> QED
    BY <1>8, <2>2
<1>10. First(table, top) = last
  BY <1>9 DEF First
<1>11. Typed'
  BY <1>1, <1>6, <1>7 DEF Typed
<1>12. Binders' = Binders \ {last}
  <2>1. \A x : x \in Binders' <=>
                 \E c \in Buckets : \E i \in 1 .. Len(table'[c]) : x = table'[c][i]
    BY DEF Binders
  <2>2. ASSUME NEW x \in Binders, x # last PROVE x \in Binders'
    <3>1. PICK c \in Buckets : \E i \in 1 .. Len(table[c]) : x = table[c][i]
      BY BinderPlaces
    <3>2. PICK i \in 1 .. Len(table[c]) : x = table[c][i]
      BY <3>1
    <3>3. CASE c = b
      <4>1. i - 1 \in 1 .. Len(table[b]) - 1 /\ i - 1 \in 1 .. Len(table'[b])
        BY <1>6, <1>9, <2>2, <3>2, <3>3
      <4>2. table'[b][i - 1] = table[b][(i - 1) + 1] /\ (i - 1) + 1 = i
        BY <1>6, <4>1
      <4> QED
        BY <1>5, <2>1, <3>2, <3>3, <4>1, <4>2
    <3>4. CASE c # b
      BY <1>7, <2>1, <3>2, <3>4
    <3> QED
      BY <3>3, <3>4
  <2>3. ASSUME NEW x \in Binders' PROVE x \in Binders /\ x # last
    <3>1. PICK c \in Buckets : \E i \in 1 .. Len(table'[c]) : x = table'[c][i]
      BY <2>1
    <3>2. PICK i \in 1 .. Len(table'[c]) : x = table'[c][i]
      BY <3>1
    <3>3. CASE c = b
      <4>0. i \in 1 .. Len(table[b]) - 1
        BY <1>6, <3>3
      <4>1. i + 1 \in 1 .. Len(table[b]) /\ i + 1 # 1
        BY <1>6, <4>0
      <4>2. x = table[b][i + 1]
        BY <1>6, <3>2, <3>3, <4>0
      <4> QED
        BY <1>5, <1>8, <4>1, <4>2, BinderPlaces
    <3>4. CASE c # b
      BY <1>7, <1>8, <3>2, <3>4, BinderPlaces
    <3> QED
      BY <3>3, <3>4
  <2> QED
    BY <2>2, <2>3
<1>13. /\ f \in Seq(Binder) /\ Len(f) = Len(e) - 1
       /\ \A i \in 1 .. Len(e) - 1 : f[i] = e[i]
  <2>1. \A i \in 1 .. Len(e) - 1 : f[i] = e[i] /\ e[i] \in Binder
    BY <1>2
  <2>2. Len(e) - 1 \in Nat /\ f \in [1 .. Len(e) - 1 -> Binder]
    BY <1>2, <2>1
  <2> QED
    BY <2>1, <2>2
<1>14. Listed(f)'
  <2>1. Len(f) <= MaxBinders /\ \A i \in 1 .. Len(f) : f[i].at = i
    BY <1>2, <1>13, MaxBindersAssumption DEF InOrder, Listed
  <2>2. {f[i] : i \in 1 .. Len(f)} = {e[i] : i \in 1 .. Len(e)} \ {last}
    <3>1. \A i \in 1 .. Len(e) : e[i].at = i /\ (i = Len(e) \/ i \in 1 .. Len(e) - 1)
      BY <1>2 DEF InOrder, Listed
    <3> QED
      BY <1>2, <1>13, <3>1
  <2> QED
    BY <1>12, <2>1, <2>2 DEF InOrder, Listed
<1>15. Threaded(f)'
  <2>1. top' = IF Len(f) = 0 THEN NoKey ELSE f[Len(f)].key
    <3>1. top' = IF Len(e) = 1 THEN NoKey ELSE e[Len(e) - 1].key
      <4>1. Len(e) \in 1 .. Len(e) /\ top' = last.prevtop
        BY <1>1, <1>2, <1>10
      <4> QED
        BY <4>1 DEF InOrder, Threaded
    <3>2. Len(e) # 1 => f[Len(f)] = e[Len(e) - 1]
      <4>1. Len(e) # 1 => Len(e) - 1 \in 1 .. Len(e) - 1
        BY <1>2, LastPlace
      <4>2. Len(e) # 1 => f[Len(e) - 1] = e[Len(e) - 1]
        BY <1>13, <4>1
      <4> QED
        BY <1>13, <4>2
    <3>3. Len(f) = 0 <=> Len(e) = 1
      BY <1>2, <1>13
    <3> QED
      BY <1>13, <3>1, <3>2, <3>3
  <2>2. \A i \in 1 .. Len(f) : f[i].prevtop = IF i = 1 THEN NoKey ELSE f[i - 1].key
    <3> SUFFICES ASSUME NEW i \in 1 .. Len(f)
                 PROVE  f[i].prevtop = IF i = 1 THEN NoKey ELSE f[i - 1].key
      OBVIOUS
    <3>1. i \in 1 .. Len(e) /\ f[i] = e[i] /\ (i # 1 => f[i - 1] = e[i - 1])
      BY <1>2, <1>13
    <3> QED
      BY <3>1 DEF InOrder, Threaded
  <2> QED
    BY <2>1, <2>2 DEF Threaded
<1>16. Chained'
  <2> SUFFICES ASSUME NEW c \in Buckets, NEW i \in 1 .. Len(table'[c])
               PROVE  /\ hash[table'[c][i].key] = c
                      /\ \A j \in 1 .. i - 1 : table'[c][j].at > table'[c][i].at
    BY <1>1 DEF Chained
  <2>1. CASE c # b
    BY <1>7, <2>1 DEF Chained
  <2>2. CASE c = b
    <3>0. i \in 1 .. Len(table[b]) - 1
      BY <1>6, <2>2
    <3>1. i + 1 \in 1 .. Len(table[b])
      BY <1>6, <3>0
    <3>2. table'[b][i] = table[b][i + 1]
      BY <1>6, <3>0
    <3>3. ASSUME NEW j \in 1 .. i - 1 PROVE table'[b][j].at > table'[b][i].at
      <4>1. j \in 1 .. Len(table[b]) - 1 /\ j + 1 \in 1 .. (i + 1) - 1
        BY <1>6, <3>0
      <4>2. table'[b][j] = table[b][j + 1]
        BY <1>6, <4>1
      <4>3. table[b][j + 1].at > table[b][i + 1].at
        BY <1>5, <3>1, <4>1 DEF Chained
      <4> QED
        BY <3>2, <4>2, <4>3
    <3>4. hash[table[b][i + 1].key] = b
      BY <1>5, <3>1 DEF Chained
    <3> QED
      BY <2>2, <3>2, <3>3, <3>4
  <2> QED
    BY <2>1, <2>2
<1> QED
  BY <1>2, <1>3, <1>10, <1>11, <1>12, <1>13, <1>14, <1>15, <1>16 DEF InOrder

LEMMA InitTable ==
  ASSUME Init
  PROVE  TableInv
<1>1. Typed /\ Chained
  <2>1. table \in [Buckets -> Seq(Binder)] /\ \A b \in Buckets : Len(table[b]) = 0
    BY DEF Init
  <2>2. hash \in [Keys -> Buckets] /\ closing \in BOOLEAN
    BY HashesAssumption DEF Init
  <2> QED
    BY <2>1, <2>2 DEF Typed, Chained
<1> DEFINE e == <<>>
<1>2. e \in Seq(Binder) /\ Len(e) = 0
  OBVIOUS
<1>3. Binders = {}
  <2>1. \A b \in Buckets : Len(table[b]) = 0
    BY DEF Init
  <2> QED
    BY <2>1 DEF Binders
<1>4. InOrder(e)
  BY <1>2, <1>3, MaxBindersAssumption DEF Init, InOrder, Listed, Threaded
<1> QED
  BY <1>1, <1>2, <1>4 DEF TableInv

LEMMA StepTable ==
  ASSUME TableInv, [Next]_vars
  PROVE  TableInv'
<1>1. PICK e \in Seq(Binder) : InOrder(e)
  BY DEF TableInv
<1>2. ASSUME NEW k \in Keys, NEW v \in Values \union {Null}, TAB_enter(k, v),
             Stamp <= MaxBinders, UNCHANGED <<hash, closing>>
      PROVE  TableInv'
  <2> DEFINE nb == [key |-> k, value |-> v, prevtop |-> top, at |-> Len(e) + 1]
  <2>1. \E n, b, f : n = nb /\ b = hash[k] /\ f = Append(e, n)
    OBVIOUS
  <2>2. PICK n, b, f : n = nb /\ b = hash[k] /\ f = Append(e, n)
    BY <2>1
  <2>3. f \in Seq(Binder) /\ InOrder(f)' /\ Typed' /\ Chained'
    BY <1>1, <1>2, <2>2, EnterInOrder DEF TableInv
  <2> QED
    BY <2>3 DEF TableInv
<1>3. CASE \E s \in Symbols, v \in Values : S_enter(s, v)
  BY <1>2, <1>3, Keyed DEF S_enter
<1>4. CASE S_beginScope
  BY <1>2, <1>4, Keyed DEF S_beginScope
<1>5. CASE S_endScope \/ UNCHANGED vars
  <2>1. hash' = hash /\ table' = table /\ top' = top /\ closing' \in BOOLEAN
    BY <1>5 DEF S_endScope, vars, TableInv, Typed
  <2>2. Binders' = Binders
    BY <2>1 DEF Binders
  <2>3. InOrder(e)'
    BY <1>1, <2>1, <2>2 DEF InOrder, Listed, Threaded
  <2>4. Typed' /\ Chained'
    BY <2>1 DEF TableInv, Typed, Chained
  <2> QED
    BY <2>3, <2>4 DEF TableInv
<1>6. CASE TAB_pop
  <2>1. \E b, last, f : /\ b = hash[top] /\ last = e[Len(e)]
                        /\ f = [i \in 1 .. Len(e) - 1 |-> e[i]]
    OBVIOUS
  <2>2. PICK b, last, f : /\ b = hash[top] /\ last = e[Len(e)]
                          /\ f = [i \in 1 .. Len(e) - 1 |-> e[i]]
    BY <2>1
  <2>3. f \in Seq(Binder) /\ InOrder(f)' /\ Typed' /\ Chained'
    BY <1>1, <1>6, <2>2, PopInOrder DEF TableInv
  <2> QED
    BY <2>3 DEF TableInv
<1> QED
  BY <1>3, <1>4, <1>5, <1>6 DEF Next

(* At every moment there is a list of the binders in the order they were   *)
(* entered that the thread of tops and the chains follow.                  *)
THEOREM TableInOrder == Spec => []TableInv
BY InitTable, StepTable, PTL DEF Spec

-------------------------------------------------------------------------------
(* Sets of binders that were entered at different times: the place of a    *)
(* binder among them in the order of entry.                                *)
Stamped(M) ==
  IsFiniteSet(M) /\ \A b, c \in M : b.at \in Nat /\ (b.at = c.at => b = c)

Rank(M, b) == Cardinality({c \in M : c.at <= b.at})

LEMMA RankOne ==
  ASSUME NEW M, Stamped(M), NEW b \in M, NEW c \in M
  PROVE  /\ Rank(M, b) \in 1 .. Cardinality(M) /\ Cardinality(M) \in Nat
         /\ b.at < c.at => Rank(M, b) < Rank(M, c)
         /\ Rank(M, b) = Rank(M, c) => b = c
<1> DEFINE upTo(x) == {y \in M : y.at <= x.at}
<1>1. ASSUME NEW x \in M
      PROVE  /\ IsFiniteSet(upTo(x)) /\ Cardinality(upTo(x)) \in 1 .. Cardinality(M)
             /\ Cardinality(M) \in Nat
  <2>1. upTo(x) \subseteq M /\ x \in upTo(x)
    BY DEF Stamped
  <2> HIDE DEF upTo
  <2>2. /\ IsFiniteSet(upTo(x)) /\ Cardinality(upTo(x)) <= Cardinality(M)
        /\ Cardinality(M) \in Nat /\ Cardinality(upTo(x)) \in Nat
    BY <2>1, FS_Subset, FS_CardinalityType DEF Stamped
  <2>3. Cardinality(upTo(x)) # 0
    BY <2>1, <2>2, FS_EmptySet
  <2> QED
    BY <2>2, <2>3
<1>2. ASSUME NEW x \in M, NEW y \in M, x.at < y.at
      PROVE  Cardinality(upTo(x)) < Cardinality(upTo(y))
  <2>1. upTo(x) \subseteq upTo(y) /\ y \in upTo(y) /\ y \notin upTo(x)
    BY <1>2 DEF Stamped
  <2>2. /\ IsFiniteSet(upTo(x)) /\ IsFiniteSet(upTo(y))
        /\ Cardinality(upTo(x)) \in Nat /\ Cardinality(upTo(y)) \in Nat
    BY <1>1
  <2> HIDE DEF upTo
  <2>3. /\ Cardinality(upTo(x)) <= Cardinality(upTo(y))
        /\ Cardinality(upTo(y)) = Cardinality(upTo(x)) => upTo(y) = upTo(x)
    BY <2>1, <2>2, FS_Subset
  <2> QED
    BY <2>1, <2>2, <2>3
<1>3. \A x \in M : Rank(M, x) = Cardinality(upTo(x))
  BY DEF Rank
<1> HIDE DEF upTo
<1>4. Rank(M, b) = Rank(M, c) => ~(b.at < c.at) /\ ~(c.at < b.at)
  BY <1>1, <1>2, <1>3
<1>5. Rank(M, b) = Rank(M, c) => b = c
  BY <1>4 DEF Stamped
<1> QED
  BY <1>1, <1>2, <1>3, <1>5

(* Every place is taken: there are as many places as binders.              *)
LEMMA RankAll ==
  ASSUME NEW M, Stamped(M), NEW j \in 1 .. Cardinality(M)
  PROVE  \E b \in M : Rank(M, b) = j
<1> DEFINE N == Cardinality(M)
           r == [b \in M |-> Rank(M, b)]
<1>1. N \in Nat /\ IsFiniteSet(M)
  BY FS_CardinalityType DEF Stamped
<1>2. r \in [M -> 1 .. N] /\ \A b, c \in M : r[b] = r[c] => b = c
  BY RankOne
<1>3. IsFiniteSet(1 .. N) /\ Cardinality(1 .. N) = Cardinality(M)
  BY <1>1, UpTo
<1> HIDE DEF N, r
<1>4. r \in Injection(M, 1 .. N)
  BY <1>2 DEF Injection, IsInjective
<1>5. r \in Surjection(M, 1 .. N)
  BY <1>3, <1>4, FS_Injection
<1> QED
  BY <1>5 DEF Surjection, r, N

(* Binders as a list in the order of their stamps.                         *)
LEMMA ListStamped ==
  ASSUME NEW e \in Seq(Binder), \A i \in 1 .. Len(e) : e[i].at = i,
         NEW B, B = {e[i] : i \in 1 .. Len(e)}
  PROVE  /\ B \subseteq Binder /\ Stamped(B) /\ Cardinality(B) = Len(e)
         /\ \A i \in 1 .. Len(e) : e[i] \in B /\ Rank(B, e[i]) = i
<1>1. Len(e) \in Nat
  OBVIOUS
<1>2. \A i \in 1 .. Len(e) : e[i].at = i /\ e[i] \in B /\ e[i] \in Binder
  OBVIOUS
<1>3. ASSUME NEW k \in 0 .. Len(e)
      PROVE  /\ IsFiniteSet({b \in B : b.at <= k})
             /\ Cardinality({b \in B : b.at <= k}) = k
  <2> DEFINE low == {b \in B : b.at <= k}
             g == [b \in low |-> b.at]
  <2>1. IsFiniteSet(1 .. k) /\ Cardinality(1 .. k) = k
    BY UpTo
  <2>2. \A b \in low : b.at \in 1 .. k /\ b = e[b.at]
    BY <1>1
  <2>3. \A i \in 1 .. k : e[i] \in low /\ e[i].at = i
    BY <1>1, <1>2
  <2> HIDE DEF low
  <2>4. g \in Injection(low, 1 .. k)
    BY <2>2 DEF Injection, IsInjective
  <2>5. g \in Surjection(low, 1 .. k)
    <3>1. \A i \in 1 .. k : g[e[i]] = i
      BY <2>3
    <3> QED
      BY <2>2, <2>3, <3>1 DEF Surjection
  <2>6. IsFiniteSet(low) /\ Cardinality(low) = k
    <3> HIDE DEF g
    <3> QED
      BY <2>1, <2>4, <2>5, FS_Injection
  <2> QED
    BY <2>6 DEF low
<1>4. {b \in B : b.at <= Len(e)} = B
  BY <1>1, <1>2
<1>5. IsFiniteSet(B) /\ Cardinality(B) = Len(e)
  <2>1. Len(e) \in 0 .. Len(e)
    BY <1>1
  <2>2. /\ IsFiniteSet({b \in B : b.at <= Len(e)})
        /\ Cardinality({b \in B : b.at <= Len(e)}) = Len(e)
    BY <1>3, <2>1
  <2> QED
    BY <1>4, <2>2
<1>6. B \subseteq Binder /\ Stamped(B)
  <2>1. \A b \in B : b.at \in Nat /\ b = e[b.at] /\ b \in Binder
    BY <1>1, <1>2
  <2>2. \A b, c \in B : b.at \in Nat /\ (b.at = c.at => b = c)
    BY <2>1
  <2> QED
    BY <1>5, <2>1, <2>2 DEF Stamped
<1>7. ASSUME NEW i \in 1 .. Len(e) PROVE Rank(B, e[i]) = i
  <2>1. e[i].at = i /\ i \in 0 .. Len(e)
    BY <1>1, <1>2
  <2> QED
    BY <1>3, <2>1 DEF Rank
<1> QED
  BY <1>2, <1>5, <1>6, <1>7

LEMMA ListedStamped ==
  ASSUME NEW e \in Seq(Binder), Listed(e)
  PROVE  /\ Stamped(Binders) /\ Cardinality(Binders) = Len(e)
         /\ \A i \in 1 .. Len(e) : e[i] \in Binders /\ Rank(Binders, e[i]) = i
BY ListStamped DEF Listed

LEMMA EnteredIs ==
  ASSUME NEW e \in Seq(Binder), Listed(e)
  PROVE  Len(Entered) = Len(e) /\ \A i \in 1 .. Len(e) : Entered[i] = e[i]
<1>1. Cardinality(Binders) = Len(e) /\ Stamped(Binders) /\ Len(e) \in Nat
  BY ListedStamped
<1>2. Entered = [i \in 1 .. Len(e) |-> CHOOSE b \in Binders : Rank(Binders, b) = i]
  BY <1>1 DEF Entered, Rank
<1>3. ASSUME NEW i \in 1 .. Len(e)
      PROVE  (CHOOSE b \in Binders : Rank(Binders, b) = i) = e[i]
  <2>1. e[i] \in Binders /\ Rank(Binders, e[i]) = i
    BY ListedStamped
  <2>2. \A b \in Binders : Rank(Binders, b) = i => b = e[i]
    BY <1>1, <2>1, RankOne
  <2> QED
    BY <2>1, <2>2
<1>4. Entered = [i \in 1 .. Len(e) |-> e[i]]
  BY <1>2, <1>3
<1>5. [i \in 1 .. Len(e) |-> e[i]] = e
  OBVIOUS
<1> QED
  BY <1>4, <1>5

(* The thread of tops and the chains agree, whatever keys collide: top is  *)
(* the key entered last, each binder remembers the key entered before it,  *)
(* and a chain lists its binders newest first.                             *)
THEOREM ThreadFollowsChains == Spec => []ThreadMatchesChains
<1>1. TableInv => ThreadMatchesChains
  <2> SUFFICES ASSUME TableInv PROVE ThreadMatchesChains
    OBVIOUS
  <2>1. PICK e \in Seq(Binder) : InOrder(e)
    BY DEF TableInv
  <2>2. Len(Entered) = Len(e) /\ \A i \in 1 .. Len(e) : Entered[i] = e[i]
    BY <2>1, EnteredIs DEF InOrder
  <2>3. Len(e) \in Nat
    OBVIOUS
  <2>4. top = IF Len(Entered) = 0 THEN NoKey ELSE Entered[Len(Entered)].key
    BY <2>1, <2>2, <2>3 DEF InOrder, Threaded
  <2>5. ASSUME NEW i \in 1 .. Len(Entered)
        PROVE  Entered[i].prevtop = IF i = 1 THEN NoKey ELSE Entered[i - 1].key
    <3>1. i # 1 => i - 1 \in 1 .. Len(e)
      BY <2>2, <2>3
    <3> QED
      BY <2>1, <2>2, <3>1 DEF InOrder, Threaded
  <2>6. \A b \in Buckets : \A i \in 1 .. Len(table[b]) :
          /\ hash[table[b][i].key] = b
          /\ i > 1 => table[b][i - 1].at > table[b][i].at
    BY DEF TableInv, Chained
  <2> QED
    BY <2>4, <2>5, <2>6 DEF ThreadMatchesChains
<1> QED
  BY <1>1, TableInOrder, PTL
-------------------------------------------------------------------------------
(* What the binders show.                                                  *)
Mappings == [Symbols -> Values \union {Null}]

NewestOf(M) ==
  IF M = {} THEN Null ELSE (CHOOSE b \in M : \A c \in M : c.at <= b.at).value

Shown(B, s) == NewestOf({b \in B : b.key = s})

LEMMA ViewIs == \A B : View(B) = [s \in Symbols |-> Shown(B, s)]
BY DEF View, Shown, NewestOf

LEMMA SubStamped ==
  ASSUME NEW M, Stamped(M), NEW N, N \subseteq M
  PROVE  Stamped(N)
BY FS_Subset DEF Stamped

(* Some binders that were entered at different times have a newest one.    *)
LEMMA Newest ==
  ASSUME NEW M, Stamped(M), M # {}
  PROVE  \E b \in M : \A c \in M : c.at <= b.at
<1>1. Cardinality(M) \in 1 .. Cardinality(M)
  <2>1. Cardinality(M) \in Nat /\ Cardinality(M) # 0
    BY FS_CardinalityType, FS_EmptySet DEF Stamped
  <2> QED
    BY <2>1
<1>2. PICK b \in M : Rank(M, b) = Cardinality(M)
  BY <1>1, RankAll
<1>3. ASSUME NEW c \in M PROVE ~(b.at < c.at)
  <2>1. Rank(M, c) \in 1 .. Cardinality(M) /\ (b.at < c.at => Rank(M, b) < Rank(M, c))
    BY RankOne
  <2> QED
    BY <1>1, <1>2, <2>1
<1> QED
  BY <1>3 DEF Stamped

(* A binder no other one of its key is newer than shows its value.         *)
LEMMA ShownNewest ==
  ASSUME NEW B, Stamped(B), NEW b \in B, \A c \in B : c.key = b.key => c.at <= b.at
  PROVE  Shown(B, b.key) = b.value
<1> DEFINE of == {c \in B : c.key = b.key}
<1>1. b \in of /\ \A c \in of : c.at <= b.at
  OBVIOUS
<1>2. ASSUME NEW d \in of, \A c \in of : c.at <= d.at PROVE d = b
  <2>1. d.at <= b.at /\ b.at <= d.at /\ d.at \in Nat /\ b.at \in Nat
    BY <1>1, <1>2 DEF Stamped
  <2> QED
    BY <2>1 DEF Stamped
<1>3. of # {} /\ (CHOOSE d \in of : \A c \in of : c.at <= d.at) = b
  BY <1>1, <1>2
<1>4. Shown(B, b.key)
        = IF of = {} THEN Null ELSE (CHOOSE d \in of : \A c \in of : c.at <= d.at).value
  BY DEF Shown, NewestOf
<1> QED
  BY <1>3, <1>4

LEMMA ShownOf ==
  ASSUME NEW B, B \subseteq Binder, Stamped(B), NEW s
  PROVE  \/ (\A b \in B : b.key # s) /\ Shown(B, s) = Null
         \/ \E b \in B : /\ b.key = s /\ Shown(B, s) = b.value
                         /\ \A c \in B : c.key = s => c.at <= b.at
<1> DEFINE of == {c \in B : c.key = s}
<1>1. CASE of = {}
  BY <1>1 DEF Shown, NewestOf
<1>2. CASE of # {}
  <2>1. Stamped(of)
    BY SubStamped
  <2>2. PICK b \in of : \A c \in of : c.at <= b.at
    BY <1>2, <2>1, Newest
  <2>3. Shown(B, b.key) = b.value
    BY <2>2, ShownNewest
  <2> QED
    BY <2>2, <2>3
<1> QED
  BY <1>1, <1>2

LEMMA ViewIn ==
  ASSUME NEW B, B \subseteq Binder, Stamped(B)
  PROVE  View(B) \in Mappings
<1>1. ASSUME NEW s \in Symbols PROVE Shown(B, s) \in Values \union {Null}
  BY ShownOf DEF Binder
<1> QED
  BY <1>1, ViewIs DEF Mappings

(* The binding entered last is what its symbol shows; a mark shows nothing.*)
LEMMA ViewWith ==
  ASSUME NEW B, B \subseteq Binder, Stamped(B), NEW nb \in Binder,
         Stamped(B \union {nb}), \A b \in B : b.at < nb.at
  PROVE  /\ nb.key = Mark => View(B \union {nb}) = View(B)
         /\ nb.key \in Symbols =>
              View(B \union {nb}) = [View(B) EXCEPT ![nb.key] = nb.value]
<1> DEFINE C == B \union {nb}
<1>1. ASSUME NEW s \in Symbols, s # nb.key PROVE Shown(C, s) = Shown(B, s)
  <2>1. {b \in C : b.key = s} = {b \in B : b.key = s}
    BY <1>1
  <2> QED
    BY <2>1, Zenon DEF Shown
<1>2. Shown(C, nb.key) = nb.value
  <2>1. nb \in C /\ Stamped(C)
    OBVIOUS
  <2>2. \A c \in C : c.at <= nb.at
    <3>1. nb.at \in Nat /\ \A b \in B : b.at \in Nat
      BY DEF Binder, Stamped
    <3> QED
      BY <3>1
  <2> HIDE DEF C
  <2> QED
    BY <2>1, <2>2, ShownNewest
<1> HIDE DEF C
<1>3. View(C) = [s \in Symbols |-> Shown(C, s)] /\ View(B) = [s \in Symbols |-> Shown(B, s)]
  BY ViewIs
<1>4. nb.key = Mark => View(C) = View(B)
  BY <1>1, <1>3, Keyed
<1>5. nb.key \in Symbols => View(C) = [View(B) EXCEPT ![nb.key] = nb.value]
  BY <1>1, <1>2, <1>3
<1> QED
  BY <1>4, <1>5 DEF C

(* No look-up in a chain can miss: all binders of a key are in the chain   *)
(* the key falls on, and there newer ones stand before older ones.         *)
LEMMA LookIsShown ==
  ASSUME TableInv, NEW s \in Symbols
  PROVE  TAB_look(s) = Shown(Binders, s)
<1>1. PICK e \in Seq(Binder) : InOrder(e)
  BY DEF TableInv
<1>2. Stamped(Binders) /\ Binders \subseteq Binder
  BY <1>1, ListedStamped DEF InOrder, Listed
<1>3. hash[s] \in Buckets /\ table[hash[s]] \in Seq(Binder)
  BY Keyed DEF TableInv, Typed
<1> DEFINE chain == table[hash[s]]
           holding == {i \in 1 .. Len(chain) : chain[i].key = s}
<1>4. TAB_look(s) = IF holding = {} THEN Null
                    ELSE chain[CHOOSE i \in holding : \A j \in holding : i <= j].value
  BY DEF TAB_look
<1>5. ASSUME NEW b \in Binders, b.key = s PROVE \E i \in holding : chain[i] = b
  <2>1. PICK c \in Buckets : \E i \in 1 .. Len(table[c]) : b = table[c][i]
    BY BinderPlaces
  <2>2. PICK i \in 1 .. Len(table[c]) : b = table[c][i]
    BY <2>1
  <2>3. c = hash[s]
    BY <1>5, <2>2 DEF TableInv, Chained
  <2> QED
    BY <1>5, <2>2, <2>3
<1>6. \A i \in holding : chain[i] \in Binders /\ chain[i].key = s
  BY <1>3, BinderPlaces
<1>7. CASE holding = {}
  <2>1. \A b \in Binders : b.key # s
    BY <1>5, <1>7
  <2> QED
    BY <1>4, <1>7, <2>1 DEF Shown, NewestOf
<1>8. CASE holding # {}
  <2>1. holding \subseteq Nat
    BY <1>3
  <2> HIDE DEF holding
  <2>2. \E i \in holding : \A j \in holding : i <= j
    BY <1>8, <2>1, LeastElement
  <2> DEFINE first == CHOOSE i \in holding : \A j \in holding : i <= j
  <2>3. first \in holding /\ \A j \in holding : first <= j
    BY <2>2
  <2> HIDE DEF first
  <2>4. ASSUME NEW c \in Binders, c.key = s PROVE c.at <= chain[first].at
    <3>1. PICK i \in holding : chain[i] = c
      BY <1>5, <2>4
    <3>2. i = first \/ first \in 1 .. i - 1
      BY <1>3, <2>3, <3>1 DEF holding
    <3>3. first \in 1 .. i - 1 => chain[first].at > chain[i].at
      BY <1>3, <3>1 DEF holding, TableInv, Chained
    <3>4. chain[first].at \in Nat /\ c.at \in Nat
      BY <1>2, <1>6, <2>3 DEF Stamped
    <3> QED
      BY <3>1, <3>2, <3>3, <3>4
  <2>5. chain[first] \in Binders /\ chain[first].key = s
    BY <1>6, <2>3
  <2> HIDE DEF chain
  <2>6. Shown(Binders, s) = chain[first].value
    BY <1>2, <2>4, <2>5, ShownNewest
  <2> QED
    BY <1>4, <1>8, <2>6 DEF first
<1> QED
  BY <1>7, <1>8
-------------------------------------------------------------------------------
(* The environment that some binders stand for, as a constant of them.     *)
Marks(B) == {b \in B : b.key = Mark}

Older(B, x) == {b \in B : b.at < x.at}

EnvFrom(B) ==
  [j \in 1 .. Cardinality(Marks(B)) + 1 |->
     View(IF j = Cardinality(Marks(B)) + 1 THEN B
          ELSE Older(B, CHOOSE m \in Marks(B) : Rank(Marks(B), m) = j))]

LEMMA EnvFromIs ==
  ASSUME NEW B, B \subseteq Binder, Stamped(B), NEW M, M = Marks(B),
         NEW n, n = Cardinality(M)
  PROVE  /\ n \in Nat /\ EnvFrom(B) \in Seq(Mappings) /\ Len(EnvFrom(B)) = n + 1
         /\ EnvFrom(B)[n + 1] = View(B)
         /\ \A m \in M : Rank(M, m) \in 1 .. n /\ EnvFrom(B)[Rank(M, m)] = View(Older(B, m))
         /\ \A j \in 1 .. n : \E m \in M : Rank(M, m) = j
<1>1. Stamped(M) /\ n \in Nat
  BY SubStamped, FS_CardinalityType DEF Marks, Stamped
<1>2. \A j \in 1 .. n : \E m \in M : Rank(M, m) = j
  BY <1>1, RankAll
<1>3. \A m \in M : Rank(M, m) \in 1 .. n
  BY <1>1, RankOne
<1>4. ASSUME NEW m \in M PROVE (CHOOSE c \in M : Rank(M, c) = Rank(M, m)) = m
  BY <1>1, RankOne
<1>5. EnvFrom(B) = [j \in 1 .. n + 1 |->
                      View(IF j = n + 1 THEN B
                           ELSE Older(B, CHOOSE m \in M : Rank(M, m) = j))]
  BY DEF EnvFrom
<1>6. ASSUME NEW m \in M PROVE EnvFrom(B)[Rank(M, m)] = View(Older(B, m))
  <2>1. Rank(M, m) \in 1 .. n + 1 /\ Rank(M, m) # n + 1
    BY <1>1, <1>3
  <2> QED
    BY <1>4, <1>5, <2>1
<1>7. EnvFrom(B)[n + 1] = View(B)
  <2>1. n + 1 \in 1 .. n + 1
    BY <1>1
  <2> QED
    BY <1>5, <2>1
<1>8. EnvFrom(B) \in [1 .. n + 1 -> Mappings]
  <2>1. ASSUME NEW m \in M PROVE View(Older(B, m)) \in Mappings
    <3>1. Older(B, m) \subseteq B
      BY DEF Older
    <3>2. Older(B, m) \subseteq Binder /\ Stamped(Older(B, m))
      BY <3>1, SubStamped
    <3> QED
      BY <3>2, ViewIn
  <2>2. ASSUME NEW j \in 1 .. n + 1 PROVE EnvFrom(B)[j] \in Mappings
    <3>1. CASE j = n + 1
      BY <1>7, <3>1, ViewIn
    <3>2. CASE j # n + 1
      <4>1. j \in 1 .. n
        BY <1>1, <3>2
      <4>2. PICK m \in M : Rank(M, m) = j
        BY <1>2, <4>1
      <4> QED
        BY <1>6, <2>1, <4>2
    <3> QED
      BY <3>1, <3>2
  <2> QED
    BY <1>5, <2>2
<1>9. EnvFrom(B) \in Seq(Mappings) /\ Len(EnvFrom(B)) = n + 1
  <2>1. n + 1 \in Nat
    BY <1>1
  <2> HIDE DEF Mappings
  <2> QED
    BY <1>8, <2>1
<1> QED
  BY <1>1, <1>2, <1>3, <1>6, <1>7, <1>9

LEMMA EnvFromAt ==
  \A X, M, n : X \subseteq Binder /\ Stamped(X) /\ M = Marks(X) /\ n = Cardinality(M) =>
    /\ EnvFrom(X) \in Seq(Mappings) /\ Len(EnvFrom(X)) = n + 1
    /\ EnvFrom(X)[n + 1] = View(X)
    /\ \A m \in M : EnvFrom(X)[Rank(M, m)] = View(Older(X, m))
BY EnvFromIs

(* With a mark that nothing marked is newer than, the environment has one  *)
(* scope more than that of the binders older than the mark; the others are *)
(* the same.                                                               *)
LEMMA ScopeAbove ==
  ASSUME NEW B, B \subseteq Binder, Stamped(B), NEW x \in Marks(B),
         \A m \in Marks(B) : m.at <= x.at,
         NEW low, low = Older(B, x)
  PROVE  /\ EnvFrom(B) \in Seq(Mappings) /\ EnvFrom(low) \in Seq(Mappings)
         /\ Len(EnvFrom(low)) \in Nat \ {0} /\ Len(EnvFrom(B)) = Len(EnvFrom(low)) + 1
         /\ \A j \in 1 .. Len(EnvFrom(low)) : EnvFrom(B)[j] = EnvFrom(low)[j]
         /\ EnvFrom(B)[Len(EnvFrom(B))] = View(B)
         /\ EnvFrom(low)[Len(EnvFrom(low))] = View(low)
<1>1. \E M, L, n, l : M = Marks(B) /\ L = Marks(low) /\ n = Cardinality(M) /\ l = Cardinality(L)
  OBVIOUS
<1>2. PICK M, L, n, l : /\ M = Marks(B) /\ L = Marks(low)
                        /\ n = Cardinality(M) /\ l = Cardinality(L)
  BY <1>1
<1>3. low \subseteq B /\ low \subseteq Binder /\ Stamped(low) /\ Stamped(M) /\ Stamped(L)
  <2>1. low \subseteq B /\ M \subseteq B /\ L \subseteq low
    BY <1>2 DEF Older, Marks
  <2> QED
    BY <2>1, SubStamped
<1>4. /\ n \in Nat /\ EnvFrom(B) \in Seq(Mappings) /\ Len(EnvFrom(B)) = n + 1
      /\ EnvFrom(B)[n + 1] = View(B)
      /\ \A m \in M : EnvFrom(B)[Rank(M, m)] = View(Older(B, m))
  BY <1>2, EnvFromIs
<1>5. /\ l \in Nat /\ EnvFrom(low) \in Seq(Mappings) /\ Len(EnvFrom(low)) = l + 1
      /\ EnvFrom(low)[l + 1] = View(low)
      /\ \A m \in L : EnvFrom(low)[Rank(L, m)] = View(Older(low, m))
      /\ \A j \in 1 .. l : \E m \in L : Rank(L, m) = j
  BY <1>2, <1>3, EnvFromIs
<1>6. x \in M /\ L = M \ {x} /\ \A m \in L : m.at < x.at /\ m.at \in Nat /\ x.at \in Nat
  <2>1. ASSUME NEW m \in M, m # x PROVE m.at < x.at
    <3>1. m.at # x.at /\ m.at \in Nat /\ x.at \in Nat /\ m.at <= x.at
      BY <1>2, <2>1 DEF Stamped, Marks
    <3> QED
      BY <3>1
  <2>2. x \in B /\ x.at \in Nat
    BY DEF Marks, Stamped
  <2>3. x \notin low
    BY <2>2 DEF Older
  <2> QED
    BY <1>2, <2>1, <2>2, <2>3 DEF Marks, Older, Stamped
<1>7. n = l + 1
  BY <1>2, <1>3, <1>4, <1>6, FS_RemoveElement DEF Stamped
<1>8. Rank(M, x) = n
  <2>1. {c \in M : c.at <= x.at} = M
    BY <1>2
  <2> QED
    BY <1>2, <2>1, Zenon DEF Rank
<1>9. ASSUME NEW m \in L PROVE Rank(M, m) = Rank(L, m) /\ Older(B, m) = Older(low, m)
  <2>1. {c \in M : c.at <= m.at} = {c \in L : c.at <= m.at}
    BY <1>6
  <2>2. Rank(M, m) = Rank(L, m)
    BY <2>1, Zenon DEF Rank
  <2>3. \A b \in B : b.at < m.at => b.at < x.at
    BY <1>6 DEF Stamped
  <2> QED
    BY <1>3, <2>2, <2>3 DEF Older
<1>10. ASSUME NEW j \in 1 .. l + 1 PROVE EnvFrom(B)[j] = EnvFrom(low)[j]
  <2>1. CASE j = l + 1
    BY <1>4, <1>5, <1>6, <1>7, <1>8, <2>1
  <2>2. CASE j # l + 1
    <3>1. j \in 1 .. l
      BY <1>5, <2>2
    <3>2. PICK m \in L : Rank(L, m) = j
      BY <1>5, <3>1
    <3>3. EnvFrom(B)[j] = View(Older(B, m)) /\ EnvFrom(low)[j] = View(Older(low, m))
      BY <1>4, <1>5, <1>6, <1>9, <3>2
    <3> QED
      BY <1>9, <3>3
  <2> QED
    BY <2>1, <2>2
<1> QED
  BY <1>4, <1>5, <1>7, <1>10

(* A binding entered last changes the innermost scope and no other.        *)
LEMMA ScopeWith ==
  ASSUME NEW B, B \subseteq Binder, Stamped(B), NEW nb \in Binder, nb.key \in Symbols,
         NEW C, \A b : b \in C <=> b \in B \/ b = nb, Stamped(C),
         \A b \in B : b.at < nb.at
  PROVE  /\ EnvFrom(B) \in Seq(Mappings) /\ Len(EnvFrom(B)) \in Nat \ {0}
         /\ EnvFrom(C) = [EnvFrom(B) EXCEPT ![Len(EnvFrom(B))][nb.key] = nb.value]
<1>1. \E M, n : M = Marks(B) /\ n = Cardinality(M)
  OBVIOUS
<1>2. PICK M, n : M = Marks(B) /\ n = Cardinality(M)
  BY <1>1
<1>3. M = Marks(C) /\ C \subseteq Binder
  BY <1>2, Keyed DEF Marks
<1>4. /\ n \in Nat /\ EnvFrom(B) \in Seq(Mappings) /\ Len(EnvFrom(B)) = n + 1
      /\ EnvFrom(B)[n + 1] = View(B)
      /\ \A m \in M : EnvFrom(B)[Rank(M, m)] = View(Older(B, m))
      /\ \A j \in 1 .. n : \E m \in M : Rank(M, m) = j
  BY <1>2, EnvFromIs
<1> HIDE DEF Mappings
<1>5. /\ EnvFrom(C) \in Seq(Mappings) /\ Len(EnvFrom(C)) = n + 1
      /\ EnvFrom(C)[n + 1] = View(C)
      /\ \A m \in M : EnvFrom(C)[Rank(M, m)] = View(Older(C, m))
  <2>1. C \subseteq Binder /\ Stamped(C) /\ M = Marks(C) /\ n = Cardinality(M)
    BY <1>2, <1>3
  <2> QED
    BY <2>1, EnvFromAt
<1>6. ASSUME NEW m \in M PROVE Older(C, m) = Older(B, m)
  <2>1. ~(nb.at < m.at)
    <3>1. m.at < nb.at /\ m.at \in Nat /\ nb.at \in Nat
      BY <1>2 DEF Marks, Binder
    <3> QED
      BY <3>1
  <2> QED
    BY <2>1 DEF Older
<1>7. ASSUME NEW j \in 1 .. n PROVE EnvFrom(C)[j] = EnvFrom(B)[j]
  <2>1. PICK m \in M : Rank(M, m) = j
    BY <1>4
  <2>2. EnvFrom(C)[j] = View(Older(C, m)) /\ EnvFrom(B)[j] = View(Older(B, m))
    BY <1>4, <1>5, <2>1
  <2> QED
    BY <1>6, <2>2
<1>8. EnvFrom(C)[n + 1] = [EnvFrom(B)[n + 1] EXCEPT ![nb.key] = nb.value]
  <2>1. C = B \union {nb}
    OBVIOUS
  <2>2. View(B \union {nb}) = [View(B) EXCEPT ![nb.key] = nb.value]
    BY <2>1, ViewWith
  <2> QED
    BY <1>4, <1>5, <2>1, <2>2
<1>9. /\ EnvFrom(B) \in [1 .. n + 1 -> Mappings] /\ EnvFrom(C) \in [1 .. n + 1 -> Mappings]
      /\ \A j \in 1 .. n + 1 : j = n + 1 \/ j \in 1 .. n
  <2>1. n + 1 \in Nat /\ \A j \in 1 .. n + 1 : j = n + 1 \/ j \in 1 .. n
    BY <1>4
  <2>2. ASSUME NEW s \in Seq(Mappings), Len(s) = n + 1 PROVE s \in [1 .. n + 1 -> Mappings]
    <3> HIDE DEF Mappings
    <3> QED
      BY <2>1, <2>2
  <2> QED
    BY <1>4, <1>5, <2>1, <2>2
<1> HIDE DEF Mappings
<1>10. EnvFrom(C) = [EnvFrom(B) EXCEPT ![n + 1] = [@ EXCEPT ![nb.key] = nb.value]]
  BY <1>4, <1>7, <1>8, <1>9
<1> QED
  BY <1>4, <1>10
-------------------------------------------------------------------------------
LiveOf(B, c) ==
  IF c THEN {b \in B : \E x \in Marks(B) : b.at < x.at /\ \A m \in Marks(B) : m.at <= x.at}
  ELSE B

LEMMA LiveIs == Live = LiveOf(Binders, closing) /\ Live' = LiveOf(Binders', closing')
<1> DEFINE marks(B) == {b.at : b \in {b \in B : b.key = Mark}}
           live(B, c) == IF c THEN {b \in B : \E m \in marks(B) :
                                                b.at < m /\ \A n \in marks(B) : n <= m}
                         ELSE B
<1>1. Live = live(Binders, closing) /\ Live' = live(Binders', closing')
  BY DEF Live
<1>2. ASSUME NEW B, NEW c PROVE live(B, c) = LiveOf(B, c)
  <2>1. \A n : n \in marks(B) <=> \E x \in Marks(B) : n = x.at
    BY DEF Marks
  <2> HIDE DEF marks
  <2> QED
    BY <2>1 DEF LiveOf
<1> HIDE DEF live
<1> QED
  BY <1>1, <1>2

LEMMA EnvOfIs == EnvOf = EnvFrom(Live) /\ EnvOf' = EnvFrom(Live')
BY DEF EnvOf, EnvFrom, Marks, Older, Rank

(* While a scope is being closed, what is older than its mark is live.     *)
LEMMA LiveIsOlder ==
  ASSUME NEW B, Stamped(B), NEW x \in Marks(B), \A m \in Marks(B) : m.at <= x.at
  PROVE  LiveOf(B, TRUE) = Older(B, x)
<1>1. ASSUME NEW y \in Marks(B), \A m \in Marks(B) : m.at <= y.at
      PROVE  y.at = x.at
  <2>1. y.at <= x.at /\ x.at <= y.at /\ x.at \in Nat /\ y.at \in Nat
    BY <1>1 DEF Marks, Stamped
  <2> QED
    BY <2>1
<1> QED
  BY <1>1 DEF Older, LiveOf

LEMMA InitScopes ==
  ASSUME Init
  PROVE  Env!Init
<1>1. Binders = {} /\ Live = Binders
  <2>1. \A b \in Buckets : Len(table[b]) = 0
    BY DEF Init
  <2> QED
    BY <2>1, LiveIs DEF Binders, Init, LiveOf
<1>2. Marks({}) = {} /\ Cardinality(Marks({})) = 0
  BY FS_EmptySet DEF Marks
<1>3. View({}) = [s \in Symbols |-> Null]
  <2>1. \A s : Shown({}, s) = Null
    BY DEF Shown, NewestOf
  <2> QED
    BY <2>1, ViewIs
<1>4. EnvFrom({}) = [j \in 1 .. 1 |-> View({})]
  <2>1. \A j \in 1 .. 1 : j = 1
    OBVIOUS
  <2>2. Cardinality(Marks({})) + 1 = 1
    BY <1>2
  <2> QED
    BY <2>1, <2>2 DEF EnvFrom
<1>5. EnvOf = [j \in 1 .. 1 |-> View({})]
  BY <1>1, <1>4, EnvOfIs
<1>6. [j \in 1 .. 1 |-> View({})] = <<View({})>>
  OBVIOUS
<1> QED
  BY <1>3, <1>5, <1>6 DEF Env!Init

(* A step of the table is a step of the environment, or shows nothing.     *)
LEMMA StepScopes ==
  ASSUME TableInv, TableInv', [Next]_vars
  PROVE  [Env!Next]_EnvOf
<1>1. PICK e \in Seq(Binder) : InOrder(e)
  BY DEF TableInv
<1>2. /\ Stamped(Binders) /\ Binders \subseteq Binder /\ Len(e) \in Nat
      /\ \A b \in Binders : b.at \in Nat /\ b.at <= Len(e)
  <2>1. Stamped(Binders) /\ Len(e) \in Nat
    BY <1>1, ListedStamped DEF InOrder
  <2> QED
    BY <1>1, <2>1 DEF InOrder, Listed
<1>3. Stamped(Binders') /\ Binders' \subseteq Binder
  <2>1. PICK f \in Seq(Binder) : InOrder(f)'
    BY DEF TableInv
  <2>2. /\ \A i \in 1 .. Len(f) : f[i].at = i
        /\ Binders' = {f[i] : i \in 1 .. Len(f)}
    BY <2>1 DEF InOrder, Listed
  <2> QED
    BY <2>2, ListStamped
<1>4. /\ EnvOf = EnvFrom(LiveOf(Binders, closing))
      /\ EnvOf' = EnvFrom(LiveOf(Binders', closing'))
  BY EnvOfIs, LiveIs
<1>5. ASSUME NEW k \in Keys, NEW v \in Values \union {Null}, TAB_enter(k, v), ~closing,
             Stamp <= MaxBinders, UNCHANGED <<hash, closing>>
      PROVE  \E nb \in Binder : /\ nb.key = k /\ nb.value = v
                                /\ Binders' = Binders \union {nb}
                                /\ \A b \in Binders : b.at < nb.at
                                /\ EnvOf = EnvFrom(Binders) /\ EnvOf' = EnvFrom(Binders')
  <2> DEFINE nb == [key |-> k, value |-> v, prevtop |-> top, at |-> Len(e) + 1]
  <2>1. \E n, b, f : n = nb /\ b = hash[k] /\ f = Append(e, n)
    OBVIOUS
  <2>2. PICK n, b, f : n = nb /\ b = hash[k] /\ f = Append(e, n)
    BY <2>1
  <2>3. n \in Binder /\ Binders' = Binders \union {n}
    BY <1>1, <1>5, <2>2, EnterInOrder DEF TableInv
  <2>4. n.key = k /\ n.value = v /\ n.at = Len(e) + 1
    BY <2>2
  <2>5. \A x \in Binders : x.at < n.at
    BY <1>2, <2>4
  <2>6. EnvOf = EnvFrom(Binders) /\ EnvOf' = EnvFrom(Binders')
    BY <1>4, <1>5 DEF LiveOf
  <2> QED
    BY <2>3, <2>4, <2>5, <2>6
<1>6. CASE \E s \in Symbols, v \in Values : S_enter(s, v)
  <2>1. PICK s \in Symbols, v \in Values : S_enter(s, v)
    BY <1>6
  <2>2. PICK nb \in Binder : /\ nb.key = s /\ nb.value = v
                             /\ Binders' = Binders \union {nb}
                             /\ \A b \in Binders : b.at < nb.at
                             /\ EnvOf = EnvFrom(Binders) /\ EnvOf' = EnvFrom(Binders')
    BY <1>5, <2>1, Keyed DEF S_enter
  <2>3. EnvOf' = [EnvOf EXCEPT ![Len(EnvOf)][s] = v]
    BY <1>2, <1>3, <2>2, ScopeWith
  <2> QED
    BY <2>3 DEF Env!Next, Env!Enter
<1>7. CASE S_beginScope
  <2>1. PICK nb \in Binder : /\ nb.key = Mark /\ nb.value = Null
                             /\ Binders' = Binders \union {nb}
                             /\ \A b \in Binders : b.at < nb.at
                             /\ EnvOf = EnvFrom(Binders) /\ EnvOf' = EnvFrom(Binders')
    BY <1>5, <1>7, Keyed DEF S_beginScope
  <2>2. /\ nb \in Marks(Binders') /\ \A m \in Marks(Binders') : m.at <= nb.at
        /\ Binders = Older(Binders', nb)
    <3>1. nb.at \in Nat
      BY DEF Binder
    <3> QED
      BY <1>2, <2>1, <3>1 DEF Marks, Older
  <2>3. View(Binders') = View(Binders)
    BY <1>2, <1>3, <2>1, ViewWith
  <2>4. EnvOf' = Append(EnvOf, EnvOf[Len(EnvOf)])
    <3>1. /\ EnvOf' \in Seq(Mappings) /\ EnvOf \in Seq(Mappings)
          /\ Len(EnvOf) \in Nat \ {0} /\ Len(EnvOf') = Len(EnvOf) + 1
          /\ \A j \in 1 .. Len(EnvOf) : EnvOf'[j] = EnvOf[j]
          /\ EnvOf'[Len(EnvOf')] = EnvOf[Len(EnvOf)]
      <4>1. \A low : low = Older(Binders', nb) =>
              /\ EnvFrom(Binders') \in Seq(Mappings) /\ EnvFrom(low) \in Seq(Mappings)
              /\ Len(EnvFrom(low)) \in Nat \ {0}
              /\ Len(EnvFrom(Binders')) = Len(EnvFrom(low)) + 1
              /\ \A j \in 1 .. Len(EnvFrom(low)) : EnvFrom(Binders')[j] = EnvFrom(low)[j]
              /\ EnvFrom(Binders')[Len(EnvFrom(Binders'))] = View(Binders')
              /\ EnvFrom(low)[Len(EnvFrom(low))] = View(low)
        BY <1>3, <2>2, ScopeAbove
      <4> QED
        BY <2>1, <2>2, <2>3, <4>1
    <3> QED
      BY <3>1, AppendIs
  <2> QED
    BY <2>4 DEF Env!Next, Env!BeginScope, Env!Visible
<1>8. CASE S_endScope
  <2>1. ~closing /\ closing' = TRUE /\ Binders' = Binders /\ Marks(Binders) # {}
    BY <1>8 DEF S_endScope, Binders, Marks
  <2>2. Stamped(Marks(Binders))
    BY <1>2, SubStamped DEF Marks
  <2>3. PICK x \in Marks(Binders) : \A m \in Marks(Binders) : m.at <= x.at
    BY <2>1, <2>2, Newest
  <2>4. EnvOf = EnvFrom(Binders) /\ EnvOf' = EnvFrom(Older(Binders, x))
    BY <1>2, <1>4, <2>1, <2>3, LiveIsOlder DEF LiveOf
  <2>5. /\ EnvOf' \in Seq(Mappings) /\ EnvOf \in Seq(Mappings)
        /\ Len(EnvOf') \in Nat \ {0} /\ Len(EnvOf) = Len(EnvOf') + 1
        /\ \A j \in 1 .. Len(EnvOf') : EnvOf[j] = EnvOf'[j]
    BY <1>2, <2>3, <2>4, ScopeAbove
  <2>6. Len(EnvOf) > 1 /\ EnvOf' = SubSeq(EnvOf, 1, Len(EnvOf) - 1)
    BY <2>5, SubSeqIs
  <2> QED
    BY <2>6 DEF Env!Next, Env!EndScope
<1>9. CASE TAB_pop
  <2>1. \E b, last, f : /\ b = hash[top] /\ last = e[Len(e)]
                        /\ f = [i \in 1 .. Len(e) - 1 |-> e[i]]
    OBVIOUS
  <2>2. PICK b, last, f : /\ b = hash[top] /\ last = e[Len(e)]
                          /\ f = [i \in 1 .. Len(e) - 1 |-> e[i]]
    BY <2>1
  <2>3. /\ last \in Binders /\ last = First(table, top) /\ last.at = Len(e)
        /\ Binders' = Binders \ {last}
    BY <1>1, <1>9, <2>2, PopInOrder DEF TableInv
  <2>4. closing /\ closing' = (last.key # Mark)
    BY <1>9, <2>3 DEF TAB_pop
  <2>5. \A c \in Binders : c.at <= last.at /\ ~(last.at < c.at) /\ (c # last => c.at < last.at)
    <3>1. \A c \in Binders : c.at = last.at => c = last
      BY <1>2, <2>3 DEF Stamped
    <3> QED
      BY <1>2, <2>3, <3>1
  <2>6. CASE last.key = Mark
    <3>1. last \in Marks(Binders) /\ \A m \in Marks(Binders) : m.at <= last.at
      BY <2>3, <2>5, <2>6 DEF Marks
    <3>2. Older(Binders, last) = Binders'
      BY <2>3, <2>5 DEF Older
    <3>3. LiveOf(Binders, closing) = LiveOf(Binders', closing')
      BY <1>2, <2>4, <2>6, <3>1, <3>2, LiveIsOlder DEF LiveOf
    <3> QED
      BY <1>4, <3>3
  <2>7. CASE last.key # Mark
    <3>1. Marks(Binders') = Marks(Binders)
      BY <2>3, <2>7 DEF Marks
    <3>2. \A x \in Marks(Binders) : ~(last.at < x.at)
      BY <2>5 DEF Marks
    <3>3. LiveOf(Binders, closing) = LiveOf(Binders', closing')
      BY <2>3, <2>4, <2>7, <3>1, <3>2 DEF LiveOf
    <3> QED
      BY <1>4, <3>3
  <2> QED
    BY <2>6, <2>7
<1>10. CASE UNCHANGED vars
  BY <1>10 DEF vars, EnvOf, Live, Binders, View
<1> QED
  BY <1>6, <1>7, <1>8, <1>9, <1>10 DEF Next

(* The hash table with its thread of tops is a scoped environment: every   *)
(* step enters a binding, begins a scope, ends the innermost scope and     *)
(* brings back what held when it began, or shows nothing.                  *)
THEOREM TableIsScoped == Spec => ImplementsScopes
<1>1. Init => Env!Init
  BY InitScopes
<1>2. TableInv /\ TableInv' /\ [Next]_vars => [Env!Next]_EnvOf
  BY StepScopes
<1> QED
  BY <1>1, <1>2, TableInOrder, PTL DEF Spec, ImplementsScopes, Env!Spec

(* A look-up finds the newest binding of the symbol, also when other       *)
(* symbols share its chain.                                                *)
THEOREM LookFindsNewest == Spec => []LookFindsVisible
<1>1. ASSUME TableInv, ~closing, NEW s \in Symbols
      PROVE  TAB_look(s) = Env!Visible[s]
  <2>1. PICK e \in Seq(Binder) : InOrder(e)
    BY <1>1 DEF TableInv
  <2>2. Stamped(Binders) /\ Binders \subseteq Binder
    BY <2>1, ListedStamped DEF InOrder, Listed
  <2>3. EnvOf = EnvFrom(Binders)
    BY <1>1, EnvOfIs, LiveIs DEF LiveOf
  <2>4. EnvOf[Len(EnvOf)] = View(Binders)
    BY <2>2, <2>3, EnvFromIs
  <2>5. View(Binders)[s] = Shown(Binders, s)
    BY ViewIs
  <2>6. TAB_look(s) = Shown(Binders, s)
    BY <1>1, LookIsShown
  <2> QED
    BY <2>4, <2>5, <2>6 DEF Env!Visible
<1>2. TableInv => LookFindsVisible
  BY <1>1 DEF LookFindsVisible
<1> QED
  BY <1>2, TableInOrder, PTL
===============================================================================
