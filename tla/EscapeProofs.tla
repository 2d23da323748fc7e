----------------------------- MODULE EscapeProofs -----------------------------
(***************************************************************************)
(* That the names semant.c resolves are known to escape.c, and which       *)
(* declarations its marks can miss, for every program.                     *)
(*                                                                         *)
(* The two tables have different scopes.  Every binder is given the number *)
(* of the scope it is in, in env a function and in venv any construct; fn  *)
(* says how many functions enclose a construct, which puts the binders of  *)
(* venv into the scopes of env.                                            *)
(***************************************************************************)
EXTENDS Escape, WellFoundedInduction, TLAPS

(* A set of naturals that is not empty has a least element.                *)
LEMMA LeastElement ==
  ASSUME NEW S, S \subseteq Nat, S # {}
  PROVE  \E x \in S : \A y \in S : x <= y
<1>1. PICK x \in S : \A y \in S : ~(<<y, x>> \in OpToRel(<, Nat))
  BY WFMin, NatLessThanWellFounded, Zenon
<1>2. ASSUME NEW y \in S PROVE ~(y < x)
  <2>1. y < x => <<y, x>> \in OpToRel(<, Nat)
    BY Zenon DEF OpToRel
  <2> QED
    BY <2>1, <1>1
<1>3. \A y \in S : x \in Nat /\ y \in Nat
  OBVIOUS
<1> QED
  BY <1>2, <1>3

Constructs == {"function", "declarations", "body", "for"}

Declarations ==
  [name : Names, level : Nat, depth : Nat, formal : BOOLEAN, hides : Nat]

Binds(table, d) == d # Mark /\ \E p \in DOMAIN table : table[p] = d

Ascending(table) ==
  \A p, q \in DOMAIN table :
    p < q /\ table[p] # Mark /\ table[q] # Mark => table[p] < table[q]

(* Table has n scopes, and a is the scope each of its places is in.        *)
Scopes(table, a, n) ==
  /\ \A p \in DOMAIN table : a[p] \in 0 .. n
  /\ \A p, q \in DOMAIN table : p <= q => a[p] <= a[q]
  /\ \A p, q \in DOMAIN table : p < q /\ table[q] = Mark => a[p] < a[q]
  /\ \A k \in 1 .. n : \E p \in DOMAIN table : table[p] = Mark /\ a[p] = k

-------------------------------------------------------------------------------
LEMMA Greatest ==
  ASSUME NEW n \in Nat, NEW S, S \subseteq 1 .. n, S # {}
  PROVE  Max(S) \in S /\ \A x \in S : x <= Max(S)
<1> DEFINE T == {n - x : x \in S}
<1>1. T \subseteq Nat /\ T # {}
  <2>1. \A x \in S : n - x \in Nat
    <3> TAKE x \in S
    <3>1. x \in 1 .. n
      OBVIOUS
    <3> QED
      BY <3>1
  <2>2. PICK x : x \in S
    OBVIOUS
  <2>3. n - x \in T
    BY <2>2
  <2> QED
    BY <2>1, <2>3
<1>2. PICK y \in T : \A z \in T : y <= z
  BY <1>1, LeastElement
<1>3. PICK x \in S : y = n - x
  BY <1>2
<1>4. ASSUME NEW z \in S PROVE x >= z
  <2>1. n - x <= n - z
    BY <1>2, <1>3
  <2> QED
    BY <2>1
<1>5. Max(S) \in S /\ \A z \in S : Max(S) >= z
  BY <1>4 DEF Max
<1> QED
  BY <1>5

(* S_endScope takes the places of the last scope.                          *)
LEMMA ScopeEnded ==
  ASSUME NEW S, NEW table \in Seq(S), NEW n \in Nat \ {0}, NEW a, Scopes(table, a, n)
  PROVE  /\ EndScope(table) \in Seq(S)
         /\ \A p : p \in DOMAIN EndScope(table) <=> p \in DOMAIN table /\ a[p] < n
         /\ \A p \in DOMAIN EndScope(table) : EndScope(table)[p] = table[p]
<1> DEFINE M == {i \in DOMAIN table : table[i] = Mark}
           g == Max(M)
           q == Max(M \union {0})
<1>1. Len(table) \in Nat /\ DOMAIN table = 1 .. Len(table)
  OBVIOUS
<1>2. PICK m \in DOMAIN table : table[m] = Mark /\ a[m] = n
  BY DEF Scopes
<1>3. g \in M /\ \A x \in M : x <= g
  BY <1>1, <1>2, Greatest
<1> HIDE DEF g
<1>4. q = g
  <2>1. \A x \in M : x \in Nat
    BY <1>1
  <2> HIDE DEF M
  <2>2. g \in M \union {0} /\ \A x \in M \union {0} : g >= x
    BY <1>3, <2>1
  <2>3. q \in M \union {0} /\ \A x \in M \union {0} : q >= x
    BY <2>2 DEF Max
  <2> HIDE DEF q
  <2>4. q \in Nat /\ g \in Nat /\ q >= g /\ g >= q
    BY <2>1, <2>2, <2>3
  <2> QED
    BY <2>4
<1>5. q \in DOMAIN table /\ table[q] = Mark /\ m <= q
  BY <1>2, <1>3, <1>4
<1>6. a[q] = n
  BY <1>1, <1>2, <1>5 DEF Scopes
<1> HIDE DEF q
<1>7. EndScope(table) = SubSeq(table, 1, q - 1)
  BY DEF EndScope, q
<1>8. /\ EndScope(table) \in Seq(S) /\ DOMAIN EndScope(table) = 1 .. q - 1
      /\ \A p \in 1 .. q - 1 : EndScope(table)[p] = table[p]
  BY <1>1, <1>5, <1>7
<1>9. ASSUME NEW p \in DOMAIN table PROVE p \in 1 .. q - 1 <=> a[p] < n
  <2>1. CASE p < q
    BY <1>1, <1>5, <1>6, <2>1 DEF Scopes
  <2>2. CASE q <= p
    <3>1. a[q] <= a[p] /\ a[p] \in 0 .. n
      BY <1>5, <2>2 DEF Scopes
    <3>2. ~(a[p] < n)
      BY <1>6, <3>1
    <3>3. p \notin 1 .. q - 1
      BY <1>1, <1>5, <2>2
    <3> QED
      BY <3>2, <3>3
  <2> QED
    BY <1>1, <1>5, <2>1, <2>2
<1>10. \A p \in 1 .. q - 1 : p \in DOMAIN table
  BY <1>1, <1>5
<1> QED
  BY <1>8, <1>9, <1>10

LEMMA ScopesAfterEnd ==
  ASSUME NEW S, NEW table \in Seq(S), NEW n \in Nat \ {0}, NEW a, Scopes(table, a, n)
  PROVE  Scopes(EndScope(table), a, n - 1)
<1> DEFINE t == EndScope(table)
<1>1. /\ \A p : p \in DOMAIN t <=> p \in DOMAIN table /\ a[p] < n
      /\ \A p \in DOMAIN t : t[p] = table[p]
  BY ScopeEnded
<1> HIDE DEF t
<1>2. \A p \in DOMAIN t : a[p] \in 0 .. n - 1
  BY <1>1 DEF Scopes
<1>3. ASSUME NEW k \in 1 .. n - 1
      PROVE  \E p \in DOMAIN t : t[p] = Mark /\ a[p] = k
  <2>1. k \in 1 .. n /\ k < n
    OBVIOUS
  <2>2. PICK p \in DOMAIN table : table[p] = Mark /\ a[p] = k
    BY <2>1 DEF Scopes
  <2> QED
    BY <1>1, <2>1, <2>2
<1>4. \A p, q \in DOMAIN t : p <= q => a[p] <= a[q]
  BY <1>1 DEF Scopes
<1>5. \A p, q \in DOMAIN t : p < q /\ t[q] = Mark => a[p] < a[q]
  BY <1>1 DEF Scopes
<1> QED
  BY <1>2, <1>3, <1>4, <1>5 DEF Scopes, t

(* Binders are added to the last scope.                                    *)
LEMMA ScopesMore ==
  ASSUME NEW S, NEW table \in Seq(S), NEW t \in Seq(S), NEW n \in Nat, NEW a, NEW b,
         Scopes(table, a, n), Len(t) >= Len(table),
         \A p \in DOMAIN table : t[p] = table[p] /\ b[p] = a[p],
         \A p \in DOMAIN t \ DOMAIN table : t[p] # Mark /\ b[p] = n
  PROVE  Scopes(t, b, n)
<1>1. /\ Len(table) \in Nat /\ DOMAIN table = 1 .. Len(table)
      /\ Len(t) \in Nat /\ DOMAIN t = 1 .. Len(t)
  OBVIOUS
<1>2. \A p \in DOMAIN t : p \in DOMAIN table \/ (p > Len(table) /\ t[p] # Mark /\ b[p] = n)
  BY <1>1
<1>3. \A p \in DOMAIN table : p \in DOMAIN t /\ p <= Len(table)
  BY <1>1
<1>4. \A p \in DOMAIN t : b[p] \in 0 .. n
  BY <1>2 DEF Scopes
<1>5. ASSUME NEW p \in DOMAIN t, NEW q \in DOMAIN t, p <= q
      PROVE  b[p] <= b[q]
  <2>1. CASE q \in DOMAIN table
    <3>1. p \in DOMAIN table
      BY <1>1, <1>2, <1>5, <2>1
    <3> QED
      BY <1>5, <2>1, <3>1 DEF Scopes
  <2>2. CASE q \notin DOMAIN table
    <3>1. b[q] = n /\ b[p] \in 0 .. n
      BY <1>2, <1>4, <2>2
    <3> QED
      BY <3>1
  <2> QED
    BY <2>1, <2>2
<1>6. ASSUME NEW p \in DOMAIN t, NEW q \in DOMAIN t, p < q, t[q] = Mark
      PROVE  b[p] < b[q]
  <2>1. q \in DOMAIN table
    BY <1>2, <1>6
  <2>2. p \in DOMAIN table
    BY <1>1, <1>2, <1>6, <2>1
  <2> QED
    BY <1>6, <2>1, <2>2 DEF Scopes
<1>7. \A k \in 1 .. n : \E p \in DOMAIN t : t[p] = Mark /\ b[p] = k
  BY <1>3 DEF Scopes
<1> QED
  BY <1>4, <1>5, <1>6, <1>7 DEF Scopes

(* A scope begins.                                                         *)
LEMMA ScopesBegun ==
  ASSUME NEW table, NEW t, NEW m \in Nat, NEW n \in Nat, NEW a, NEW b,
         Scopes(table, a, n), DOMAIN table = 1 .. m, DOMAIN t = 1 .. m + 1,
         t[m + 1] = Mark, b[m + 1] = n + 1,
         \A p \in 1 .. m : t[p] = table[p] /\ b[p] = a[p],
         NEW k, k = n + 1
  PROVE  Scopes(t, b, k)
<1> DEFINE l == m + 1
<1>1. l \in Nat \ {0} /\ DOMAIN table = 1 .. m /\ DOMAIN t = 1 .. l
  OBVIOUS
<1>2. \A p \in DOMAIN t : p \in DOMAIN table \/ p = l
  BY <1>1
<1>3. \A p \in DOMAIN table : p \in DOMAIN t /\ p < l
  BY <1>1
<1>4. l \in DOMAIN t /\ t[l] = Mark /\ b[l] = n + 1
  BY <1>1
<1> HIDE DEF l
<1>5. \A p \in DOMAIN table : b[p] \in 0 .. n /\ t[p] = table[p] /\ b[p] = a[p]
  BY DEF Scopes
<1>6. \A p \in DOMAIN t : b[p] \in 0 .. n + 1
  BY <1>2, <1>4, <1>5
<1>7. ASSUME NEW p \in DOMAIN t, NEW q \in DOMAIN t, p < q
      PROVE  b[p] <= b[q] /\ (t[q] = Mark => b[p] < b[q])
  <2>1. p \in DOMAIN table
    BY <1>1, <1>2, <1>3, <1>7
  <2>2. CASE q = l
    BY <1>4, <1>5, <2>1, <2>2
  <2>3. CASE q \in DOMAIN table
    <3>1. /\ t[p] = table[p] /\ t[q] = table[q] /\ b[p] = a[p] /\ b[q] = a[q]
          /\ p < q /\ p <= q
      BY <1>1, <1>5, <1>7, <2>1, <2>3
    <3>2. a[p] <= a[q] /\ (table[q] = Mark => a[p] < a[q])
      BY <2>1, <2>3, <3>1 DEF Scopes
    <3> QED
      BY <3>1, <3>2
  <2> QED
    BY <1>2, <2>2, <2>3
<1>8. ASSUME NEW i \in 1 .. n + 1
      PROVE  \E p \in DOMAIN t : t[p] = Mark /\ b[p] = i
  <2>1. i = n + 1 \/ i \in 1 .. n
    OBVIOUS
  <2>2. CASE i \in 1 .. n
    <3>1. PICK p \in DOMAIN table : table[p] = Mark /\ a[p] = i
      BY <2>2 DEF Scopes
    <3> QED
      BY <1>3, <1>5, <3>1
  <2> QED
    BY <1>4, <2>1, <2>2
<1>9. ASSUME NEW p \in DOMAIN t, NEW q \in DOMAIN t, p <= q
      PROVE  b[p] <= b[q]
  <2>1. CASE p = q
    BY <1>6, <2>1
  <2>2. CASE p < q
    BY <1>7, <2>2
  <2> QED
    BY <1>1, <1>9, <2>1, <2>2
<1>10. \A p, q \in DOMAIN t : p < q /\ t[q] = Mark => b[p] < b[q]
  BY <1>7
<1>11. Scopes(t, b, n + 1)
  BY <1>6, <1>8, <1>9, <1>10 DEF Scopes
<1> QED
  BY <1>11

-------------------------------------------------------------------------------
Typed ==
  /\ decls \in Seq(Declarations)
  /\ env \in Seq(0 .. Len(decls)) /\ venv \in Seq(0 .. Len(decls))
  /\ levels \in Seq(Nat) /\ functions \in Nat /\ nest \in Seq(Constructs)
  /\ escaped \subseteq DOMAIN decls /\ needed \subseteq DOMAIN decls

(* A function has a level that none before it has had.                     *)
LevelsRise ==
  /\ \A i \in DOMAIN levels : levels[i] \in 1 .. functions
  /\ \A i, j \in DOMAIN levels : i < j => levels[i] < levels[j]

(* What is visible to semant.c is in the table of escape.c as well, there  *)
(* may be variables of ended scopes beside it but no formals of ended      *)
(* functions, and of these variables each hides, perhaps through others,   *)
(* what is visible under its name.                                         *)
Resolved ==
  /\ Ascending(env) /\ Ascending(venv)
  /\ \A d : Binds(venv, d) => Binds(env, d)
  /\ \A d : Binds(env, d) /\ decls[d].formal => Binds(venv, d)
  /\ \A e : Binds(env, e) /\ decls[e].hides # 0 =>
       /\ Binds(env, decls[e].hides) /\ decls[e].hides < e
       /\ decls[decls[e].hides].name = decls[e].name
  /\ \A d, e : Binds(venv, d) /\ Binds(env, e) /\ d < e /\ decls[d].name = decls[e].name
               /\ ~decls[e].formal => decls[e].hides >= d

(* Of the constructs s the outermost i include fn[i] functions, all of     *)
(* them d.                                                                 *)
Enclosing(fn, s, d) ==
  /\ fn[0] = 0 /\ fn[Len(s)] = d
  /\ \A i \in 0 .. Len(s) : fn[i] \in Nat
  /\ \A i, j \in 0 .. Len(s) : i <= j => fn[i] <= fn[j]
  /\ \A i \in 1 .. Len(s) :
       IF s[i] = "function" THEN fn[i - 1] + 1 = fn[i] ELSE fn[i - 1] = fn[i]

Layout(a, c, fn) ==
  /\ Scopes(env, a, depth) /\ Scopes(venv, c, Len(nest))
  /\ Enclosing(fn, nest, depth)
  /\ \A p \in DOMAIN env : env[p] # Mark =>
       /\ decls[env[p]].depth = a[p]
       /\ decls[env[p]].level = IF a[p] = 0 THEN 0 ELSE levels[a[p]]
  /\ \A p \in DOMAIN venv : venv[p] # Mark =>
       /\ decls[venv[p]].depth = fn[c[p]]
       /\ decls[venv[p]].formal => c[p] # 0 /\ nest[c[p]] = "function"

Inv == /\ Typed /\ LevelsRise /\ Resolved /\ MarkedUnlessHidden
       /\ \E a, c, fn : Layout(a, c, fn)

-------------------------------------------------------------------------------
LEMMA BoundAreDeclared ==
  ASSUME Typed, NEW table \in Seq(0 .. Len(decls)), NEW d, Binds(table, d)
  PROVE  d \in DOMAIN decls /\ d \in Nat /\ d # 0 /\ decls[d] \in Declarations
<1>1. Len(decls) \in Nat /\ DOMAIN decls = 1 .. Len(decls) /\ decls \in Seq(Declarations)
  BY DEF Typed
<1>2. PICK p \in DOMAIN table : table[p] = d /\ d # 0
  BY DEF Binds, Mark
<1>3. d \in 0 .. Len(decls)
  BY <1>2
<1> QED
  BY <1>1, <1>2, <1>3

LEMMA LookFinds ==
  ASSUME Typed, NEW table \in Seq(0 .. Len(decls)), Ascending(table), NEW x
  PROVE  /\ Look(table, x) \in Nat
         /\ \/ Look(table, x) = 0 /\ \A d : Binds(table, d) => decls[d].name # x
            \/ /\ Look(table, x) # 0 /\ Binds(table, Look(table, x))
               /\ decls[Look(table, x)].name = x
               /\ \A d : Binds(table, d) /\ decls[d].name = x => d <= Look(table, x)
<1> DEFINE found == {i \in DOMAIN table : table[i] # Mark /\ decls[table[i]].name = x}
           m == Max(found)
<1>1. Len(table) \in Nat /\ DOMAIN table = 1 .. Len(table)
  OBVIOUS
<1>2. CASE found = {}
  <2>1. Look(table, x) = 0
    BY <1>2 DEF Look
  <2>2. \A d : Binds(table, d) => decls[d].name # x
    BY <1>2 DEF Binds
  <2> QED
    BY <2>1, <2>2
<1>3. CASE found # {}
  <2>1. m \in found /\ \A i \in found : i <= m
    BY <1>1, <1>3, Greatest
  <2>2. Look(table, x) = table[m]
    BY <1>3 DEF Look
  <2> HIDE DEF m
  <2>3. m \in DOMAIN table /\ table[m] # Mark /\ decls[table[m]].name = x
    BY <2>1
  <2>4. Binds(table, table[m]) /\ table[m] \in Nat
    BY <2>3, BoundAreDeclared DEF Binds
  <2>5. ASSUME NEW d, Binds(table, d), decls[d].name = x
        PROVE  d <= table[m]
    <3>1. PICK i \in DOMAIN table : table[i] = d /\ d # Mark
      BY <2>5 DEF Binds
    <3>2. i \in found
      BY <2>5, <3>1
    <3>3. i = m \/ i < m
      BY <1>1, <2>1, <2>3, <3>2
    <3>4. d \in Nat
      BY <2>5, BoundAreDeclared
    <3> QED
      BY <2>3, <2>4, <3>1, <3>3, <3>4 DEF Ascending
  <2> QED
    BY <2>2, <2>3, <2>4, <2>5 DEF Mark
<1> QED
  BY <1>2, <1>3

(* What is visible in venv is found in env, or something newer is.         *)
LEMMA BothLooks ==
  ASSUME Typed, Resolved, NEW x
  PROVE  /\ Look(env, x) \in Nat /\ Look(venv, x) \in Nat /\ Look(env, x) >= Look(venv, x)
         /\ Look(env, x) # 0 => Binds(env, Look(env, x)) /\ decls[Look(env, x)].name = x
         /\ Look(venv, x) # 0 => Binds(venv, Look(venv, x)) /\ decls[Look(venv, x)].name = x
         /\ \A d : Binds(venv, d) /\ decls[d].name = x => d <= Look(venv, x)
<1>1. /\ env \in Seq(0 .. Len(decls)) /\ venv \in Seq(0 .. Len(decls))
      /\ Ascending(env) /\ Ascending(venv) /\ \A d : Binds(venv, d) => Binds(env, d)
  BY DEF Typed, Resolved
<1>2. /\ Look(env, x) \in Nat
      /\ \/ Look(env, x) = 0 /\ \A d : Binds(env, d) => decls[d].name # x
         \/ /\ Look(env, x) # 0 /\ Binds(env, Look(env, x)) /\ decls[Look(env, x)].name = x
            /\ \A d : Binds(env, d) /\ decls[d].name = x => d <= Look(env, x)
  BY <1>1, LookFinds
<1>3. /\ Look(venv, x) \in Nat
      /\ \/ Look(venv, x) = 0 /\ \A d : Binds(venv, d) => decls[d].name # x
         \/ /\ Look(venv, x) # 0 /\ Binds(venv, Look(venv, x)) /\ decls[Look(venv, x)].name = x
            /\ \A d : Binds(venv, d) /\ decls[d].name = x => d <= Look(venv, x)
  BY <1>1, LookFinds
<1>4. Look(env, x) >= Look(venv, x)
  <2>1. CASE Look(venv, x) = 0
    BY <1>2, <2>1
  <2>2. CASE Look(venv, x) # 0
    <3>1. Binds(env, Look(venv, x)) /\ decls[Look(venv, x)].name = x
      BY <1>1, <1>3, <2>2
    <3> QED
      BY <1>2, <1>3, <3>1
  <2> QED
    BY <2>1, <2>2
<1> QED
  BY <1>2, <1>3, <1>4

(* Where a variable of an ended scope is in the way of one that is         *)
(* visible, the oldest such has hidden that one itself.                    *)
LEMMA OldestHides ==
  ASSUME Typed, Resolved, NEW x, Look(venv, x) # 0, Look(env, x) # Look(venv, x)
  PROVE  HiddenByVariable(Look(venv, x))
<1> DEFINE d == Look(venv, x)
           Later == {e \in Nat : Binds(env, e) /\ decls[e].name = x /\ e > d}
<1>1. /\ Look(env, x) \in Nat /\ d \in Nat /\ Look(env, x) > d /\ d # 0
      /\ Binds(env, Look(env, x)) /\ decls[Look(env, x)].name = x
      /\ Binds(venv, d) /\ decls[d].name = x
      /\ \A e : Binds(venv, e) /\ decls[e].name = x => e <= d
  BY BothLooks
<1> HIDE DEF d
<1>2. PICK e \in Later : \A f \in Later : e <= f
  <2>1. Later \subseteq Nat /\ Look(env, x) \in Later
    BY <1>1
  <2> QED
    BY <2>1, LeastElement
<1>3. e \in Nat /\ Binds(env, e) /\ decls[e].name = x /\ e > d
  BY <1>2
<1>4. ~decls[e].formal
  <2>1. ~Binds(venv, e)
    BY <1>1, <1>3
  <2> QED
    BY <1>3, <2>1 DEF Resolved
<1>5. e \in DOMAIN decls /\ decls[e].hides \in Nat
  BY <1>3, BoundAreDeclared DEF Typed, Declarations
<1>6. decls[e].hides >= d
  BY <1>1, <1>3, <1>4 DEF Resolved
<1>7. decls[e].hides # 0
  BY <1>1, <1>5, <1>6
<1>8. /\ Binds(env, decls[e].hides) /\ decls[e].hides < e /\ decls[decls[e].hides].name = x
  BY <1>3, <1>7 DEF Resolved
<1>9. decls[e].hides = d
  <2> SUFFICES ASSUME decls[e].hides > d PROVE FALSE
    BY <1>1, <1>5, <1>6
  <2>1. decls[e].hides \in Later
    BY <1>5, <1>8
  <2>2. e <= decls[e].hides
    BY <1>2, <2>1
  <2> QED
    BY <1>3, <1>5, <1>8, <2>2
<1> QED
  BY <1>4, <1>5, <1>9 DEF HiddenByVariable, d

(* A binder was declared in the function the walk is in exactly when it    *)
(* was declared at its depth.                                              *)
LEMMA SameFunction ==
  ASSUME Typed, LevelsRise, NEW a, NEW c, NEW fn, Layout(a, c, fn), NEW d, Binds(env, d)
  PROVE  /\ decls[d].depth \in Nat /\ depth \in Nat
         /\ decls[d].depth < depth <=> decls[d].level # Level
<1>1. PICK p \in DOMAIN env : env[p] = d /\ d # Mark
  BY DEF Binds
<1>2. /\ decls[d].depth = a[p] /\ a[p] \in 0 .. depth
      /\ decls[d].level = IF a[p] = 0 THEN 0 ELSE levels[a[p]]
  BY <1>1 DEF Layout, Enclosing, Scopes
<1>3. /\ depth \in Nat /\ DOMAIN levels = 1 .. depth /\ levels \in Seq(Nat)
      /\ depth = 0 <=> levels = <<>>
  BY DEF Typed, depth
<1>4. CASE depth = 0
  BY <1>2, <1>3, <1>4 DEF Level
<1>5. CASE depth # 0
  <2>1. Level = levels[depth] /\ depth \in DOMAIN levels
    BY <1>3, <1>5 DEF Level, Last, depth
  <2>2. levels[depth] \in 1 .. functions /\ levels[depth] \in Nat /\ levels[depth] # 0
    BY <2>1 DEF LevelsRise, Typed
  <2>3. CASE a[p] = 0
    BY <1>2, <1>3, <1>5, <2>1, <2>2, <2>3
  <2>4. CASE a[p] # 0 /\ a[p] # depth
    <3>1. a[p] \in DOMAIN levels /\ a[p] < depth
      BY <1>2, <1>3, <2>4
    <3>2. levels[a[p]] < levels[depth] /\ levels[a[p]] \in Nat
      BY <1>3, <2>1, <3>1 DEF LevelsRise
    <3> QED
      BY <1>2, <1>3, <2>1, <2>2, <2>4, <3>1, <3>2
  <2>5. CASE a[p] # 0 /\ a[p] = depth
    BY <1>2, <1>3, <2>1, <2>5
  <2> QED
    BY <2>3, <2>4, <2>5
<1> QED
  BY <1>2, <1>3, <1>4, <1>5

LEMMA SimpleVarMarks ==
  ASSUME Inv, NEW x \in Names, SimpleVar(x)
  PROVE  (MarkedUnlessHidden /\ escaped \subseteq DOMAIN decls /\ needed \subseteq DOMAIN decls)'
<1> DEFINE d == Look(venv, x)
           e == Look(env, x)
<1>1. /\ d # 0 /\ decls' = decls
      /\ escaped' = escaped \union {f \in {e} \ {0} : IsOuter(f)}
      /\ needed' = needed \union {f \in {d} : decls[f].level # Level}
  BY DEF SimpleVar
<1>2. PICK a, c, fn : Layout(a, c, fn)
  BY DEF Inv
<1>3. Typed /\ LevelsRise /\ Resolved /\ MarkedUnlessHidden
  BY DEF Inv
<1>4. /\ e \in Nat /\ d \in Nat /\ e >= d /\ Binds(env, e) /\ decls[e].name = x
      /\ Binds(venv, d) /\ decls[d].name = x
      /\ \A f : Binds(venv, f) /\ decls[f].name = x => f <= d
  BY <1>1, <1>3, BothLooks
<1>5. d \in DOMAIN decls /\ e \in DOMAIN decls
  BY <1>3, <1>4, BoundAreDeclared DEF Typed
<1>6. e # 0 /\ decls[e].hides \in Nat
  <2> HIDE DEF d, e
  <2>1. decls[e] \in Declarations
    BY <1>3, <1>5 DEF Typed
  <2> QED
    BY <1>1, <1>4, <2>1 DEF Declarations
<1>7. (IsOuter(e) <=> decls[e].level # Level)
  BY <1>2, <1>3, <1>4, SameFunction DEF IsOuter
<1>8. e # d => HiddenByVariable(d)
  BY <1>1, <1>3, OldestHides
<1>9. e # d => decls[e].hides # 0 /\ ~decls[e].formal
  <2> SUFFICES ASSUME e # d PROVE decls[e].hides # 0 /\ ~decls[e].formal
    OBVIOUS
  <2>1. e > d
    BY <1>4
  <2>2. ~Binds(venv, e)
    BY <1>4, <2>1
  <2>3. ~decls[e].formal
    BY <1>3, <1>4, <2>2 DEF Resolved
  <2>4. decls[e].hides >= d
    BY <1>3, <1>4, <2>1, <2>3 DEF Resolved
  <2> QED
    BY <1>1, <1>4, <1>6, <2>3, <2>4
<1> HIDE DEF d, e
<1>10. ASSUME NEW f \in needed' \ escaped' PROVE HiddenByVariable(f)
  <2>1. CASE f \in needed
    BY <1>1, <1>3, <1>10, <2>1 DEF MarkedUnlessHidden
  <2>2. CASE f = d /\ decls[d].level # Level
    <3>1. e = d => f \in escaped'
      BY <1>1, <1>6, <1>7, <2>2
    <3> QED
      BY <1>8, <1>10, <2>2, <3>1
  <2> QED
    BY <1>1, <1>10, <2>1, <2>2
<1>11. ASSUME NEW f \in escaped' \ needed' PROVE decls[f].hides # 0 /\ ~decls[f].formal
  <2>1. CASE f \in escaped
    BY <1>1, <1>3, <1>11, <2>1 DEF MarkedUnlessHidden
  <2>2. CASE f = e /\ IsOuter(e)
    <3>1. e = d => f \in needed'
      BY <1>1, <1>7, <2>2
    <3> QED
      BY <1>9, <1>11, <2>2, <3>1
  <2> QED
    BY <1>1, <1>11, <2>1, <2>2
<1>12. \A f : HiddenByVariable(f)' <=> HiddenByVariable(f)
  BY <1>1 DEF HiddenByVariable
<1>13. MarkedUnlessHidden'
  BY <1>1, <1>10, <1>11, <1>12 DEF MarkedUnlessHidden
<1>14. escaped' \subseteq DOMAIN decls /\ needed' \subseteq DOMAIN decls
  BY <1>1, <1>3, <1>5 DEF Typed
<1> QED
  BY <1>1, <1>13, <1>14

LEMMA SimpleVarStep ==
  ASSUME Inv, NEW x \in Names, SimpleVar(x)
  PROVE  Inv'
<1>1. /\ decls' = decls /\ env' = env /\ venv' = venv /\ levels' = levels
      /\ functions' = functions /\ nest' = nest
  BY DEF SimpleVar
<1>2. PICK a, c, fn : Layout(a, c, fn)
  BY DEF Inv
<1>3. Typed /\ LevelsRise /\ Resolved
  BY DEF Inv
<1>4. MarkedUnlessHidden' /\ Typed'
  BY <1>1, <1>3, SimpleVarMarks DEF Typed
<1>5. LevelsRise' /\ Resolved'
  BY <1>1, <1>3 DEF LevelsRise, Resolved
<1>6. Layout(a, c, fn)'
  BY <1>1, <1>2 DEF Layout, Enclosing, depth
<1> QED
  BY <1>4, <1>5, <1>6 DEF Inv

(* A step that marks nothing keeps the marks right.                        *)
LEMMA MarksStay ==
  ASSUME Typed, MarkedUnlessHidden, escaped' = escaped, needed' = needed,
         DOMAIN decls \subseteq DOMAIN decls', \A d \in DOMAIN decls : decls'[d] = decls[d]
  PROVE  MarkedUnlessHidden'
<1>1. \A d : HiddenByVariable(d) => HiddenByVariable(d)'
  BY DEF HiddenByVariable
<1> QED
  BY <1>1 DEF Typed, MarkedUnlessHidden

-------------------------------------------------------------------------------
(* A scope ends: which binders are left, those declared outside of it.     *)
LEMMA BindersLeft ==
  ASSUME NEW S, NEW table \in Seq(S), NEW n \in Nat \ {0}, NEW a, Scopes(table, a, n)
  PROVE  /\ \A d : Binds(EndScope(table), d) <=>
                     d # Mark /\ \E p \in DOMAIN table : table[p] = d /\ a[p] < n
         /\ Ascending(table) => Ascending(EndScope(table))
<1> DEFINE t == EndScope(table)
<1>1. /\ \A p : p \in DOMAIN t <=> p \in DOMAIN table /\ a[p] < n
      /\ \A p \in DOMAIN t : t[p] = table[p]
  BY ScopeEnded
<1> HIDE DEF t
<1>2. \A d : Binds(t, d) <=> d # Mark /\ \E p \in DOMAIN table : table[p] = d /\ a[p] < n
  BY <1>1 DEF Binds
<1>3. Ascending(table) => Ascending(t)
  BY <1>1 DEF Ascending
<1> QED
  BY <1>2, <1>3 DEF t

LEMMA ResolvedLess ==
  ASSUME Resolved, decls' = decls, Ascending(env'), Ascending(venv'),
         \A d : Binds(env', d) => Binds(env, d), \A d : Binds(venv', d) => Binds(venv, d),
         \A d : Binds(venv', d) => Binds(env', d),
         \A d : Binds(env', d) /\ decls[d].formal => Binds(venv', d),
         \A e : Binds(env', e) /\ decls[e].hides # 0 => Binds(env', decls[e].hides)
  PROVE  Resolved'
BY DEF Resolved

LEMMA Innermost ==
  ASSUME Typed, nest # <<>>
  PROVE  /\ Len(nest) \in Nat \ {0} /\ Last(nest) = nest[Len(nest)]
         /\ Front(nest) \in Seq(Constructs) /\ Len(Front(nest)) = Len(nest) - 1
         /\ \A i \in 1 .. Len(nest) - 1 : Front(nest)[i] = nest[i]
<1>1. nest \in Seq(Constructs) /\ Len(nest) \in Nat \ {0}
  BY DEF Typed
<1>2. Last(nest) = nest[Len(nest)] /\ Front(nest) = SubSeq(nest, 1, Len(nest) - 1)
  BY DEF Last, Front
<1>3. /\ SubSeq(nest, 1, Len(nest) - 1) \in Seq(Constructs)
      /\ Len(SubSeq(nest, 1, Len(nest) - 1)) = Len(nest) - 1
      /\ \A i \in 1 .. Len(nest) - 1 : SubSeq(nest, 1, Len(nest) - 1)[i] = nest[i]
  <2>1. PICK m \in Nat : m = Len(nest) - 1
    BY <1>1
  <2>2. /\ SubSeq(nest, 1, m) \in Seq(Constructs) /\ Len(SubSeq(nest, 1, m)) = m
        /\ \A i \in 1 .. m : SubSeq(nest, 1, m)[i] = nest[i]
    <3>1. m + 1 = Len(nest)
      BY <1>1, <2>1
    <3> QED
      BY <1>1, <3>1
  <2> QED
    BY <2>1, <2>2
<1> QED
  BY <1>1, <1>2, <1>3

(* let and for end: the table of escape.c stays as it is.                  *)
LEMMA EndOfVariables ==
  ASSUME Inv, EndLet \/ EndFor
  PROVE  Inv'
<1>1. /\ nest # <<>> /\ Last(nest) \in {"body", "for"} /\ nest' = Front(nest)
      /\ venv' = EndScope(venv) /\ env' = env /\ decls' = decls /\ levels' = levels
      /\ functions' = functions /\ escaped' = escaped /\ needed' = needed
  BY DEF EndLet, EndFor, In, EnvAfterLet
<1>2. PICK a, c, fn : Layout(a, c, fn)
  BY DEF Inv
<1>3. Typed /\ LevelsRise /\ Resolved /\ MarkedUnlessHidden
  BY DEF Inv
<1> DEFINE n == Len(nest)
<1>4. /\ n \in Nat \ {0} /\ nest[n] \in {"body", "for"}
      /\ nest' \in Seq(Constructs) /\ Len(nest') = n - 1
      /\ \A i \in 1 .. n - 1 : nest'[i] = nest[i]
  BY <1>1, <1>3, Innermost
<1>5. venv \in Seq(0 .. Len(decls)) /\ Scopes(venv, c, n) /\ Ascending(venv)
  BY <1>2, <1>3 DEF Typed, Layout, Enclosing, Resolved
<1> HIDE DEF n
<1>6. /\ venv' \in Seq(0 .. Len(decls)) /\ Scopes(venv', c, n - 1) /\ Ascending(venv')
      /\ \A p : p \in DOMAIN venv' <=> p \in DOMAIN venv /\ c[p] < n
      /\ \A p \in DOMAIN venv' : venv'[p] = venv[p]
      /\ \A d : Binds(venv', d) <=>
                  d # Mark /\ \E p \in DOMAIN venv : venv[p] = d /\ c[p] < n
  BY <1>1, <1>4, <1>5, ScopeEnded, ScopesAfterEnd, BindersLeft
<1>7. \A p \in DOMAIN venv : c[p] \in 0 .. n
  BY <1>5 DEF Scopes
<1>8. \A d : Binds(venv', d) => Binds(venv, d)
  BY <1>6 DEF Binds
<1>9. ASSUME NEW d, Binds(env, d), decls[d].formal PROVE Binds(venv', d)
  <2>1. Binds(venv, d)
    BY <1>3, <1>9 DEF Resolved
  <2>2. PICK p \in DOMAIN venv : venv[p] = d /\ d # Mark
    BY <2>1 DEF Binds
  <2>3. c[p] # 0 /\ nest[c[p]] = "function"
    BY <1>2, <1>9, <2>2 DEF Layout, Enclosing
  <2>4. c[p] # n
    BY <1>4, <2>3
  <2>5. c[p] < n
    BY <1>4, <1>7, <2>2, <2>4
  <2> QED
    BY <1>6, <2>2, <2>5
<1>10. Resolved'
  <2>1. /\ \A d : Binds(env', d) => Binds(env, d)
        /\ \A d : Binds(venv', d) => Binds(env', d)
        /\ \A e : Binds(env', e) /\ decls[e].hides # 0 => Binds(env', decls[e].hides)
    BY <1>1, <1>3, <1>8 DEF Resolved
  <2>2. Ascending(env')
    BY <1>1, <1>3 DEF Resolved
  <2> QED
    BY <1>1, <1>3, <1>6, <1>8, <1>9, <2>1, <2>2, ResolvedLess
<1>11. Layout(a, c, fn)'
  <2>1. fn[n - 1] = fn[n] /\ fn[n] = depth
    <3>1. n \in 1 .. n /\ nest[n] # "function"
      BY <1>4
    <3>2. /\ fn[n] = depth
          /\ \A i \in 1 .. n :
               IF nest[i] = "function" THEN fn[i - 1] + 1 = fn[i] ELSE fn[i - 1] = fn[i]
      BY <1>2 DEF Layout, Enclosing, n
    <3> QED
      BY <3>1, <3>2
  <2>2. /\ \A i \in 0 .. n - 1 : i \in 0 .. n
        /\ \A i \in 1 .. n - 1 : i \in 1 .. n /\ nest'[i] = nest[i]
    BY <1>4
  <2>3. \A p \in DOMAIN venv' : venv'[p] # Mark =>
          /\ decls[venv'[p]].depth = fn[c[p]]
          /\ decls[venv'[p]].formal => c[p] # 0 /\ nest'[c[p]] = "function"
    <3> TAKE p \in DOMAIN venv'
    <3>1. p \in DOMAIN venv /\ c[p] < n /\ venv'[p] = venv[p] /\ c[p] \in 0 .. n
      BY <1>6, <1>7
    <3>2. c[p] # 0 => c[p] \in 1 .. n - 1
      BY <1>4, <3>1
    <3> QED
      BY <1>2, <2>2, <3>1, <3>2 DEF Layout, Enclosing
  <2>4. Scopes(env', a, depth')
    BY <1>1, <1>2 DEF Layout, Enclosing, depth
  <2>5. /\ fn[0] = 0 /\ fn[Len(nest')] = depth'
        /\ \A i \in 0 .. Len(nest') : fn[i] \in Nat
        /\ \A i, j \in 0 .. Len(nest') : i <= j => fn[i] <= fn[j]
        /\ \A i \in 1 .. Len(nest') :
             IF nest'[i] = "function" THEN fn[i - 1] + 1 = fn[i] ELSE fn[i - 1] = fn[i]
    BY <1>1, <1>2, <1>4, <2>1, <2>2 DEF Layout, Enclosing, depth, n
  <2>6. \A p \in DOMAIN env' : env'[p] # Mark =>
          /\ decls[env'[p]].depth = a[p]
          /\ decls[env'[p]].level = IF a[p] = 0 THEN 0 ELSE levels[a[p]]
    BY <1>1, <1>2 DEF Layout, Enclosing
  <2> QED
    BY <1>1, <1>4, <1>6, <2>3, <2>4, <2>5, <2>6 DEF Layout, Enclosing
<1>12. Typed' /\ LevelsRise'
  BY <1>1, <1>3, <1>4, <1>6 DEF Typed, LevelsRise
<1>13. MarkedUnlessHidden'
  BY <1>1, <1>3, MarksStay
<1> QED
  BY <1>10, <1>11, <1>12, <1>13 DEF Inv

(* A function ends, and with it the variables of the lets and fors in it   *)
(* that escape.c had kept.                                                 *)
LEMMA EndOfFunction ==
  ASSUME Inv, EndFunction
  PROVE  Inv'
<1>1. /\ nest # <<>> /\ Last(nest) = "function" /\ nest' = Front(nest)
      /\ venv' = EndScope(venv) /\ env' = EndScope(env) /\ decls' = decls
      /\ levels' = Front(levels) /\ functions' = functions
      /\ escaped' = escaped /\ needed' = needed
  BY DEF EndFunction, In
<1>2. PICK a, c, fn : Layout(a, c, fn)
  BY DEF Inv
<1>3. Typed /\ LevelsRise /\ Resolved /\ MarkedUnlessHidden
  BY DEF Inv
<1> DEFINE n == Len(nest)
           m == depth
<1>4. /\ n \in Nat \ {0} /\ nest[n] = "function"
      /\ nest' \in Seq(Constructs) /\ Len(nest') = n - 1
      /\ \A i \in 1 .. n - 1 : nest'[i] = nest[i]
  BY <1>1, <1>3, Innermost
<1>5. /\ fn[n] = m /\ fn[n - 1] = m - 1 /\ m \in Nat \ {0}
      /\ \A i \in 0 .. n : fn[i] \in Nat
      /\ \A i, j \in 0 .. n : i <= j => fn[i] <= fn[j]
  <2>1. m \in Nat
    BY <1>3 DEF Typed, depth
  <2>2. n \in 1 .. n /\ n - 1 \in 0 .. n
    BY <1>4
  <2>3. fn[n] = m /\ fn[n - 1] + 1 = fn[n] /\ fn[n - 1] \in Nat
    BY <1>2, <1>4, <2>2 DEF Layout, Enclosing
  <2>4. /\ \A i \in 0 .. n : fn[i] \in Nat
        /\ \A i, j \in 0 .. n : i <= j => fn[i] <= fn[j]
    BY <1>2 DEF Layout, Enclosing
  <2> HIDE DEF n, m
  <2>5. fn[n - 1] = m - 1 /\ m # 0
    BY <2>1, <2>3
  <2> QED
    BY <2>1, <2>3, <2>4, <2>5
<1>6. /\ venv \in Seq(0 .. Len(decls)) /\ Scopes(venv, c, n) /\ Ascending(venv)
      /\ env \in Seq(0 .. Len(decls)) /\ Scopes(env, a, m) /\ Ascending(env)
      /\ levels \in Seq(Nat) /\ m = Len(levels)
  BY <1>2, <1>3 DEF Typed, Layout, Enclosing, Resolved, depth
<1> HIDE DEF n, m
<1>7. /\ venv' \in Seq(0 .. Len(decls)) /\ Scopes(venv', c, n - 1) /\ Ascending(venv')
      /\ \A p : p \in DOMAIN venv' <=> p \in DOMAIN venv /\ c[p] < n
      /\ \A p \in DOMAIN venv' : venv'[p] = venv[p]
      /\ \A d : Binds(venv', d) <=>
                  d # Mark /\ \E p \in DOMAIN venv : venv[p] = d /\ c[p] < n
  BY <1>1, <1>4, <1>6, ScopeEnded, ScopesAfterEnd, BindersLeft
<1>8. /\ env' \in Seq(0 .. Len(decls)) /\ Scopes(env', a, m - 1) /\ Ascending(env')
      /\ \A p : p \in DOMAIN env' <=> p \in DOMAIN env /\ a[p] < m
      /\ \A p \in DOMAIN env' : env'[p] = env[p]
      /\ \A d : Binds(env', d) <=>
                  d # Mark /\ \E p \in DOMAIN env : env[p] = d /\ a[p] < m
  <2>1. m \in Nat \ {0} /\ env \in Seq(0 .. Len(decls)) /\ Scopes(env, a, m)
    BY <1>5, <1>6
  <2>2. /\ EndScope(env) \in Seq(0 .. Len(decls))
        /\ \A p : p \in DOMAIN EndScope(env) <=> p \in DOMAIN env /\ a[p] < m
        /\ \A p \in DOMAIN EndScope(env) : EndScope(env)[p] = env[p]
    BY <2>1, ScopeEnded
  <2>3. Scopes(EndScope(env), a, m - 1)
    BY <2>1, ScopesAfterEnd
  <2>4. /\ \A d : Binds(EndScope(env), d) <=>
                    d # Mark /\ \E p \in DOMAIN env : env[p] = d /\ a[p] < m
        /\ Ascending(env) => Ascending(EndScope(env))
    BY <2>1, BindersLeft
  <2> QED
    BY <1>1, <1>6, <2>2, <2>3, <2>4
<1>9. /\ \A p \in DOMAIN venv : c[p] \in 0 .. n
      /\ \A p \in DOMAIN env : a[p] \in 0 .. m
  BY <1>6 DEF Scopes
<1>10. /\ Len(levels') = m - 1 /\ levels' \in Seq(Nat)
       /\ \A i \in 1 .. m - 1 : levels'[i] = levels[i]
  <2>1. PICK l \in Nat : l = m - 1
    BY <1>5
  <2>2. l + 1 = Len(levels) /\ levels' = SubSeq(levels, 1, l)
    BY <1>1, <1>6, <2>1 DEF Front
  <2>3. /\ SubSeq(levels, 1, l) \in Seq(Nat) /\ Len(SubSeq(levels, 1, l)) = l
        /\ \A i \in 1 .. l : SubSeq(levels, 1, l)[i] = levels[i]
    BY <1>6, <2>2
  <2> QED
    BY <2>1, <2>2, <2>3
<1>11. ASSUME NEW d, Binds(venv', d) PROVE Binds(env', d)
  <2>1. PICK p \in DOMAIN venv : venv[p] = d /\ d # Mark /\ c[p] < n
    BY <1>7, <1>11
  <2>2. Binds(env, d)
    BY <1>3, <2>1 DEF Resolved, Binds
  <2>3. PICK q \in DOMAIN env : env[q] = d
    BY <2>2 DEF Binds
  <2>4. fn[c[p]] = a[q]
    BY <1>2, <2>1, <2>3 DEF Layout, Enclosing
  <2>5. c[p] \in 0 .. n /\ n - 1 \in 0 .. n /\ c[p] <= n - 1
    BY <1>4, <1>9, <2>1
  <2>6. fn[c[p]] <= fn[n - 1]
    BY <1>5, <2>5
  <2>7. a[q] < m
    BY <1>5, <1>9, <2>3, <2>4, <2>6
  <2> QED
    BY <1>8, <2>1, <2>3, <2>7
<1>12. ASSUME NEW e, Binds(env', e), decls[e].formal PROVE Binds(venv', e)
  <2>1. PICK q \in DOMAIN env : env[q] = e /\ e # Mark /\ a[q] < m
    BY <1>8, <1>12
  <2>2. Binds(venv, e)
    BY <1>3, <1>12, <2>1 DEF Resolved, Binds
  <2>3. PICK p \in DOMAIN venv : venv[p] = e
    BY <2>2 DEF Binds
  <2>4. fn[c[p]] = a[q]
    BY <1>2, <2>1, <2>3 DEF Layout, Enclosing
  <2>5. c[p] # n
    BY <1>5, <1>9, <2>1, <2>4
  <2>6. c[p] < n
    BY <1>4, <1>9, <2>3, <2>5
  <2> QED
    BY <1>7, <2>1, <2>3, <2>6
<1>13. ASSUME NEW e, Binds(env', e), decls[e].hides # 0 PROVE Binds(env', decls[e].hides)
  <2>1. PICK q \in DOMAIN env : env[q] = e /\ e # Mark /\ a[q] < m
    BY <1>8, <1>13
  <2>2. Binds(env, e)
    BY <2>1 DEF Binds
  <2>3. Binds(env, decls[e].hides) /\ decls[e].hides < e
    BY <1>3, <1>13, <2>2 DEF Resolved
  <2>4. PICK r \in DOMAIN env : env[r] = decls[e].hides /\ decls[e].hides # Mark
    BY <2>3 DEF Binds
  <2>5. e \in Nat /\ decls[e].hides \in Nat
    BY <1>3, <1>6, <2>2, <2>3, BoundAreDeclared
  <2>6. ~(q < r)
    BY <1>6, <2>1, <2>3, <2>4, <2>5 DEF Ascending
  <2>7. q \in Nat /\ r \in Nat
    BY <1>6
  <2>8. r <= q
    BY <2>6, <2>7
  <2>9. a[r] <= a[q]
    BY <1>6, <2>8 DEF Scopes
  <2>10. a[r] < m
    BY <1>5, <1>9, <2>1, <2>9
  <2> QED
    BY <1>8, <2>4, <2>10
<1>14. Resolved'
  <2>1. /\ \A d : Binds(env', d) => Binds(env, d)
        /\ \A d : Binds(venv', d) => Binds(venv, d)
    BY <1>7, <1>8 DEF Binds
  <2> QED
    BY <1>1, <1>3, <1>7, <1>8, <1>11, <1>12, <1>13, <2>1, ResolvedLess
<1>15. depth' = m - 1
  BY <1>10 DEF depth
<1>16. Layout(a, c, fn)'
  <2>1. /\ \A i \in 0 .. n - 1 : i \in 0 .. n
        /\ \A i \in 1 .. n - 1 : i \in 1 .. n /\ nest'[i] = nest[i]
    BY <1>4
  <2>2. \A p \in DOMAIN venv' : venv'[p] # Mark =>
          /\ decls[venv'[p]].depth = fn[c[p]]
          /\ decls[venv'[p]].formal => c[p] # 0 /\ nest'[c[p]] = "function"
    <3> TAKE p \in DOMAIN venv'
    <3>1. p \in DOMAIN venv /\ c[p] < n /\ venv'[p] = venv[p] /\ c[p] \in 0 .. n
      BY <1>7, <1>9
    <3>2. c[p] # 0 => c[p] \in 1 .. n - 1
      BY <1>4, <3>1
    <3> QED
      BY <1>2, <2>1, <3>1, <3>2 DEF Layout, Enclosing
  <2>3. /\ fn[0] = 0 /\ fn[n - 1] = m - 1
        /\ \A i \in 0 .. n - 1 : fn[i] \in Nat
        /\ \A i, j \in 0 .. n - 1 : i <= j => fn[i] <= fn[j]
        /\ \A i \in 1 .. n - 1 :
             IF nest'[i] = "function" THEN fn[i - 1] + 1 = fn[i] ELSE fn[i - 1] = fn[i]
    <3>1. /\ fn[0] = 0
          /\ \A i \in 1 .. n :
               IF nest[i] = "function" THEN fn[i - 1] + 1 = fn[i] ELSE fn[i - 1] = fn[i]
      BY <1>2 DEF Layout, Enclosing, n
    <3>2. /\ \A i \in 0 .. n - 1 : fn[i] \in Nat
          /\ \A i, j \in 0 .. n - 1 : i <= j => fn[i] <= fn[j]
      BY <1>5, <2>1
    <3>3. \A i \in 1 .. n - 1 :
            IF nest'[i] = "function" THEN fn[i - 1] + 1 = fn[i] ELSE fn[i - 1] = fn[i]
      BY <2>1, <3>1
    <3> QED
      BY <1>5, <3>1, <3>2, <3>3
  <2>4. \A p \in DOMAIN env' : env'[p] # Mark =>
          /\ decls[env'[p]].depth = a[p]
          /\ decls[env'[p]].level = IF a[p] = 0 THEN 0 ELSE levels'[a[p]]
    <3> TAKE p \in DOMAIN env'
    <3>1. p \in DOMAIN env /\ a[p] < m /\ env'[p] = env[p] /\ a[p] \in 0 .. m
      BY <1>8, <1>9
    <3>2. a[p] # 0 => a[p] \in 1 .. m - 1
      BY <1>5, <3>1
    <3> QED
      BY <1>2, <1>10, <3>1, <3>2 DEF Layout, Enclosing
  <2> QED
    BY <1>1, <1>4, <1>7, <1>8, <1>15, <2>2, <2>3, <2>4 DEF Layout, Enclosing
<1>17. LevelsRise'
  <2>1. DOMAIN levels' = 1 .. m - 1 /\ \A i \in 1 .. m - 1 : i \in DOMAIN levels
    BY <1>5, <1>6, <1>10
  <2> QED
    BY <1>1, <1>3, <1>10, <2>1 DEF LevelsRise
<1>18. Typed'
  BY <1>1, <1>3, <1>4, <1>7, <1>8, <1>10 DEF Typed
<1>19. MarkedUnlessHidden'
  BY <1>1, <1>3, MarksStay
<1> QED
  BY <1>14, <1>16, <1>17, <1>18, <1>19 DEF Inv

(* The body of a let begins: a construct takes the place of another one    *)
(* that is no function either.                                             *)
LEMMA LetBodyStep ==
  ASSUME Inv, LetBody
  PROVE  Inv'
<1>1. /\ nest # <<>> /\ Last(nest) = "declarations" /\ nest' = Append(Front(nest), "body")
      /\ venv' = venv /\ env' = env /\ decls' = decls /\ levels' = levels
      /\ functions' = functions /\ escaped' = escaped /\ needed' = needed
  BY DEF LetBody, In
<1>2. PICK a, c, fn : Layout(a, c, fn)
  BY DEF Inv
<1>3. Typed /\ LevelsRise /\ Resolved /\ MarkedUnlessHidden
  BY DEF Inv
<1>4. /\ Len(nest) \in Nat \ {0} /\ nest[Len(nest)] = "declarations"
      /\ Front(nest) \in Seq(Constructs) /\ Len(Front(nest)) = Len(nest) - 1
      /\ \A i \in 1 .. Len(nest) - 1 : Front(nest)[i] = nest[i]
  BY <1>1, <1>3, Innermost
<1>5. nest' \in Seq(Constructs) /\ Len(nest') = Len(nest)
      /\ \A i \in 1 .. Len(nest) : nest'[i] = IF i = Len(nest) THEN "body" ELSE nest[i]
  <2>1. PICK f : f = Front(nest)
    OBVIOUS
  <2>2. PICK n \in Nat : n = Len(f)
    BY <1>4, <2>1
  <2>3. /\ Append(f, "body") \in Seq(Constructs) /\ Len(Append(f, "body")) = n + 1
        /\ Append(f, "body")[n + 1] = "body" /\ \A i \in 1 .. n : Append(f, "body")[i] = f[i]
    BY <1>4, <2>1, <2>2 DEF Constructs
  <2>4. n + 1 = Len(nest) /\ \A i \in 1 .. n + 1 : i = n + 1 \/ i \in 1 .. n
    BY <1>4, <2>1, <2>2
  <2> QED
    BY <1>1, <1>4, <2>1, <2>2, <2>3, <2>4
<1>6. \A i \in 1 .. Len(nest) : nest'[i] = "function" <=> nest[i] = "function"
  BY <1>4, <1>5
<1>7. Layout(a, c, fn)'
  <2>1. /\ Scopes(env', a, depth') /\ Scopes(venv', c, Len(nest')) /\ depth' = depth
    BY <1>1, <1>2, <1>5 DEF Layout, Enclosing, depth
  <2>2. \A p \in DOMAIN venv : c[p] \in 0 .. Len(nest)
    BY <1>2 DEF Layout, Enclosing, Scopes
  <2>3. \A p \in DOMAIN venv : c[p] # 0 => c[p] \in 1 .. Len(nest)
    BY <1>4, <2>2
  <2> QED
    BY <1>1, <1>2, <1>5, <1>6, <2>1, <2>3 DEF Layout, Enclosing
<1>8. Typed' /\ LevelsRise' /\ Resolved'
  BY <1>1, <1>3, <1>5 DEF Typed, LevelsRise, Resolved
<1>9. MarkedUnlessHidden'
  BY <1>1, <1>3, MarksStay
<1> QED
  BY <1>7, <1>8, <1>9 DEF Inv
-------------------------------------------------------------------------------
(* Table t has the binders of table, in the scopes b gives them as a did,  *)
(* and those of m new declarations, in its last scope n.                   *)
Extends(t, b, table, a, m, n) ==
  /\ t \in Seq(0 .. Len(decls) + m)
  /\ Scopes(t, b, n) /\ Ascending(t)
  /\ \A p \in DOMAIN t :
       \/ t[p] = Mark
       \/ p \in DOMAIN table /\ t[p] = table[p] /\ b[p] = a[p]
       \/ t[p] \in Len(decls) + 1 .. Len(decls) + m /\ b[p] = n
  /\ \A d : Binds(t, d) <=> Binds(table, d) \/ d \in Len(decls) + 1 .. Len(decls) + m

LEMMA MarkExtends ==
  ASSUME Len(decls) \in Nat, NEW table \in Seq(0 .. Len(decls)), NEW n \in Nat, NEW a,
         Scopes(table, a, n), Ascending(table)
  PROVE  \E b : Extends(Append(table, Mark), b, table, a, 0, n + 1)
<1>1. PICK l \in Nat : l = Len(table)
  OBVIOUS
<1>2. PICK t : t = Append(table, Mark)
  OBVIOUS
<1>3. /\ t \in Seq(0 .. Len(decls)) /\ Len(t) = l + 1 /\ DOMAIN t = 1 .. l + 1
      /\ DOMAIN table = 1 .. l /\ t[l + 1] = Mark
      /\ \A p \in 1 .. l : t[p] = table[p]
  BY <1>1, <1>2 DEF Mark
<1>4. PICK b : b = [p \in 1 .. l + 1 |-> IF p = l + 1 THEN n + 1 ELSE a[p]]
  OBVIOUS
<1>5. /\ b[l + 1] = n + 1 /\ \A p \in 1 .. l : b[p] = a[p]
      /\ \A p \in 1 .. l + 1 : p = l + 1 \/ p \in 1 .. l
      /\ \A p \in 1 .. l : p \in 1 .. l + 1
  BY <1>4
<1>6. Scopes(t, b, n + 1)
  <2>1. DOMAIN table = 1 .. l /\ DOMAIN t = 1 .. l + 1
    BY <1>3
  <2>2. \A p \in 1 .. l : t[p] = table[p] /\ b[p] = a[p]
    BY <1>3, <1>5
  <2>3. t[l + 1] = Mark /\ b[l + 1] = n + 1
    BY <1>3, <1>5
  <2>4. PICK k : k = n + 1
    OBVIOUS
  <2>5. Scopes(t, b, k)
    BY <2>1, <2>2, <2>3, <2>4, ScopesBegun
  <2> QED
    BY <2>4, <2>5
<1>7. Ascending(t)
  BY <1>3, <1>5 DEF Ascending
<1>8. \A d : Binds(t, d) <=> Binds(table, d)
  BY <1>3, <1>5 DEF Binds
<1>9. /\ Len(decls) + 0 = Len(decls)
      /\ \A d : d \notin Len(decls) + 1 .. Len(decls) + 0
  OBVIOUS
<1>10. \A p \in DOMAIN t : \/ t[p] = Mark
                           \/ p \in DOMAIN table /\ t[p] = table[p] /\ b[p] = a[p]
  BY <1>3, <1>5
<1>11. Extends(t, b, table, a, 0, n + 1)
  BY <1>3, <1>6, <1>7, <1>8, <1>9, <1>10 DEF Extends
<1> QED
  BY <1>2, <1>11

LEMMA FreshExtends ==
  ASSUME Len(decls) \in Nat, NEW table \in Seq(0 .. Len(decls)), NEW n \in Nat, NEW a,
         Scopes(table, a, n), Ascending(table), NEW m \in Nat
  PROVE  \E b : Extends(table \o Fresh(m), b, table, a, m, n)
<1>1. PICK l \in Nat : l = Len(table)
  OBVIOUS
<1>2. PICK k \in Nat : k = Len(decls)
  OBVIOUS
<1>3. PICK f : f = Fresh(m)
  OBVIOUS
<1>4. f \in Seq(0 .. k + m) /\ Len(f) = m /\ \A i \in 1 .. m : f[i] = k + i
  BY <1>2, <1>3 DEF Fresh
<1>5. table \in Seq(0 .. k + m) /\ \A p \in 1 .. l : table[p] \in 0 .. k
  <2>1. \A p \in 1 .. l : table[p] \in 0 .. k
    BY <1>1, <1>2
  <2>2. \A p \in 1 .. l : table[p] \in 0 .. k + m
    BY <2>1
  <2> QED
    BY <1>1, <2>1, <2>2
<1>6. PICK t : t = table \o f
  OBVIOUS
<1>7. /\ t \in Seq(0 .. k + m) /\ Len(t) = l + m /\ DOMAIN t = 1 .. l + m
      /\ DOMAIN table = 1 .. l /\ \A p \in 1 .. l : t[p] = table[p]
      /\ \A p \in l + 1 .. l + m : t[p] = f[p - l]
  <2>1. table \in Seq(0 .. k + m) /\ f \in Seq(0 .. k + m) /\ Len(f) = m /\ Len(table) = l
    BY <1>1, <1>4, <1>5
  <2>2. /\ table \o f \in Seq(0 .. k + m) /\ Len(table \o f) = l + m
        /\ \A p \in 1 .. l + m : (table \o f)[p] = IF p <= l THEN table[p] ELSE f[p - l]
    <3>1. PICK S : S = 0 .. k + m
      OBVIOUS
    <3>2. table \in Seq(S) /\ f \in Seq(S) /\ Len(table) + Len(f) = l + m
      BY <2>1, <3>1
    <3>3. table \o f \in Seq(S) /\ Len(table \o f) = Len(table) + Len(f)
      BY <3>2
    <3>4. \A p \in 1 .. Len(table) + Len(f) :
            (table \o f)[p] = IF p <= Len(table) THEN table[p] ELSE f[p - Len(table)]
      BY <3>2
    <3> QED
      BY <2>1, <3>1, <3>2, <3>3, <3>4
  <2>3. t \in Seq(0 .. k + m) /\ Len(t) = l + m
    BY <1>6, <2>2
  <2>4. DOMAIN t = 1 .. l + m /\ DOMAIN table = 1 .. l
    BY <2>1, <2>3
  <2>5. /\ \A p \in 1 .. l : p \in 1 .. l + m /\ p <= l
        /\ \A p \in l + 1 .. l + m : p \in 1 .. l + m /\ ~(p <= l)
    OBVIOUS
  <2>6. /\ \A p \in 1 .. l : t[p] = table[p]
        /\ \A p \in l + 1 .. l + m : t[p] = f[p - l]
    BY <1>6, <2>2, <2>5
  <2> QED
    BY <2>3, <2>4, <2>6
<1>8. \A p \in l + 1 .. l + m : t[p] = k + (p - l)
  <2> TAKE p \in l + 1 .. l + m
  <2>1. p - l \in 1 .. m
    OBVIOUS
  <2> QED
    BY <1>4, <1>7, <2>1
<1>9. PICK b : b = [p \in 1 .. l + m |-> IF p \in 1 .. l THEN a[p] ELSE n]
  OBVIOUS
<1>10. /\ \A p \in 1 .. l + m : p \in 1 .. l \/ p \in l + 1 .. l + m
       /\ \A p \in 1 .. l : p \in 1 .. l + m
       /\ \A p \in l + 1 .. l + m : p \in 1 .. l + m /\ p \notin 1 .. l
  OBVIOUS
<1>11. /\ \A p \in 1 .. l : b[p] = a[p]
       /\ \A p \in l + 1 .. l + m : b[p] = n
  BY <1>9, <1>10
<1>12. \A p \in l + 1 .. l + m : t[p] \in k + 1 .. k + m /\ t[p] # Mark
  BY <1>8 DEF Mark
<1>13. Scopes(t, b, n)
  <2>1. Len(t) >= Len(table) /\ table \in Seq(0 .. k + m)
    BY <1>1, <1>5, <1>7
  <2>2. \A p \in DOMAIN table : t[p] = table[p] /\ b[p] = a[p]
    BY <1>7, <1>11
  <2>3. \A p \in DOMAIN t \ DOMAIN table : t[p] # Mark /\ b[p] = n
    BY <1>7, <1>10, <1>11, <1>12
  <2>4. PICK S : S = 0 .. k + m
    OBVIOUS
  <2>5. t \in Seq(S) /\ table \in Seq(S) /\ Len(t) >= Len(table)
    BY <1>7, <2>1, <2>4
  <2> QED
    BY <2>2, <2>3, <2>5, ScopesMore
<1>14. Ascending(t)
  <2> SUFFICES ASSUME NEW p \in 1 .. l + m, NEW q \in 1 .. l + m, p < q,
                      t[p] # Mark, t[q] # Mark
               PROVE  t[p] < t[q]
    BY <1>7 DEF Ascending
  <2>1. CASE q \in 1 .. l
    <3>1. p \in 1 .. l
      BY <2>1
    <3> QED
      BY <1>7, <2>1, <3>1 DEF Ascending
  <2>2. CASE q \in l + 1 .. l + m /\ p \in 1 .. l
    <3>1. t[p] \in 0 .. k
      BY <1>5, <1>7, <2>2
    <3> QED
      BY <1>12, <2>2, <3>1
  <2>3. CASE q \in l + 1 .. l + m /\ p \in l + 1 .. l + m
    BY <1>8, <2>3
  <2> QED
    BY <1>10, <2>1, <2>2, <2>3
<1>15. ASSUME NEW d PROVE Binds(t, d) <=> Binds(table, d) \/ d \in k + 1 .. k + m
  <2>1. ASSUME Binds(t, d) PROVE Binds(table, d) \/ d \in k + 1 .. k + m
    BY <1>7, <1>10, <1>12, <2>1 DEF Binds
  <2>2. ASSUME Binds(table, d) PROVE Binds(t, d)
    BY <1>7, <1>10, <2>2 DEF Binds
  <2>3. ASSUME d \in k + 1 .. k + m PROVE Binds(t, d)
    <3>1. PICK p \in Nat : p = l + (d - k)
      BY <2>3
    <3>2. p \in l + 1 .. l + m /\ k + (p - l) = d
      BY <2>3, <3>1
    <3>3. t[p] = d /\ p \in DOMAIN t /\ d # Mark
      BY <1>7, <1>8, <1>10, <1>12, <3>2
    <3> QED
      BY <3>3 DEF Binds
  <2> QED
    BY <2>1, <2>2, <2>3
<1>16. \A p \in DOMAIN t : \/ p \in DOMAIN table /\ t[p] = table[p] /\ b[p] = a[p]
                           \/ t[p] \in k + 1 .. k + m /\ b[p] = n
  BY <1>7, <1>10, <1>11, <1>12
<1>17. Extends(t, b, table, a, m, n)
  BY <1>2, <1>7, <1>13, <1>14, <1>15, <1>16 DEF Extends
<1> QED
  BY <1>3, <1>6, <1>17

(* A scope begins with binders in it.                                      *)
LEMMA BothExtend ==
  ASSUME Len(decls) \in Nat, NEW table \in Seq(0 .. Len(decls)), NEW n \in Nat, NEW a,
         Scopes(table, a, n), Ascending(table), NEW m \in Nat
  PROVE  \E b : Extends(Append(table, Mark) \o Fresh(m), b, table, a, m, n + 1)
<1>1. PICK t : t = Append(table, Mark)
  OBVIOUS
<1>2. PICK b : Extends(t, b, table, a, 0, n + 1)
  BY <1>1, MarkExtends
<1>3. /\ Len(decls) + 0 = Len(decls)
      /\ \A d : d \notin Len(decls) + 1 .. Len(decls) + 0
  OBVIOUS
<1>4. /\ t \in Seq(0 .. Len(decls)) /\ Scopes(t, b, n + 1) /\ Ascending(t)
      /\ \A p \in DOMAIN t : \/ t[p] = Mark
                             \/ p \in DOMAIN table /\ t[p] = table[p] /\ b[p] = a[p]
      /\ \A d : Binds(t, d) <=> Binds(table, d)
  BY <1>2, <1>3 DEF Extends
<1>5. PICK e : Extends(t \o Fresh(m), e, t, b, m, n + 1)
  <2>1. n + 1 \in Nat /\ t \in Seq(0 .. Len(decls)) /\ Scopes(t, b, n + 1) /\ Ascending(t)
    BY <1>4
  <2> QED
    BY <2>1, FreshExtends
<1>6. PICK u : u = t \o Fresh(m)
  OBVIOUS
<1>7. \A p \in DOMAIN u :
        \/ u[p] = Mark
        \/ p \in DOMAIN table /\ u[p] = table[p] /\ e[p] = a[p]
        \/ u[p] \in Len(decls) + 1 .. Len(decls) + m /\ e[p] = n + 1
  <2>1. \A p \in DOMAIN u :
          \/ u[p] = Mark
          \/ p \in DOMAIN t /\ u[p] = t[p] /\ e[p] = b[p]
          \/ u[p] \in Len(decls) + 1 .. Len(decls) + m /\ e[p] = n + 1
    BY <1>5, <1>6 DEF Extends
  <2> QED
    BY <1>4, <2>1
<1>8. Extends(u, e, table, a, m, n + 1)
  BY <1>4, <1>5, <1>6, <1>7 DEF Extends
<1> QED
  BY <1>1, <1>6, <1>8

LEMMA NothingExtends ==
  ASSUME Len(decls) \in Nat, NEW table \in Seq(0 .. Len(decls)), NEW n \in Nat, NEW a,
         Scopes(table, a, n), Ascending(table)
  PROVE  Extends(table, a, table, a, 0, n)
<1>1. /\ Len(decls) + 0 = Len(decls)
      /\ \A d : d \notin Len(decls) + 1 .. Len(decls) + 0
  OBVIOUS
<1> QED
  BY <1>1 DEF Extends

(* A construct is entered.                                                 *)
DepthIn(k, d) == IF k = "function" THEN d + 1 ELSE d

LEMMA EnclosingMore ==
  ASSUME NEW s \in Seq(Constructs), NEW k \in Constructs, NEW fn, NEW d \in Nat,
         Enclosing(fn, s, d)
  PROVE  \E g : /\ Enclosing(g, Append(s, k), DepthIn(k, d))
                /\ \A i \in 0 .. Len(s) : g[i] = fn[i]
<1> DEFINE e == DepthIn(k, d)
           t == Append(s, k)
<1>1. /\ e \in Nat
      /\ k = "function" => e = d + 1
      /\ k # "function" => e = d
  BY DEF DepthIn
<1>2. PICK n \in Nat : n = Len(s)
  OBVIOUS
<1>3. Len(t) = n + 1 /\ t[n + 1] = k /\ \A i \in 1 .. n : t[i] = s[i]
  BY <1>2
<1> HIDE DEF e, t
<1>4. PICK g : g = [i \in 0 .. n + 1 |-> IF i = n + 1 THEN e ELSE fn[i]]
  OBVIOUS
<1>5. /\ \A i \in 0 .. n + 1 : i = n + 1 \/ i \in 0 .. n
      /\ \A i \in 1 .. n + 1 : i = n + 1 \/ i \in 1 .. n
      /\ \A i \in 0 .. n : i \in 0 .. n + 1 /\ i # n + 1
      /\ 0 \in 0 .. n /\ n \in 0 .. n /\ n + 1 \in 0 .. n + 1 /\ n + 1 - 1 = n
      /\ \A i \in 1 .. n : i - 1 \in 0 .. n /\ i \in 0 .. n
  OBVIOUS
<1>6. g[n + 1] = e /\ \A i \in 0 .. n : g[i] = fn[i]
  BY <1>4, <1>5
<1>7. /\ fn[0] = 0 /\ fn[n] = d /\ d <= e
      /\ \A i \in 0 .. n : fn[i] \in Nat
      /\ \A i, j \in 0 .. n : i <= j => fn[i] <= fn[j]
      /\ \A i \in 1 .. n :
           IF s[i] = "function" THEN fn[i - 1] + 1 = fn[i] ELSE fn[i - 1] = fn[i]
  BY <1>1, <1>2 DEF Enclosing
<1>8. ASSUME NEW i \in 0 .. n + 1, NEW j \in 0 .. n + 1, i <= j
      PROVE  g[i] <= g[j]
  <2>1. CASE i \in 0 .. n /\ j \in 0 .. n
    BY <1>6, <1>7, <1>8, <2>1
  <2>2. CASE i \in 0 .. n /\ j = n + 1
    <3>1. fn[i] <= fn[n] /\ fn[i] \in Nat
      BY <1>5, <1>7, <2>2
    <3> QED
      BY <1>1, <1>6, <1>7, <2>2, <3>1
  <2>3. CASE i = n + 1
    <3>1. j = n + 1
      BY <1>8, <2>3
    <3> QED
      BY <1>1, <1>6, <2>3, <3>1
  <2> QED
    BY <1>5, <2>1, <2>2, <2>3
<1>9. ASSUME NEW i \in 1 .. n + 1
       PROVE  IF t[i] = "function" THEN g[i - 1] + 1 = g[i] ELSE g[i - 1] = g[i]
  <2>1. CASE i \in 1 .. n
    BY <1>3, <1>5, <1>6, <1>7, <2>1
  <2>2. CASE i = n + 1
    BY <1>1, <1>3, <1>5, <1>6, <1>7, <2>2
  <2> QED
    BY <1>5, <2>1, <2>2
<1>10. \A i \in 0 .. n + 1 : g[i] \in Nat
  BY <1>1, <1>5, <1>6, <1>7
<1>11. g[0] = 0
  BY <1>5, <1>6, <1>7
<1>12. Enclosing(g, t, e)
  BY <1>3, <1>6, <1>8, <1>9, <1>10, <1>11 DEF Enclosing
<1> QED
  BY <1>2, <1>6, <1>12 DEF e, t

-------------------------------------------------------------------------------
(* A step that declares m variables, which both tables take into the last  *)
(* of their scopes, and does not lose a binder.                            *)
Declares(m) ==
  /\ decls' \in Seq(Declarations) /\ Len(decls') = Len(decls) + m
  /\ \A d \in DOMAIN decls : decls'[d] = decls[d]
  /\ \A d \in Len(decls) + 1 .. Len(decls) + m :
       /\ decls'[d].hides = Look(venv, decls'[d].name)
       /\ decls'[d].formal \/ m = 1
       /\ decls'[d].formal => nest' # <<>> /\ Last(nest') = "function"
       /\ decls'[d].depth = depth'
       /\ decls'[d].level = IF depth' = 0 THEN 0 ELSE levels'[depth']

LEMMA ResolvedMore ==
  ASSUME Typed, Resolved, NEW m \in Nat, Declares(m), Ascending(env'), Ascending(venv'),
         \A d : Binds(env', d) <=> Binds(env, d) \/ d \in Len(decls) + 1 .. Len(decls) + m,
         \A d : Binds(venv', d) <=> Binds(venv, d) \/ d \in Len(decls) + 1 .. Len(decls) + m
  PROVE  Resolved'
<1>1. PICK l \in Nat : l = Len(decls)
  BY DEF Typed
<1>2. /\ DOMAIN decls = 1 .. l
      /\ \A d \in 1 .. l : decls'[d] = decls[d]
      /\ \A d \in l + 1 .. l + m : /\ decls'[d].hides = Look(venv, decls'[d].name)
                                   /\ decls'[d].formal \/ m = 1
  <2>1. decls \in Seq(Declarations)
    BY DEF Typed
  <2>2. DOMAIN decls = 1 .. l
    BY <1>1, <2>1
  <2>3. /\ \A d \in DOMAIN decls : decls'[d] = decls[d]
        /\ \A d \in l + 1 .. l + m : /\ decls'[d].hides = Look(venv, decls'[d].name)
                                     /\ decls'[d].formal \/ m = 1
    BY <1>1 DEF Declares
  <2> QED
    BY <2>2, <2>3
<1>3. \A d : Binds(env, d) => d \in 1 .. l
  BY <1>2, BoundAreDeclared DEF Typed
<1>4. \A d : Binds(venv, d) => Binds(env, d)
  BY DEF Resolved
<1>5. ASSUME NEW d, Binds(env', d), decls'[d].formal PROVE Binds(venv', d)
  BY <1>1, <1>2, <1>3, <1>5 DEF Resolved
<1>6. ASSUME NEW e, Binds(env', e), decls'[e].hides # 0
      PROVE  /\ Binds(env', decls'[e].hides) /\ decls'[e].hides < e
             /\ decls'[decls'[e].hides].name = decls'[e].name
  <2>1. CASE Binds(env, e)
    <3>1. decls'[e] = decls[e]
      BY <1>2, <1>3, <2>1
    <3>2. /\ Binds(env, decls[e].hides) /\ decls[e].hides < e
          /\ decls[decls[e].hides].name = decls[e].name
      BY <1>6, <2>1, <3>1 DEF Resolved
    <3>3. decls'[decls[e].hides] = decls[decls[e].hides]
      BY <1>2, <1>3, <3>2
    <3> QED
      BY <3>1, <3>2, <3>3
  <2>2. CASE e \in l + 1 .. l + m
    <3>1. PICK x : x = decls'[e].name
      OBVIOUS
    <3>2. PICK h : h = Look(venv, x)
      OBVIOUS
    <3>3. decls'[e].hides = h /\ h # 0
      BY <1>2, <1>6, <2>2, <3>1, <3>2
    <3>4. Binds(venv, h) /\ decls[h].name = x
      BY <3>2, <3>3, BothLooks
    <3>5. Binds(env, h) /\ h \in 1 .. l
      BY <1>3, <1>4, <3>4
    <3>6. h < e /\ decls'[h] = decls[h]
      BY <1>2, <2>2, <3>5
    <3> QED
      BY <3>1, <3>3, <3>4, <3>5, <3>6
  <2> QED
    BY <1>1, <1>6, <2>1, <2>2
<1>7. ASSUME NEW d, NEW e, Binds(venv', d), Binds(env', e), d < e,
             decls'[d].name = decls'[e].name, ~decls'[e].formal
      PROVE  decls'[e].hides >= d
  <2>1. CASE Binds(env, e)
    <3>1. e \in 1 .. l /\ decls'[e] = decls[e]
      BY <1>2, <1>3, <2>1
    <3>2. Binds(venv, d)
      <4>1. d \notin l + 1 .. l + m
        BY <1>7, <3>1
      <4> QED
        BY <1>1, <1>7, <4>1
    <3>3. decls'[d] = decls[d]
      BY <1>2, <1>3, <1>4, <3>2
    <3> QED
      BY <1>7, <2>1, <3>1, <3>2, <3>3 DEF Resolved
  <2>2. CASE e \in l + 1 .. l + m
    <3>1. m = 1 /\ e = l + 1
      <4>1. m = 1
        BY <1>2, <1>7, <2>2
      <4> QED
        BY <2>2, <4>1
    <3>2. Binds(venv, d)
      <4>1. d \notin l + 1 .. l + m
        BY <1>7, <3>1
      <4> QED
        BY <1>1, <1>7, <4>1
    <3>3. d \in 1 .. l /\ decls'[d] = decls[d]
      BY <1>2, <1>3, <1>4, <3>2
    <3>4. PICK x : x = decls'[e].name
      OBVIOUS
    <3>5. decls'[e].hides = Look(venv, x) /\ decls[d].name = x
      BY <1>2, <1>7, <2>2, <3>3, <3>4
    <3>6. d <= Look(venv, x) /\ Look(venv, x) \in Nat
      BY <3>2, <3>5, BothLooks
    <3> QED
      BY <3>3, <3>5, <3>6
  <2> QED
    BY <1>1, <1>7, <2>1, <2>2
<1>8. ASSUME NEW d, Binds(venv', d) PROVE Binds(env', d)
  BY <1>4, <1>8
<1> QED
  BY <1>5, <1>6, <1>7, <1>8 DEF Resolved

LEMMA ScopesGrow ==
  ASSUME Inv, NEW m \in Nat, NEW a, NEW c, NEW fn, Layout(a, c, fn),
         NEW b, NEW e, NEW g, Declares(m),
         Extends(env', b, env, a, m, depth'), Extends(venv', e, venv, c, m, Len(nest')),
         nest' \in Seq(Constructs), Len(nest) <= Len(nest'),
         \A i \in 1 .. Len(nest) : nest'[i] = nest[i],
         Enclosing(g, nest', depth'), \A i \in 0 .. Len(nest) : g[i] = fn[i],
         levels' \in Seq(Nat), depth <= depth', \A i \in 1 .. depth : levels'[i] = levels[i],
         functions' \in Nat, LevelsRise', escaped' = escaped, needed' = needed
  PROVE  Inv'
<1>1. Typed /\ Resolved /\ MarkedUnlessHidden
  BY DEF Inv
<1>2. PICK l \in Nat : l = Len(decls)
  BY <1>1 DEF Typed
<1>3. PICK n \in Nat : n = Len(nest)
  BY <1>1 DEF Typed
<1>4. PICK k \in Nat : k = depth
  BY <1>1 DEF Typed, depth
<1>5. /\ env \in Seq(0 .. l) /\ venv \in Seq(0 .. l) /\ DOMAIN decls = 1 .. l
      /\ DOMAIN decls' = 1 .. l + m /\ Len(decls') = l + m /\ decls' \in Seq(Declarations)
      /\ \A d \in 1 .. l : decls'[d] = decls[d] /\ d \in 1 .. l + m
  <2>1. decls \in Seq(Declarations) /\ env \in Seq(0 .. l) /\ venv \in Seq(0 .. l)
    BY <1>1, <1>2 DEF Typed
  <2>2. DOMAIN decls = 1 .. l
    BY <1>2, <2>1
  <2>3. PICK f : f = decls'
    OBVIOUS
  <2>4. f \in Seq(Declarations) /\ Len(f) = l + m /\ \A d \in DOMAIN decls : f[d] = decls[d]
    BY <1>2, <2>3 DEF Declares
  <2>5. DOMAIN f = 1 .. l + m
    BY <2>4
  <2>6. \A d \in 1 .. l : d \in 1 .. l + m
    OBVIOUS
  <2> QED
    BY <2>1, <2>2, <2>3, <2>4, <2>5, <2>6
<1>6. Resolved'
  BY <1>1, ResolvedMore DEF Extends
<1>7. Typed'
  BY <1>1, <1>2, <1>5 DEF Typed, Extends
<1>8. MarkedUnlessHidden'
  BY <1>1, <1>5, MarksStay
<1>9. /\ \A p \in DOMAIN env : a[p] \in 0 .. k
      /\ \A p \in DOMAIN venv : c[p] \in 0 .. n
  BY <1>3, <1>4 DEF Layout, Scopes
<1>10. Scopes(env', b, depth') /\ Scopes(venv', e, Len(nest'))
  BY DEF Extends
<1>11. ASSUME NEW p \in DOMAIN env', env'[p] # Mark
       PROVE  /\ decls'[env'[p]].depth = b[p]
              /\ decls'[env'[p]].level = IF b[p] = 0 THEN 0 ELSE levels'[b[p]]
  <2>1. CASE p \in DOMAIN env /\ env'[p] = env[p] /\ b[p] = a[p]
    <3>1. Binds(env, env[p])
      BY <1>11, <2>1 DEF Binds
    <3>2. env[p] \in 1 .. l
      BY <1>1, <1>2, <1>5, <3>1, BoundAreDeclared
    <3>3. decls'[env'[p]] = decls[env[p]]
      BY <1>5, <2>1, <3>2
    <3>4. /\ decls[env[p]].depth = a[p]
          /\ decls[env[p]].level = IF a[p] = 0 THEN 0 ELSE levels[a[p]]
      BY <1>11, <2>1 DEF Layout
    <3>5. a[p] # 0 => a[p] \in 1 .. k
      BY <1>9, <2>1
    <3> QED
      BY <1>4, <2>1, <3>3, <3>4, <3>5
  <2>2. CASE env'[p] \in l + 1 .. l + m /\ b[p] = depth'
    BY <1>2, <2>2 DEF Declares
  <2> QED
    BY <1>2, <1>11, <2>1, <2>2 DEF Extends
<1>12. PICK s : s = nest'
  OBVIOUS
<1>13. ASSUME NEW p \in DOMAIN venv', venv'[p] # Mark
       PROVE  /\ decls'[venv'[p]].depth = g[e[p]]
              /\ decls'[venv'[p]].formal => e[p] # 0 /\ nest'[e[p]] = "function"
  <2>1. CASE p \in DOMAIN venv /\ venv'[p] = venv[p] /\ e[p] = c[p]
    <3>1. Binds(venv, venv[p])
      BY <1>13, <2>1 DEF Binds
    <3>2. venv[p] \in 1 .. l
      BY <1>1, <1>2, <1>5, <3>1, BoundAreDeclared
    <3>3. decls'[venv'[p]] = decls[venv[p]]
      BY <1>5, <2>1, <3>2
    <3>4. /\ decls[venv[p]].depth = fn[c[p]]
          /\ decls[venv[p]].formal => c[p] # 0 /\ nest[c[p]] = "function"
      BY <1>13, <2>1 DEF Layout
    <3>5. c[p] \in 0 .. n /\ (c[p] # 0 => c[p] \in 1 .. n)
      BY <1>9, <2>1
    <3> QED
      BY <1>3, <2>1, <3>3, <3>4, <3>5
  <2>2. CASE venv'[p] \in l + 1 .. l + m /\ e[p] = Len(nest')
    <3>1. g[Len(nest')] = depth'
      BY DEF Enclosing
    <3>2. /\ decls'[venv'[p]].depth = depth'
          /\ decls'[venv'[p]].formal => nest' # <<>> /\ Last(nest') = "function"
      BY <1>2, <2>2 DEF Declares
    <3>3. s \in Seq(Constructs) /\ (s # <<>> => Len(s) # 0 /\ Last(s) = s[Len(s)])
      BY <1>12 DEF Last
    <3> QED
      BY <1>12, <2>2, <3>1, <3>2, <3>3
  <2> QED
    BY <1>2, <1>13, <2>1, <2>2 DEF Extends
<1>14. Layout(b, e, g)'
  BY <1>10, <1>11, <1>13 DEF Layout
<1> QED
  BY <1>6, <1>7, <1>8, <1>14 DEF Inv

LEMMA Open ==
  ASSUME Inv, NEW a, NEW c, NEW fn, Layout(a, c, fn)
  PROVE  /\ Len(decls) \in Nat /\ depth \in Nat /\ nest \in Seq(Constructs) /\ Len(nest) \in Nat
         /\ env \in Seq(0 .. Len(decls)) /\ Scopes(env, a, depth) /\ Ascending(env)
         /\ venv \in Seq(0 .. Len(decls)) /\ Scopes(venv, c, Len(nest)) /\ Ascending(venv)
         /\ levels \in Seq(Nat) /\ functions \in Nat /\ decls \in Seq(Declarations)
         /\ Enclosing(fn, nest, depth) /\ LevelsRise
<1>1. Typed /\ Resolved /\ LevelsRise
  BY DEF Inv
<1>2. decls \in Seq(Declarations) /\ levels \in Seq(Nat) /\ nest \in Seq(Constructs)
  BY <1>1 DEF Typed
<1>3. Len(decls) \in Nat /\ Len(levels) \in Nat /\ Len(nest) \in Nat
  BY <1>2
<1> QED
  BY <1>1, <1>2, <1>3 DEF Typed, Resolved, Layout, depth

LEMMA Entered ==
  ASSUME NEW k \in Constructs, nest \in Seq(Constructs), nest' = Append(nest, k)
  PROVE  /\ nest' \in Seq(Constructs) /\ Len(nest') = Len(nest) + 1 /\ Len(nest) <= Len(nest')
         /\ \A i \in 1 .. Len(nest) : nest'[i] = nest[i]
         /\ nest' # <<>> /\ Last(nest') = k
<1>1. PICK n \in Nat : n = Len(nest)
  OBVIOUS
<1>2. PICK s : s = Append(nest, k)
  OBVIOUS
<1>3. /\ s \in Seq(Constructs) /\ Len(s) = n + 1 /\ s[n + 1] = k
      /\ \A i \in 1 .. n : s[i] = nest[i]
  BY <1>1, <1>2
<1>4. n <= n + 1 /\ s # <<>> /\ Last(s) = k
  BY <1>3 DEF Last
<1> QED
  BY <1>1, <1>2, <1>3, <1>4

LEMMA BeginLetStep ==
  ASSUME Inv, BeginLet
  PROVE  Inv'
<1>1. /\ nest' = Append(nest, "declarations") /\ venv' = Append(venv, Mark)
      /\ decls' = decls /\ env' = env /\ levels' = levels /\ functions' = functions
      /\ escaped' = escaped /\ needed' = needed
  BY DEF BeginLet
<1>2. PICK a, c, fn : Layout(a, c, fn)
  BY DEF Inv
<1>3. /\ Len(decls) \in Nat /\ depth \in Nat /\ nest \in Seq(Constructs) /\ Len(nest) \in Nat
      /\ env \in Seq(0 .. Len(decls)) /\ Scopes(env, a, depth) /\ Ascending(env)
      /\ venv \in Seq(0 .. Len(decls)) /\ Scopes(venv, c, Len(nest)) /\ Ascending(venv)
      /\ levels \in Seq(Nat) /\ functions \in Nat /\ decls \in Seq(Declarations)
      /\ Enclosing(fn, nest, depth) /\ LevelsRise
  BY <1>2, Open
<1>4. "declarations" \in Constructs /\ "declarations" # "function"
  BY DEF Constructs
<1>5. /\ nest' \in Seq(Constructs) /\ Len(nest') = Len(nest) + 1 /\ Len(nest) <= Len(nest')
      /\ \A i \in 1 .. Len(nest) : nest'[i] = nest[i]
  BY <1>1, <1>3, <1>4, Entered
<1>6. PICK e : Extends(venv', e, venv, c, 0, Len(nest'))
  BY <1>1, <1>3, <1>5, MarkExtends
<1>7. depth' = depth
  BY <1>1 DEF depth
<1>8. Extends(env', a, env, a, 0, depth')
  BY <1>1, <1>3, <1>7, NothingExtends
<1>9. PICK g : /\ Enclosing(g, nest', depth')
               /\ \A i \in 0 .. Len(nest) : g[i] = fn[i]
  <2>1. /\ nest \in Seq(Constructs) /\ depth \in Nat /\ depth' \in Nat /\ depth' = depth
        /\ nest' = Append(nest, "declarations") /\ Enclosing(fn, nest, depth)
    BY <1>1, <1>3, <1>4, <1>7
  <2>2. depth' = DepthIn("declarations", depth)
    BY <2>1, <1>4 DEF DepthIn
  <2> QED
    BY <2>1, <2>2, <1>4, EnclosingMore
<1>10. Declares(0)
  <2>1. Len(decls) + 0 = Len(decls) /\ \A d : d \notin Len(decls) + 1 .. Len(decls) + 0
    BY <1>3
  <2> QED
    BY <1>1, <1>3, <2>1 DEF Declares
<1>11. LevelsRise'
  BY <1>1, <1>3 DEF LevelsRise
<1>12. levels' \in Seq(Nat) /\ depth <= depth' /\ functions' \in Nat
  BY <1>1, <1>3, <1>7
<1>13. \A i \in 1 .. depth : levels'[i] = levels[i]
  BY <1>1
<1>14. 0 \in Nat
  OBVIOUS
<1> QED
  BY <1>1, <1>2, <1>5, <1>6, <1>8, <1>9, <1>10, <1>11, <1>12, <1>13, <1>14, ScopesGrow

(* A variable is declared in the function the walk is in.                  *)
LEMMA DeclareOne ==
  ASSUME Inv, NEW x \in Names, Declare(x)
  PROVE  Declares(1) /\ depth' = depth
<1>1. PICK d : d = Declaration(x, Level, depth, FALSE)
  OBVIOUS
<1>2. /\ decls' = Append(decls, d) /\ levels' = levels
  BY <1>1 DEF Declare
<1>3. Typed /\ Resolved /\ LevelsRise
  BY DEF Inv
<1>4. depth' = depth /\ depth \in Nat
  BY <1>2, <1>3 DEF depth, Typed
<1>5. Level = (IF depth = 0 THEN 0 ELSE levels[depth]) /\ Level \in Nat
  <2>1. levels \in Seq(Nat) /\ depth = Len(levels)
    BY <1>3 DEF Typed, depth
  <2>2. CASE levels = <<>>
    <3>1. depth = 0
      BY <2>1, <2>2
    <3> QED
      BY <2>2, <3>1 DEF Level
  <2>3. CASE levels # <<>>
    <3>1. depth # 0 /\ depth \in DOMAIN levels
      BY <2>1, <2>3
    <3>2. Level = levels[depth]
      BY <2>1, <2>3 DEF Level, Last
    <3> QED
      BY <2>1, <3>1, <3>2
  <2> QED
    BY <2>2, <2>3
<1>6. /\ d.name = x /\ d.level = Level /\ d.depth = depth /\ d.formal = FALSE
      /\ d.hides = Look(venv, x)
  BY <1>1 DEF Declaration
<1>7. d \in Declarations
  <2>1. Look(venv, x) \in Nat
    BY <1>3, BothLooks
  <2> HIDE DEF Level, depth
  <2> QED
    BY <1>1, <1>4, <1>5, <2>1 DEF Declaration, Declarations
<1>8. PICK l \in Nat : l = Len(decls) /\ decls \in Seq(Declarations) /\ DOMAIN decls = 1 .. l
  BY <1>3 DEF Typed
<1>9. PICK f : f = Append(decls, d)
  OBVIOUS
<1>10. /\ f \in Seq(Declarations) /\ Len(f) = l + 1 /\ f[l + 1] = d
       /\ \A i \in 1 .. l : f[i] = decls[i]
  BY <1>7, <1>8, <1>9
<1>11. \A i \in l + 1 .. l + 1 : i = l + 1
  OBVIOUS
<1>12. \A i \in l + 1 .. l + 1 :
         /\ f[i].hides = Look(venv, f[i].name)
         /\ f[i].formal = FALSE
         /\ f[i].depth = depth'
         /\ f[i].level = IF depth' = 0 THEN 0 ELSE levels'[depth']
  BY <1>2, <1>4, <1>5, <1>6, <1>10, <1>11
<1>13. decls' = f
  BY <1>2, <1>9
<1> QED
  BY <1>4, <1>8, <1>10, <1>12, <1>13 DEF Declares

LEMMA VarDecStep ==
  ASSUME Inv, NEW x \in Names, VarDec(x)
  PROVE  Inv'
<1>1. /\ nest' = nest /\ venv' = venv \o Fresh(1) /\ env' = env \o Fresh(1)
      /\ levels' = levels /\ functions' = functions /\ escaped' = escaped /\ needed' = needed
  BY DEF VarDec, Declare
<1>2. PICK a, c, fn : Layout(a, c, fn)
  BY DEF Inv
<1>3. /\ Len(decls) \in Nat /\ depth \in Nat /\ nest \in Seq(Constructs) /\ Len(nest) \in Nat
      /\ env \in Seq(0 .. Len(decls)) /\ Scopes(env, a, depth) /\ Ascending(env)
      /\ venv \in Seq(0 .. Len(decls)) /\ Scopes(venv, c, Len(nest)) /\ Ascending(venv)
      /\ levels \in Seq(Nat) /\ functions \in Nat /\ decls \in Seq(Declarations)
      /\ Enclosing(fn, nest, depth) /\ LevelsRise
  BY <1>2, Open
<1>4. Declares(1) /\ depth' = depth
  BY DeclareOne DEF VarDec
<1>5. 1 \in Nat
  OBVIOUS
<1>6. PICK e : Extends(venv', e, venv, c, 1, Len(nest'))
  BY <1>1, <1>3, <1>5, FreshExtends
<1>7. PICK b : Extends(env', b, env, a, 1, depth')
  BY <1>1, <1>3, <1>4, <1>5, FreshExtends
<1>8. LevelsRise'
  BY <1>1, <1>3 DEF LevelsRise
<1>9. levels' \in Seq(Nat) /\ depth <= depth' /\ functions' \in Nat /\ Len(nest) <= Len(nest')
  BY <1>1, <1>3, <1>4
<1>10. /\ \A i \in 1 .. depth : levels'[i] = levels[i]
       /\ \A i \in 1 .. Len(nest) : nest'[i] = nest[i]
       /\ Enclosing(fn, nest', depth')
  BY <1>1, <1>3, <1>4
<1> QED
  BY <1>1, <1>2, <1>3, <1>4, <1>5, <1>6, <1>7, <1>8, <1>9, <1>10, ScopesGrow

LEMMA BeginForStep ==
  ASSUME Inv, NEW x \in Names, BeginFor(x)
  PROVE  Inv'
<1>1. /\ nest' = Append(nest, "for") /\ venv' = Append(venv, Mark) \o Fresh(1)
      /\ env' = env \o Fresh(1) /\ levels' = levels /\ functions' = functions
      /\ escaped' = escaped /\ needed' = needed
  BY DEF BeginFor, Declare
<1>2. PICK a, c, fn : Layout(a, c, fn)
  BY DEF Inv
<1>3. /\ Len(decls) \in Nat /\ depth \in Nat /\ nest \in Seq(Constructs) /\ Len(nest) \in Nat
      /\ env \in Seq(0 .. Len(decls)) /\ Scopes(env, a, depth) /\ Ascending(env)
      /\ venv \in Seq(0 .. Len(decls)) /\ Scopes(venv, c, Len(nest)) /\ Ascending(venv)
      /\ levels \in Seq(Nat) /\ functions \in Nat /\ decls \in Seq(Declarations)
      /\ Enclosing(fn, nest, depth) /\ LevelsRise
  BY <1>2, Open
<1>4. Declares(1) /\ depth' = depth
  BY DeclareOne DEF BeginFor
<1>5. 1 \in Nat /\ "for" \in Constructs /\ "for" # "function"
  BY DEF Constructs
<1>6. /\ nest' \in Seq(Constructs) /\ Len(nest') = Len(nest) + 1 /\ Len(nest) <= Len(nest')
      /\ \A i \in 1 .. Len(nest) : nest'[i] = nest[i]
  BY <1>1, <1>3, <1>5, Entered
<1>7. PICK e : Extends(venv', e, venv, c, 1, Len(nest'))
  BY <1>1, <1>3, <1>5, <1>6, BothExtend
<1>8. PICK b : Extends(env', b, env, a, 1, depth')
  BY <1>1, <1>3, <1>4, <1>5, FreshExtends
<1>9. PICK g : /\ Enclosing(g, nest', depth')
               /\ \A i \in 0 .. Len(nest) : g[i] = fn[i]
  <2>1. /\ nest \in Seq(Constructs) /\ depth \in Nat /\ depth' \in Nat /\ depth' = depth
        /\ nest' = Append(nest, "for") /\ Enclosing(fn, nest, depth)
    BY <1>1, <1>3, <1>4, <1>5
  <2>2. depth' = DepthIn("for", depth)
    BY <2>1, <1>5 DEF DepthIn
  <2> QED
    BY <2>1, <2>2, <1>5, EnclosingMore
<1>10. LevelsRise'
  BY <1>1, <1>3 DEF LevelsRise
<1>11. levels' \in Seq(Nat) /\ depth <= depth' /\ functions' \in Nat
  BY <1>1, <1>3, <1>4
<1>12. \A i \in 1 .. depth : levels'[i] = levels[i]
  BY <1>1
<1> QED
  BY <1>1, <1>2, <1>4, <1>5, <1>6, <1>7, <1>8, <1>9, <1>10, <1>11, <1>12, ScopesGrow

LEMMA BeginFunctionStep ==
  ASSUME Inv, NEW params \in Seq(Names), BeginFunction(params)
  PROVE  Inv'
<1> DEFINE new == [i \in DOMAIN params |->
                     Declaration(params[i], functions', depth + 1, TRUE)]
<1>1. /\ nest' = Append(nest, "function") /\ functions' = functions + 1
      /\ levels' = Append(levels, functions')
      /\ venv' = Append(venv, Mark) \o Fresh(Len(params))
      /\ env' = Append(env, Mark) \o Fresh(Len(params))
      /\ decls' = decls \o new
      /\ escaped' = escaped /\ needed' = needed
  BY DEF BeginFunction
<1>2. PICK a, c, fn : Layout(a, c, fn)
  BY DEF Inv
<1>3. /\ Len(decls) \in Nat /\ depth \in Nat /\ nest \in Seq(Constructs) /\ Len(nest) \in Nat
      /\ env \in Seq(0 .. Len(decls)) /\ Scopes(env, a, depth) /\ Ascending(env)
      /\ venv \in Seq(0 .. Len(decls)) /\ Scopes(venv, c, Len(nest)) /\ Ascending(venv)
      /\ levels \in Seq(Nat) /\ functions \in Nat /\ decls \in Seq(Declarations)
      /\ Enclosing(fn, nest, depth) /\ LevelsRise
  BY <1>2, Open
<1>4. PICK m \in Nat : m = Len(params) /\ DOMAIN params = 1 .. m
  OBVIOUS
<1>5. "function" \in Constructs
  BY DEF Constructs
<1>6. /\ nest' \in Seq(Constructs) /\ Len(nest') = Len(nest) + 1 /\ Len(nest) <= Len(nest')
      /\ \A i \in 1 .. Len(nest) : nest'[i] = nest[i]
      /\ nest' # <<>> /\ Last(nest') = "function"
  BY <1>1, <1>3, <1>5, Entered
<1>7. PICK k \in Nat : k = depth
  BY <1>3
<1>8. /\ levels' \in Seq(Nat) /\ Len(levels') = k + 1 /\ levels'[k + 1] = functions'
      /\ \A i \in 1 .. k : levels'[i] = levels[i]
  <2>1. levels \in Seq(Nat) /\ functions' \in Nat /\ Len(levels) = k
    BY <1>1, <1>3, <1>7 DEF depth
  <2>2. PICK v \in Nat : v = functions'
    BY <2>1
  <2>3. PICK s : s = Append(levels, v)
    OBVIOUS
  <2>4. s \in Seq(Nat) /\ Len(s) = k + 1 /\ s[k + 1] = v /\ \A i \in 1 .. k : s[i] = levels[i]
    BY <2>1, <2>2, <2>3
  <2> QED
    BY <1>1, <2>2, <2>3, <2>4
<1>9. depth' = k + 1 /\ depth <= depth'
  BY <1>7, <1>8 DEF depth
<1>10. PICK e : Extends(venv', e, venv, c, m, Len(nest'))
  BY <1>1, <1>3, <1>4, <1>6, BothExtend
<1>11. PICK b : Extends(env', b, env, a, m, depth')
  <2>1. depth' = depth + 1
    BY <1>7, <1>9
  <2> QED
    BY <1>1, <1>3, <1>4, <2>1, BothExtend
<1>12. PICK g : /\ Enclosing(g, nest', depth')
                /\ \A i \in 0 .. Len(nest) : g[i] = fn[i]
  <2>1. depth' = DepthIn("function", depth)
    BY <1>7, <1>9 DEF DepthIn
  <2>2. /\ nest \in Seq(Constructs) /\ depth \in Nat
        /\ nest' = Append(nest, "function") /\ Enclosing(fn, nest, depth)
    BY <1>1, <1>3
  <2> QED
    BY <1>5, <2>1, <2>2, EnclosingMore
<1>13. functions' \in Nat
  BY <1>1, <1>3
<1>14. Declares(m)
  <2>1. Typed /\ Resolved
    BY DEF Inv
  <2>2. ASSUME NEW i \in 1 .. m
        PROVE  /\ new[i] \in Declarations /\ new[i].hides = Look(venv, new[i].name)
               /\ new[i].formal = TRUE /\ new[i].depth = k + 1 /\ new[i].level = functions'
    <3>1. PICK x \in Names : x = params[i]
      BY <1>4
    <3>2. PICK h \in Nat : h = Look(venv, x)
      BY <2>1, BothLooks
    <3>3. PICK v \in Nat : v = functions'
      BY <1>13
    <3>4. PICK d : d = [name |-> x, level |-> v, depth |-> k + 1, formal |-> TRUE, hides |-> h]
      OBVIOUS
    <3>5. d \in Declarations
      BY <3>4 DEF Declarations
    <3>6. new[i] = d
      BY <1>4, <1>7, <3>1, <3>2, <3>3, <3>4 DEF Declaration
    <3>7. /\ d.name = x /\ d.level = v /\ d.depth = k + 1 /\ d.formal = TRUE /\ d.hides = h
      BY <3>4
    <3> HIDE DEF new
    <3> QED
      BY <3>2, <3>3, <3>5, <3>6, <3>7
  <2>3. DOMAIN new = 1 .. m
    BY <1>4
  <2> HIDE DEF new
  <2>4. PICK u : u = new
    OBVIOUS
  <2>5. u \in Seq(Declarations) /\ Len(u) = m
    <3>1. \E n \in Nat : DOMAIN u = 1 .. n
      BY <2>3, <2>4
    <3>2. new = [i \in 1 .. m |-> new[i]]
      BY <2>3 DEF new
    <3>3. u = [i \in 1 .. m |-> u[i]] /\ \A i \in 1 .. m : u[i] \in Declarations
      BY <2>2, <2>4, <3>2
    <3>4. u \in Seq(Declarations)
      BY <3>3
    <3> QED
      BY <2>3, <2>4, <3>4
  <2>6. PICK l \in Nat : l = Len(decls) /\ DOMAIN decls = 1 .. l
    BY <1>3
  <2>7. PICK f : f = decls \o u
    OBVIOUS
  <2>8. /\ f \in Seq(Declarations) /\ Len(f) = l + m
        /\ \A i \in 1 .. l : f[i] = decls[i]
        /\ \A i \in l + 1 .. l + m : f[i] = u[i - l]
    <3>1. decls \in Seq(Declarations) /\ u \in Seq(Declarations)
      BY <1>3, <2>5
    <3>2. /\ f \in Seq(Declarations) /\ Len(f) = l + m
          /\ \A i \in 1 .. l + m : f[i] = IF i <= l THEN decls[i] ELSE u[i - l]
      <4>1. Len(decls) = l /\ Len(u) = m
        BY <2>5, <2>6
      <4>2. decls \o u \in Seq(Declarations) /\ Len(decls \o u) = Len(decls) + Len(u)
        BY <3>1
      <4>3. \A i \in 1 .. Len(decls) + Len(u) :
              (decls \o u)[i] = IF i <= Len(decls) THEN decls[i] ELSE u[i - Len(decls)]
        BY <3>1
      <4> QED
        BY <2>7, <4>1, <4>2, <4>3
    <3>3. /\ \A i \in 1 .. l : i \in 1 .. l + m /\ i <= l
          /\ \A i \in l + 1 .. l + m : i \in 1 .. l + m /\ ~(i <= l)
      OBVIOUS
    <3> QED
      BY <3>2, <3>3
  <2>9. \A i \in l + 1 .. l + m :
          /\ f[i].hides = Look(venv, f[i].name)
          /\ f[i].formal = TRUE /\ f[i].depth = k + 1 /\ f[i].level = functions'
    <3> TAKE i \in l + 1 .. l + m
    <3>1. i - l \in 1 .. m
      OBVIOUS
    <3> QED
      BY <2>2, <2>4, <2>8, <3>1
  <2>10. depth' # 0 /\ levels'[depth'] = functions' /\ depth' = k + 1
    BY <1>8, <1>9
  <2>11. decls' = f
    BY <1>1, <2>4, <2>7
  <2> QED
    BY <1>6, <2>6, <2>8, <2>9, <2>10, <2>11 DEF Declares
<1>15. LevelsRise'
  <2>1. DOMAIN levels' = 1 .. k + 1 /\ DOMAIN levels = 1 .. k
    BY <1>3, <1>7, <1>8 DEF depth
  <2>2. /\ \A i \in 1 .. k : levels[i] \in 1 .. functions
        /\ \A i, j \in 1 .. k : i < j => levels[i] < levels[j]
    BY <1>3, <2>1 DEF LevelsRise
  <2>3. \A i \in 1 .. k + 1 : i = k + 1 \/ i \in 1 .. k
    OBVIOUS
  <2>4. \A i \in 1 .. k : levels'[i] \in 1 .. functions
    BY <1>8, <2>2
  <2>5. \A i \in DOMAIN levels' : levels'[i] \in 1 .. functions'
    <3> TAKE i \in DOMAIN levels'
    <3>1. i \in 1 .. k + 1
      BY <2>1
    <3>2. CASE i = k + 1
      BY <1>1, <1>3, <1>8, <3>2
    <3>3. CASE i \in 1 .. k
      <4>1. levels'[i] \in 1 .. functions
        BY <2>4, <3>3
      <4> QED
        <5>1. functions \in Nat /\ functions' = functions + 1
          BY <1>1, <1>3
        <5>2. 1 .. functions \subseteq 1 .. functions'
          BY <5>1
        <5> QED
          BY <4>1, <5>2
    <3> QED
      BY <2>3, <3>1, <3>2, <3>3
  <2>6. ASSUME NEW i \in DOMAIN levels', NEW j \in DOMAIN levels', i < j
        PROVE  levels'[i] < levels'[j]
    <3>1. i \in 1 .. k /\ (j = k + 1 \/ j \in 1 .. k)
      BY <2>1, <2>6
    <3>2. CASE j \in 1 .. k
      BY <1>8, <2>2, <2>6, <3>1, <3>2
    <3>3. CASE j = k + 1
      <4>1. levels'[i] \in 1 .. functions
        BY <2>4, <3>1
      <4>2. levels'[j] = functions + 1
        BY <1>1, <1>8, <3>3
      <4> QED
        BY <1>3, <4>1, <4>2
    <3> QED
      BY <3>1, <3>2, <3>3
  <2> QED
    BY <2>5, <2>6 DEF LevelsRise
<1>16. levels' \in Seq(Nat) /\ \A i \in 1 .. depth : levels'[i] = levels[i]
  BY <1>7, <1>8
<1> HIDE DEF new
<1> QED
  BY <1>1, <1>2, <1>6, <1>9, <1>10, <1>11, <1>12, <1>13, <1>14, <1>15, <1>16, ScopesGrow

-------------------------------------------------------------------------------
LEMMA InitInv ==
  ASSUME Init
  PROVE  Inv
<1>1. /\ decls = <<>> /\ env = <<>> /\ venv = <<>> /\ levels = <<>> /\ functions = 0
      /\ nest = <<>> /\ escaped = {} /\ needed = {} /\ depth = 0
  BY DEF Init, depth
<1>2. Typed
  BY <1>1 DEF Typed
<1>3. LevelsRise /\ Resolved /\ MarkedUnlessHidden
  BY <1>1 DEF LevelsRise, Resolved, MarkedUnlessHidden, Ascending, Binds
<1>4. PICK fn : fn = [i \in {0} |-> 0]
  OBVIOUS
<1>5. Enclosing(fn, nest, depth)
  <2>1. Len(nest) = 0 /\ 0 .. 0 = {0} /\ 1 .. 0 = {} /\ fn[0] = 0
    BY <1>1, <1>4
  <2>2. /\ \A i \in 0 .. Len(nest) : i = 0
        /\ \A i \in 1 .. Len(nest) : FALSE
    BY <2>1
  <2> QED
    BY <1>1, <2>1, <2>2 DEF Enclosing
<1>6. Scopes(env, fn, depth) /\ Scopes(venv, fn, Len(nest))
  BY <1>1 DEF Scopes
<1>7. Layout(fn, fn, fn)
  BY <1>1, <1>5, <1>6 DEF Layout
<1> QED
  BY <1>2, <1>3, <1>7 DEF Inv

LEMMA StepInv ==
  ASSUME Inv, [Next]_vars
  PROVE  Inv'
<1>1. CASE \E params \in SeqOf(Names, MaxParams) : BeginFunction(params)
  <2>1. PICK params \in SeqOf(Names, MaxParams) : BeginFunction(params)
    BY <1>1
  <2>2. params \in Seq(Names)
    <3>1. PICK n \in 0 .. MaxParams : params \in [1 .. n -> Names]
      BY DEF SeqOf
    <3>2. n \in Nat
      BY BoundsAssumption
    <3> QED
      BY <3>1, <3>2
  <2> QED
    BY <2>1, <2>2, BeginFunctionStep
<1>2. CASE EndFunction
  BY <1>2, EndOfFunction
<1>3. CASE \E x \in Names : VarDec(x)
  BY <1>3, VarDecStep
<1>4. CASE BeginLet
  BY <1>4, BeginLetStep
<1>5. CASE LetBody
  BY <1>5, LetBodyStep
<1>6. CASE EndLet \/ EndFor
  BY <1>6, EndOfVariables
<1>7. CASE \E x \in Names : BeginFor(x)
  BY <1>7, BeginForStep
<1>8. CASE \E x \in Names : SimpleVar(x)
  BY <1>8, SimpleVarStep
<1>9. CASE UNCHANGED vars
  <2>1. /\ decls' = decls /\ env' = env /\ venv' = venv /\ levels' = levels
        /\ functions' = functions /\ nest' = nest /\ escaped' = escaped /\ needed' = needed
    BY <1>9 DEF vars
  <2>2. PICK a, c, fn : Layout(a, c, fn)
    BY DEF Inv
  <2>3. Layout(a, c, fn)'
    BY <2>1, <2>2 DEF Layout, depth
  <2>4. (Typed /\ LevelsRise /\ Resolved /\ MarkedUnlessHidden)'
    BY <2>1 DEF Inv, Typed, LevelsRise, Resolved, MarkedUnlessHidden, HiddenByVariable
  <2> QED
    BY <2>3, <2>4 DEF Inv
<1> QED
  BY <1>1, <1>2, <1>3, <1>4, <1>5, <1>6, <1>7, <1>8, <1>9 DEF Next

(* Whatever the program: the declaration a use refers to is known to       *)
(* traverseVar, which so follows no null entry, and it never finds an      *)
(* older one in its place.                                                 *)
THEOREM VisibleAlwaysFound == Spec => []VisibleIsFound
<1>1. Inv => VisibleIsFound
  BY BothLooks DEF Inv, VisibleIsFound
<1> QED
  BY <1>1, InitInv, StepInv, PTL DEF Spec

(* Whatever the program: a variable reached along static links has its     *)
(* escape field set unless one of a let or for has hidden it, and without  *)
(* need only a variable that hides another is marked.                      *)
THEOREM MissedOnlyWhenHidden == Spec => []MarkedUnlessHidden
<1>1. Inv => MarkedUnlessHidden
  BY DEF Inv
<1> QED
  BY <1>1, InitInv, StepInv, PTL DEF Spec
===============================================================================
