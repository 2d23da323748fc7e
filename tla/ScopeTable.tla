------------------------------ MODULE ScopeTable ------------------------------
(***************************************************************************)
(* The symbol tables of the semantic analysis: the hash table of table.c   *)
(* with the scopes symbol.c builds on it.                                  *)
(*                                                                         *)
(* A table is an array of bucket chains, newest binder first.  Across the  *)
(* buckets the binders form a second list, newest first, that is threaded  *)
(* by KEY, not by address: top is the key entered last and every binder    *)
(* remembers the key that was top before it.  TAB_pop relies on the binder *)
(* it must remove being the first of the bucket that top hashes to.        *)
(* S_beginScope enters the mark; S_endScope pops until it has popped it.   *)
(***************************************************************************)
EXTENDS Integers, Sequences, FiniteSets

CONSTANTS
  Symbols,     \* the symbols, by the address S_Symbol interned them at
  Mark,        \* &marksym
  NoKey,       \* a NULL key
  Values, Null,
  Buckets,     \* 0 .. TABSIZE - 1
  Hashes,      \* the ways in which addresses may fall on buckets
  MaxBinders   \* bound of the model: binders in the table

Keys == Symbols \union {Mark}

ASSUME KeysAssumption == Mark \notin Symbols /\ NoKey \notin Keys
ASSUME HashesAssumption == Hashes \subseteq [Keys -> Buckets]
ASSUME ValuesAssumption == Null \notin Values
ASSUME MaxBindersAssumption == MaxBinders \in Nat

VARIABLES
  hash,        \* where each key's address falls; never written
  table,       \* the bucket chains
  top,
  closing      \* S_endScope is in its loop

vars == <<hash, table, top, closing>>

-------------------------------------------------------------------------------
(* TAB_empty, at addresses that hash as they may.                          *)
Init ==
  /\ hash \in Hashes
  /\ table = [b \in Buckets |-> <<>>]
  /\ top = NoKey
  /\ closing = FALSE

(* The first binder of the chain k's address falls on.                     *)
First(t, k) == t[hash[k]][1]
IsEmpty(t, k) == t[hash[k]] = <<>>

Without(t, k) == [t EXCEPT ![hash[k]] = Tail(@)]

(* History: each binder is stamped with the order it was entered in.  The  *)
(* code keeps no such number and no action decides anything by it.         *)
Binders == UNION {{table[b][i] : i \in 1 .. Len(table[b])} : b \in Buckets}

Stamp == 1 + Cardinality({n \in 1 .. MaxBinders : \E b \in Binders : b.at >= n})

(* The binders in the order they were entered.                             *)
Entered ==
  LET all == Binders
  IN  [i \in 1 .. Cardinality(all) |->
         CHOOSE b \in all : Cardinality({c \in all : c.at <= b.at}) = i]

(* Binder(key, value, next, prevtop), put at the head of its chain.        *)
(* Fault: the binder remembers its own key as the previous top.            *)
BinderOwnKey(k, v) == [key |-> k, value |-> v, prevtop |-> k, at |-> Stamp]

NewBinder(k, v) == [key |-> k, value |-> v, prevtop |-> top, at |-> Stamp]

(* TAB_enter(t, k, v)                                                      *)
TAB_enter(k, v) ==
  /\ table' = [table EXCEPT ![hash[k]] = <<NewBinder(k, v)>> \o @]
  /\ top' = k

(* TAB_look(t, k): the first binder of k's chain with that key.  Fault:    *)
(* the first binder of the chain, whatever its key.                        *)
TAB_lookFirst(k) == IF IsEmpty(table, k) THEN Null ELSE First(table, k).value

TAB_look(k) ==
  LET chain == table[hash[k]]
      holding == {i \in 1 .. Len(chain) : chain[i].key = k}
  IN  IF holding = {} THEN Null
      ELSE chain[CHOOSE i \in holding : \A j \in holding : i <= j].value

-------------------------------------------------------------------------------
(* S_enter(t, sym, value): a binding of a declaration.                     *)
S_enter(s, v) ==
  /\ ~closing /\ Stamp <= MaxBinders
  /\ TAB_enter(s, v)
  /\ UNCHANGED <<hash, closing>>

(* S_beginScope(t)                                                         *)
S_beginScope ==
  /\ ~closing /\ Stamp <= MaxBinders
  /\ TAB_enter(Mark, Null)
  /\ UNCHANGED <<hash, closing>>

(* S_endScope(t) is entered; its callers have begun the scope before.      *)
S_endScope ==
  /\ ~closing
  /\ \E b \in Binders : b.key = Mark
  /\ closing' = TRUE
  /\ UNCHANGED <<hash, table, top>>

(* One round of S_endScope's loop: TAB_pop, and go on unless it returned   *)
(* the mark.  Faults: top is left alone; a round too few.                  *)
TAB_popKeepsTop ==
  /\ closing
  /\ top # NoKey /\ ~IsEmpty(table, top)
  /\ table' = Without(table, top)
  /\ closing' = (First(table, top).key # Mark)
  /\ UNCHANGED <<hash, top>>

TAB_popStopsEarly ==
  /\ closing
  /\ top # NoKey /\ ~IsEmpty(table, top)
  /\ table' = Without(table, top)
  /\ top' = First(table, top).prevtop
  /\ closing' = (First(table, top).prevtop # Mark)
  /\ UNCHANGED hash

TAB_pop ==
  /\ closing
  /\ top # NoKey /\ ~IsEmpty(table, top)      \* the two asserts of TAB_pop
  /\ table' = Without(table, top)
  /\ top' = First(table, top).prevtop
  /\ closing' = (First(table, top).key # Mark)
  /\ UNCHANGED hash

Next ==
  \/ \E s \in Symbols, v \in Values : S_enter(s, v)
  \/ S_beginScope
  \/ S_endScope
  \/ TAB_pop

Spec == Init /\ [][Next]_vars /\ WF_vars(TAB_pop)

-------------------------------------------------------------------------------
(* The abstract environment a table stands for.  While a scope is being    *)
(* closed it already counts as closed.                                     *)
Live ==
  LET all == Binders
      marks == {b.at : b \in {b \in all : b.key = Mark}}
  IN  IF closing
      THEN {b \in all : \E m \in marks : b.at < m /\ \A n \in marks : n <= m}
      ELSE all

(* The binding of each symbol that is newest among some binders.           *)
View(binders) ==
  [s \in Symbols |->
     LET of == {b \in binders : b.key = s}
     IN  IF of = {} THEN Null
         ELSE (CHOOSE b \in of : \A c \in of : c.at <= b.at).value]

(* One mapping per open scope: what was visible when the scope inside it   *)
(* began, and for the innermost one what is visible now.                   *)
EnvOf ==
  LET live == Live
      marks == {b \in live : b.key = Mark}
      inner(j) == CHOOSE m \in marks : Cardinality({n \in marks : n.at <= m.at}) = j
      depth == Cardinality(marks) + 1
  IN  [j \in 1 .. depth |->
         View(IF j = depth THEN live ELSE {b \in live : b.at < inner(j).at})]

Env == INSTANCE ScopeEnv WITH Unbound <- Null, env <- EnvOf

(* The hash table with its thread of tops is a scoped environment: every   *)
(* step enters a binding, begins a scope, ends the innermost scope, or     *)
(* shows nothing.                                                          *)
ImplementsScopes == Env!Spec

(* A look-up finds the newest binding of the symbol, also when other       *)
(* symbols share its chain.                                                *)
LookFindsVisible ==
  ~closing => \A s \in Symbols : TAB_look(s) = Env!Visible[s]

(* The thread of tops and the chains agree: top is the key of the newest   *)
(* binder, each binder remembers the key entered before it, and a chain    *)
(* lists its binders newest first.  So TAB_pop, which only knows a key,    *)
(* finds the newest binder at the head of that key's chain.                *)
ThreadMatchesChains ==
  LET entered == Entered
      count == Len(entered)
  IN  /\ top = IF count = 0 THEN NoKey ELSE entered[count].key
      /\ \A i \in 1 .. count :
           entered[i].prevtop = IF i = 1 THEN NoKey ELSE entered[i - 1].key
      /\ \A b \in Buckets : \A i \in 1 .. Len(table[b]) :
           /\ hash[table[b][i].key] = b
           /\ i > 1 => table[b][i - 1].at > table[b][i].at

(* S_endScope returns: it finds its mark before the table is empty.        *)
EndScopeReturns == closing ~> ~closing
===============================================================================
