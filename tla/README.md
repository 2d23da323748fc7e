# tiger-in-c: verification project

TLA+ models of the Tiger compiler in `src/src` (C, about 7,300 lines), model-checked with TLC, with
theorems checked by TLAPS. The compiler is one thread that runs a chain of phases; what is hard in it is
not interleaving but two other things: long sequences of updates of shared data structures whose invariants
hold only between updates (worklist algorithms, in-place fixpoints, hash tables used as stacks, rearranged
lists), and agreements between procedures far apart (caller and callee on arguments, the escape pass and the
semantic analysis on scopes, translation and linearisation on the order of effects).

## 1. The system

```
main.c   parse -> Esc_findEscape -> SEM_transProg  (semant.c, translate.c: one fragment per function)
         for each function (doProc, main.c:47-88):
           C_linearize -> C_basicBlocks -> C_traceSchedule     canon.c
           -> F_codegen                                        riscv_codegen.c
           -> F_procEntryExit2 -> Color_Main -> F_procEntryExit3
```

| component | state | operations | what makes it correct | modules |
|---|---|---|---|---|
| abstract syntax (`absyn.c`, `tiger.y`) | trees | constructors | | `Absyn` |
| escape analysis (`escape.c`) | one table, depth | `traverseExp/Dec/Var` | marks exactly the variables used by inner functions | `Escape` |
| semantic analysis (`semant.c`, `types.c`, `env.c`) | two symbol tables, break level | `transExp`, `transVar`, `transDec`, `transTy`, `actual_ty` | accepted programs do not go wrong; rejects instead of crashing or looping | `Semant` |
| translation (`translate.c`, `tree.c`) | levels, fragments, patch lists | `Tr_*` | the tree does what the source means; static links lead to the right frame | `Translate`, `Tree`, `StaticLink` |
| linearisation (`canon.c`) | tree, overwritten in place | `do_stm`, `do_exp`, `reorder`, `commute`, `linear` | same effects in the same order, no ESEQ, calls isolated | `Linearize` |
| basic blocks and traces (`canon.c`) | `block_env`, list of blocks | `mkBlocks`, `next`, `trace`, `getNext` | same control flow; every conditional jump followed by its false label | `Trace` |
| instruction selection (`riscv_codegen.c`) | instruction list | `munchStm`, `munchExp`, `munchArgs`, `popStack`, `F_codegen` | the instructions do what the list does | `Munch`, `Emit` |
| frames (`riscv_frame.c`) | stack size, offsets, argument registers | `F_newFrame`, `F_allocFormals`, `F_allocLocal`, `F_procEntryExit2/3` | caller and callee agree where an argument is; the stack is given back | `Calls`, `Emit` |
| symbol tables (`table.c`, `symbol.c`) | bucket chains, the thread of tops | `S_enter`, `S_look`, `S_beginScope`, `S_endScope` over `TAB_enter`, `TAB_look`, `TAB_pop` | behaves as nested scopes, whatever keys collide | `ScopeTable`, `ScopeEnv` |
| flow graph (`flowgraph.c`, `graph.c`) | graph, label table | `FG_AssemFlowGraph_Internal`, `G_addEdge` | an edge for every way control can go | `FlowGraph` |
| liveness (`liveness.c`) | `in_map`, `out_map`, `changed`, list position | the sweeps of `Live_Liveness` | returns exactly the live temporaries, and returns | `Liveness` |
| register allocation (`color.c`) | interference graph, degrees, five move sets, three worklists, stack, aliases, colours | `build`, `MakeWorkList`, `Simplify`, `Coalesce`, `Freeze`, `SelectSpill`, `AssignColors`, `RewriteProgram` | interfering temporaries get different registers; no node or move is lost; it ends; spilling keeps the meaning | `Interference`, `Coloring`, `Spill` |
| driver (`main.c`) | | `main`, `doProc` | | `Pipeline` |
| sets (`set.c`), temporaries (`temp.c`) | sorted arrays, counters | | sets | |
| scanner, parser, printers | | | not modelled: generated code, output | |

Interactions: the semantic analysis and the flow graph use the symbol tables; the semantic analysis calls the
translation bottom-up and reads what the escape pass has written into the tree; instruction selection looks up
the formals of the called function in the tables the semantic analysis left; the register allocator calls
the liveness analysis on the flow graph and reads its `out` map in `build`; a spill rewrites the instruction
list and starts the allocator again, flow graph and liveness included.

Hard behaviours, listed line by line under `hazards` in `PROJECT.json`: in-place updates that mix old and new
values (liveness); nodes and moves migrating between a dozen sets while degrees cross a threshold (color);
removal by key from a hash bucket (table); expressions moved past statements (linearisation); types declared
together and resolved while some still point nowhere (semant); registers that are live without the analysis
knowing (calls); boundary arithmetic (degree K, constant folding, frame offsets); termination of fixpoints,
worklists and chains of names.

## 2. Modules

| module | models | composed with |
|---|---|---|
| `Absyn`, `Tree` | the constructors of `absyn.c` and `tree.c` | |
| `Translate` | `translate.c` | extends `Tree` |
| `Semant` | `semant.c`, `env.c`, `types.c` | extends `Absyn`, `Translate` |
| `Linearize` | `C_linearize` | extends `Tree` |
| `Munch` | `riscv_codegen.c` | extends `Tree`, `Words` |
| `Spill` | `RewriteProgram` | extends `Munch` |
| `Pipeline` | `main` and `doProc`: the stages one after the other | extends `Semant`, `Linearize`, `Spill`, `Runtime`; `MCPipeline` lists programs |
| `Reference` | abstract: what a source program means | instantiated by `Pipeline` |
| `Runtime`, `Words` | machines that run lists of statements and of instructions; words of the machine | |
| `Nesting`, `StaticLink` | abstract: what static links promise | `StaticLinkProofs` proves about it |
| `Calls` | frames, calls and links on a memory of words | implements `StaticLink` under the mapping `Frames`, `Walk`; `MCCalls`, `CallsProofs` |
| `Liveness` | `Live_Liveness` | `MCLiveness` instantiates it, `LivenessProofs` proves about it |
| `Coloring` | one round of `Color_Main` after `build` | `MCColoring`, `ColoringProofs` |
| `ScopeEnv` | abstract: what `symbol.h` promises of an `S_table` | |
| `ScopeTable` | `table.c` and the scopes of `symbol.c` | implements `ScopeEnv` under the mapping `EnvOf`; `MCScopeTable`, `ScopeTableProofs` |
| `Trace` | `C_basicBlocks` and `C_traceSchedule` | `MCTrace`, `TraceProofs` |
| `FlowGraph` | `FG_AssemFlowGraph` | |
| `Interference` | `build`, after the flow graph and the liveness analysis | extends `FlowGraph`; `MCInterference`, `InterferenceProofs` |
| `Emit` | from a schedule to the instructions and block ends: `munchStm`, `F_codegen`, `F_procEntryExit2` | `MCInterference` makes its functions with it |
| `Escape` | `Esc_findEscape`, beside the scopes of `semant.c` | `MCEscape`, `EscapeProofs` |

In every module an operator whose comment calls it a *fault* is a plausible bug of the code. No action uses it:
`PROJECT.json` ("mutants") says which definition it replaces to show that a property can fail.

### Semant, Translate, Linearize, Munch, Spill: the pipeline

These five are the code's recursive procedures as recursive operators, one per procedure or `case`, and
`Pipeline` runs them on whole programs; each of its actions is one stage (`SemTransProg`, `CLinearize`, `FCodegen`,
and `SpillMain` or `SpillProc` for the function whose temporaries are spilled). Where the code stops the
operators return how: `EM_error` (which exits), a failed assertion or a bad pointer ("crash"), or a loop
without end ("hang"). Symbol tables are functions, which `ScopeTable` justifies; type objects are named by
the node that declares them, and `env.st` holds what each points to, so that `transDec` can fill in headers after
others have looked at them, as the code does. Temporaries and labels are named by the place that makes them
rather than by a counter. `doPatch` replaces labels where the code writes through patch lists; each list is
patched once. `reorder` returns what stands in the places the code overwrites.

A level is the sequence of enclosing functions, and the loops over `level->parent` (`Tr_simpleVar`, `Tr_callExp`)
become a number of fetches, `Fetches`; `Calls` and `StaticLink` follow the same walk step by step.

Instructions keep opcode, operands, number and labels. `Made` and `Append(where, 9)` are fresh temporaries. The
slots of a frame are recomputed in `Spill` from the accesses a function makes, which is where `stack_size` stands
unless a variable in memory is never used; a larger number moves all spill slots alike.

`Reference` is an interpreter of the abstract syntax, written from the language and not from the translation:
values carry their kind, records and arrays are objects. It says how a program ends, and notes (`known`) when
a program does something of which the comparison is known to turn out differently. `Runtime` runs the lists
`C_linearize` returns and the instructions, with a stack of activations of its own. Programs reach the machine through their prints alone.

| definition | code |
|---|---|
| `transExp`, one `trans...` per case | `semant.c` 121-423 |
| `transVar`, `transDec` and its cases, `transTy`, `actual_ty` | `semant.c` 425-480, 482-634, 636-666, 43-54 |
| `Tr_...`, `unEx`, `unNx`, `unCx` | the procedure of that name in `translate.c` |
| `do_stm`, `do_move`, `do_exp`, `reorder`, `commute`, `linear` | `canon.c` 32-158 |
| `munchStm`, `munchMove`, `munchCjump`, `munchExp`, `munchBinop`, `munchMem` | `riscv_codegen.c` 67-329 |
| `munchArgs`, `Handed`, `munchCall`, `popStack` | `riscv_codegen.c` 26-65, 99-113, 313-326 |
| `RewriteProgram`, `RewriteOne`, `WithMemory` | `color.c` 747-822 |
| `EntryMoves`, `FormalsInReg` | `riscv_frame.c` 354-366, 79-101 |

### Calls, StaticLink

`StaticLink` has activations with links and variables and says what a walk along links finds. `Calls` is the machine:
memory from addresses to words, `fp`, `sp`, the argument registers, and offsets computed as `F_newFrame`, `F_allocFormals`
and `F_allocLocal` do. A call is several steps: the walk to the link (`Follow`), one argument at a time from the last to
the first (`HandOver`), the push of the link with the call and the entry of the function (`Enter`), `Return`. What an
activation keeps in temporaries (the saved frame pointer, the fetched formals) is in `acts`, since the registers
are saved around it. `ARG_IN_REG` registers take the arguments that do not escape, the static link not among them;
`RegistersAssumption` is the assertion of `F_allocFormals` that they suffice. `Frames` maps memory to the activations of `StaticLink`, links by the frame pointers stored,
variables by what is at their addresses. `arg_reg_count` is taken to start at 0 (see section 6).

| definition | code |
|---|---|
| `FormalOffset`, `F_allocLocal`, `stack_size` | `riscv_frame.c` 79-151 |
| `StartCall`, `CallHops`; `StartUse`, `UseHops` | `translate.c` 69-94; 23-37 |
| `HandOver`, `PassedIn`, `popStack` | `riscv_codegen.c` 26-65 |
| `Enter`, `FetchedFrom`, `Return` | `riscv_frame.c` 330-397 |

### Liveness

One iteration of the inner loop is one step (`Visit`); the head of the outer loop is `NextPass`. The order
inside an iteration is the code's: `in[n]` from the old `out[n]`, stored, then the successors' `in` (its own, if
the instruction branches to itself). `FG_use`, `FG_def`, `G_succ` are the flow graph's functions; a flow graph
is chosen in `Init` and never written.

| definition | code (`liveness.c`) |
|---|---|
| `Init` | 27-35 |
| `NextPass` | 36-38 |
| `Visit`, `Transfer`, `Gather`, `Changed` | 38-53 |
| `Returned` | 36, 79 |

### Coloring

Each procedure called by the main loop is one action with all it calls: `Simplify` with `DecrementDegree` and
`EnableMoves`; the four branches of `Coalesce`, `CoalesceCombine` with `Combine`, `AddEdge`, `DecrementDegree`
and `AddWorkList`; `Freeze` and `SelectSpill` with `FreezeMoves`; one round of `AssignColors` per step. Inner loops
are closed forms, which is exact because their iterations touch different nodes and decide by
`activeMoves ∪ worklistMoves`, which they do not change; a degree is raised and lowered in the order of
the code (`raised` in `CoalesceCombine`). `SET_pop` takes the largest node (the sets are sorted by key);
`worklistMoves` is sorted by address, so any move may come first. `degree` goes below zero for machine
registers, as it does in the code. `adjSet` determines `adjList`, since `AddEdge` writes both; `Colors` are
register numbers, where the code pops the name that is last in the order of `strcmp`.

`selected` is a history variable: what `SelectSpill` chose.

Not in this module: `build` (its result is `input`, any graph and any move ends; see `Interference`) and what follows
a spill (`Spill`).

### ScopeTable

`hash` is where each key's address falls, one of `Hashes`; it never changes. A binder
has the field `at`, the order of entry: a history stamp no action decides by. `S_endScope` is a loop, so it is
several steps: `closing` is set while it runs, `TAB_pop` is one round of it. Callers end only scopes they began.

`EnvOf` maps the table to one mapping per open scope. While a scope is being closed it already counts as closed,
so the pops of the loop are stutters of `ScopeEnv` and the call is its `EndScope`.

### Trace

`mkBlocks` and `next` call each other once per statement, and `trace` and `getNext` once per block; each call
is one step. `cur` says whether `next` is active and holds its block, `target` says whether `trace` is and
holds the block it was called with. The code splices lists by their tails after the recursive calls return or
before they are made; since a block's tail is written only when that block is traced, the spliced list read
front to back is `out`, which grows at its end. `env` is `block_env`, with 0 for the `NULL` of a traced block.
Operators and operands are abstracted to the identity of the statement and one bit, whether `T_notRel` has been
applied; `T_notRel` maps each relation to its complement.

The initial list is what `C_linearize` returns: any list in which each label is defined once and each jump names one of
them or, for a `break` in a function declared inside a loop (`semant.c:381`), the label of another function (`Elsewhere`,
never in `block_env`). Such a jump ends a block and stays; control that comes to it has left the function (-2 in `From`).

| definition | code (`canon.c`) |
|---|---|
| `MkBlocks`, `NextStm`, `EndBlock`, `Ending` | 168-201 |
| `Schedule` | 294-304 |
| `GetNextExit`, `GetNextBlock`, `GetNextSkip` | 270-281 |
| `TraceJump`, `TraceJumpBack` | 237-244 |
| `TraceCjumpFalse`, `TraceCjumpTrue`, `TraceCjumpNeither` | 246-263 |

### Emit, FlowGraph, Interference

`Emit` turns a schedule into the instructions of a function and notes where blocks end, as the three procedures
of the code do between them. Of an expression it keeps the temporaries used. `MCInterference` lists the
schedules with properties 3 to 7 and hands the functions to `Interference` as its constant `Functions`.

`FlowGraph` follows the recursion of `FG_AssemFlowGraph_Internal`: on the way down `Label` and `Enter`, at the
end `Bottom`, on the way up `Leave`. Successors and predecessors are lists with the newest edge first, because
`isBlockStart` looks at the first predecessor only. Where an assertion fails the compiler stops (`AssertFails`).
`WellFormed` is what a function must be like: labels that are
unique, conditional jumps followed by the jump to their false label, jumps that go back, to the exit, or to a label that is
not in the function at all (a `break` in a function declared inside a loop, `semant.c:381`), a jump before the exit label, and blocks that end where
`F_codegen` and `F_procEntryExit2` say (`Layout`). `TraceProofs` proves the parts of it that are the schedule's
(`FalseLabelFollows`, `JumpsLeftGoBack`, `ExitIsJumpedTo`, `EverythingOnce`); the rest is how `Emit` puts instructions for
statements. TLC evaluates it for every function of the run.

`Interference` is `build`: `Analyse` takes the least solution of the liveness equations as given (module `Liveness`
shows that the analysis returns it), `NextBlock` takes a block end, and each iteration of the inner loop is
`WalkBack`, `EndBlock` or, when the assertion fails, `AbortBuild`. Blocks are taken by position, in the code by
address; what is done for one does not depend on another. `adjSet` has unordered pairs, since `AddEdge` enters both
orders. `moveList` is determined by `worklistMoves` and is left out; degrees are `Coloring`'s.

| definition | code |
|---|---|
| `Label`, `Enter`, `Bottom`, `Leave`, `Target`, `AddTarget` | `flowgraph.c` 69-106, `graph.c` 80-88 |
| `Analyse`, `IsBlockStart` | `color.c` 53-70 |
| `NextBlock`, `WalkInstr`, `WalkBack`, `EndBlock`, `AbortBuild`, `BuildDone` | `color.c` 182-232 |
| `munchStm`, `BlockEnds`, `procEntryExit2` | `riscv_codegen.c` 132-188 and 343-351, `riscv_frame.c` 330-377 |

### Escape

The escape pass and the semantic analysis walk the same tree in the same order, one after the other; the module
walks it once with both environments, and the program is chosen on the way. `env` is the table of `escape.c`, where
only functions put a mark, `venv` that of `semant.c`, where `let` and `for` do too. Both are sequences, the abstract
view of a table that `ScopeTable` justifies. `hides` is what a declaration hides for `semant.c`; `needed` is a history
variable: the declarations that `Tr_simpleVar` reaches through static links, and so must find in memory. Programs
are those `semant.c` accepts: names are used where they are visible. Function names are apart from variable names.

| definition | code |
|---|---|
| `BeginFunction`, `EndFunction`, `VarDec` | `escape.c` 90-113, `semant.c` 515-548, 562-596 |
| `BeginLet`, `LetBody`, `EndLet` | `escape.c` 193-202, `semant.c` 386-401 |
| `BeginFor`, `EndFor` | `escape.c` 176-191, `semant.c` 359-375 |
| `SimpleVar` | `escape.c` 61-74, `semant.c` 428-434, `translate.c` 23-37 |

## 3. Runs

| run | bounds | shows |
|---|---|---|
| `liveness` | 4 instructions, every shape of fall-through, jump and branch; two temporaries, the first with any one or two uses and up to two definitions | `SweepInvariant` (no set exceeds its equation, in the middle of a sweep too, and a quiet sweep leaves what it passed settled); `ExactOnReturn` (equals liveness by paths); `OnlyGrows`; `Termination` |
| `coloring` | 2 registers, 4 temporaries, every graph, two of them possibly next to registers; 2 moves among three of them | the worklist invariants of the comment at `color.c:84-100` at every turn of the loop (`WorklistInvariant`); `ProperColoring`; `CoalescingIsConservative` |
| `coloring_registers` | 2 registers, 3 temporaries, 2 moves between any nodes, one temporary possibly next to registers | `DegreesOfTemps` (the degree invariant of that comment, of temporaries: none goes wrong when registers get into a worklist); `OnePlacePerTemp`, `MovePartition`, `MovesSettled` (no move is left undecided, and coalesced ends agree), `SpillsWereSelected`, `ProperUnlessRegisterSimplified`, `Termination` |
| `coloring_register_degree` | as `coloring_registers` | violated: `DegreeInvariant`, see section 5 |
| `scope_table` | 2 symbols, 2 values, the mark, every hashing into 2 buckets up to renaming of symbols and buckets, at most 5 binders | `ScopeTable` implements `ScopeEnv`; `LookFindsVisible`; `ThreadMatchesChains`; `EndScopeReturns` |
| `trace` | every list of 6 statements, 3 of them labels, no two plain ones in a row, jumps out of the function among them | `Canonical` (properties 3 to 7 of the comments in `canon.c`), `EverythingOnce`, `JumpsAsNeeded` (a jump that stays goes back, to the exit or out of the function, and the block placed last is left by one), `ControlPreserved` (for lists of the shape `translate.c` makes), `Termination` |
| `interference` | every function of 2 blocks with at most a statement each, with or without a formal in a register, jumps to a label of another function among the statements | `StopsWhereKnown` (the flow graph's assertion stops the compiler at such a jump, `build`'s at the entry, and nothing else does); `EdgesFollowControl`; `BuildExact` (the backward walks miss nothing and add nothing) |
| `interference_entry_loop` | as `interference` | violated: `NeverAborted`, see section 5 |
| `escape` | 2 names, 3 variables, 2 functions with at most a formal, nested 4 deep | `VisibleIsFound`, `MarkedUnlessHidden` |
| `pipeline` | 5232 programs; words of 10 bits; 12 calls and rounds of loops in the source, 256 statements, 2048 instructions; one or two temporaries of a function spilled | `AcceptedRunsRight`, `CrashesAreKnown`, `HangsOnlyIntoCycles`, `SameMeaning`, `SelectionFaithful`, `ArgumentsUndisturbed` |
| `pipeline_calls` | as `pipeline` | violated: `CallsIsolated`, see section 5 |
| `calls` | 4 functions nested 2 deep, at most 3 activations, one function with an escaping formal between two in registers | `Calls` implements `StaticLink`; `WalkArrives`; `StackBalanced`; `OnlyEscapingFormalsLost` |

Why the bounds suffice. Liveness of one temporary does not depend on another's except through the common
`changed` flag, so the first temporary goes over all shapes of four instructions (loops, self-loops and diamonds need
four), and the second, with few shapes of its own, makes the flag rise when the first would be quiet. With two registers,
four temporaries make cliques that must spill, nodes that cross degree K in both directions, alias chains and both
coalescing tests; Briggs' test can fail with K significant neighbours, which four temporaries give. Five binders
allow a shadowed binding, two nested scopes with a binding in each and collisions of every pair of keys.
Three labels and three other statements give up to five blocks, with two conditional jumps and a jump among
them: both targets already placed, the true one only, a block that jumps to itself, one that nothing reaches.
Two blocks make loops, self-loops, conditional jumps out of and back into the middle, and a move, a use and a
definition on either side of a block's end. Three variables with two names allow one hidden twice, and two
functions a variable used two levels further in. Three activations are enough for a function that calls its
sibling (a link to the caller's parent), its child (a link to the caller), its parent and itself.

The programs of `pipeline` are families, each around one construct and built from all combinations of
small sets of expressions: `Binary` and `Calls` (15 expressions on either side, with calls, assignments and prints as
effects, so that every pair of an effect and what it may change occurs); `For`, `Whiles`, `Ifs` (conditions that are
constants, comparisons, calls and plain values, nested breaks, a loop up to `maxint`); `Nested` and `Escaping` (functions
in functions, recursion, variables reached through one and two links); `Structures` and `Strings` (fields, elements and
texts written and read again); `Ill` (a value of the wrong kind at each place); `TypeGroups` (every group of three
types from seven forms: cycles, references forward and back); `FormalTypes` (the same groups, the last of them the type of a formal);
`Hidden` (a variable used in a nested function after another of its name has come and gone). `Spillable` takes the temporaries that occur
most, and those handed to a call, since the others behave alike. Words of ten bits leave room for the addresses of the
stack and for `maxint` to be reached.

Some properties except what is known to be otherwise, and say so in their definition:

* `SameMeaning` compares the run of lists whose calls are isolated with the source unless `Reference` has noted in `known` an inequality of
  strings, an order of references, an upper bound of a `for` that matters, types confused within a kind, or a variable read that the escape pass missed;
  `AcceptedRunsRight` excepts the order of references and the types of one kind. `CrashesAreKnown` and `HangsOnlyIntoCycles`
  list the constructs of the source that stop the compiler or keep it going, so that every other program gets through.
* `SelectionFaithful` is about functions whose calls are isolated, that subtract nothing from a constant and have all
  formals in registers; `ArgumentsUndisturbed` lets the fetches of a spilled argument stand between an argument and its call.
* `CoalescingIsConservative` allows a spill after a merge next to a register; `ProperUnlessRegisterSimplified` a wrong colour
  once `FreezeMoves` has let a register into `simplifyWorklist`.

Each exception is one of the points of section 5.

Fairness. The compiler is one thread and nothing suspends it: the enabled step runs. So liveness properties
assume weak fairness of the next step (`FairSpec` of `Liveness`, `Coloring` and `Trace`; in `ScopeTable` only of the
rounds of the loop in `S_endScope`, since nothing obliges a caller to go on entering).

Deadlock is checked everywhere but in `scope_table`, where a full table with no open scope has no step left
because of the bound, and in `pipeline` and `pipeline_calls`, where a program that is compiled, or refused, is done. In
`Coloring` deadlock-freedom means that `AssignColors` and `GetAlias` always find what they look for.

## 4. Proofs

The theorems hold for every value of the constants, under the assumptions named in the modules: positive `N` and `K`;
graphs and inputs of the right types, each label defined once; in `FlowGraph`, that functions have the layout
`F_codegen` and `F_procEntryExit2` give them (`WellFormed`, section 2); in `Nesting`, that the parent of a function is one level
further out and that enclosing is what parents generate; in `Calls`, that the formals in registers are no more than
there are registers, as `F_allocFormals` asserts.

| theorem | property of a run | establishes |
|---|---|---|
| `LivenessProofs!TypeCorrect` | `TypeOK` | |
| `LivenessProofs!SweepsSettled` | `SweepInvariant` | where a quiet sweep has been, the equations hold |
| `LivenessProofs!ReturnsFixpoint` | | what is returned solves the equations |
| `LivenessProofs!Growth` | `OnlyGrows` | no set ever loses a temporary |
| `LivenessProofs!LeastSolution` | | the maps stay below every solution |
| `LivenessProofs!ReturnsLiveness` | `ExactOnReturn` | what is returned is liveness as paths define it |
| `ColoringProofs!TypeCorrect` | `TypeOK` | |
| `ColoringProofs!MovesPartitioned` | `MovePartition` | every move is in one of the five sets |
| `ColoringProofs!HeldAlways` | | the inductive invariant of the round |
| `ColoringProofs!WorklistsAsStated` | `WorklistInvariant` | the worklists' part of the comment `color.c:84-100`, but for nodes `SelectSpill` put into `simplifyWorklist` |
| `ColoringProofs!EveryTempInOnePlace` | `OnePlacePerTemp` | no temporary is lost or in two places |
| `ColoringProofs!MovesAllSettled` | `MovesSettled` | every move is decided, the coalesced ones share a colour |
| `ColoringProofs!JoinedAlways` | | the edges `Combine` leaves out are not missed |
| `ColoringProofs!ColoringProper` | `ProperUnlessRegisterSimplified` | neighbours get different colours, with the known exception |
| `ColoringProofs!ProperWhileNoneListed` | `ProperColoring` | and without it in runs that let no register into a worklist |
| `ColoringProofs!DegreesAsStated` | `DegreesOfTemps` | the degree invariant of `color.c:85-88` for temporaries, whatever the moves join |
| `ColoringProofs!MiscountsRegistersOnly` | | and for all nodes wherever no register is in a worklist (`DegreeInvariant`) |
| `ColoringProofs!SpillsAreSelected` | `SpillsWereSelected` | only what `SelectSpill` gave up on is spilled |
| `ColoringProofs!SpillsOnlyWhenNeeded` | `CoalescingIsConservative` | coalescing costs no colour, with the known exception |
| `ScopeTableProofs!TableInOrder` | | the inductive invariant of the table |
| `ScopeTableProofs!ThreadFollowsChains` | `ThreadMatchesChains` | the thread of tops and the chains agree |
| `ScopeTableProofs!LookFindsNewest` | `LookFindsVisible` | a look-up finds the visible binding |
| `ScopeTableProofs!TableIsScoped` | `ImplementsScopes` | `ScopeTable` implements `ScopeEnv` |
| `StaticLinkProofs!TypeCorrect` | | types of activations, links and walks |
| `StaticLinkProofs!LinksCorrect` | | a link leads to an activation of the enclosing function |
| `StaticLinkProofs!WalksCorrect` | | the number of links followed leads to the function meant |
| `CallsProofs!CallsImplementStaticLink` | `ImplementsStaticLink` | `Calls` implements `StaticLink` |
| `CallsProofs!WalksArrive` | `WalkArrives` | the fetches through memory end where they should |
| `CallsProofs!StackGivenBack` | `StackBalanced` | `popStack` takes back what `munchArgs` pushed |
| `CallsProofs!ArgumentsArrive` | `OnlyEscapingFormalsLost` | an argument in a register arrives |
| `TraceProofs!ScheduleIsComplete` | `EverythingOnce` | nothing is lost, nothing placed twice |
| `TraceProofs!ScheduleIsCanonical` | `Canonical` | properties 3 to 7 of the comments in `canon.h` |
| `TraceProofs!JumpsRight` | `JumpsAsNeeded` | a jump that stays goes back, to the exit or out of the function, and the block placed last keeps its jump |
| `TraceProofs!ScheduleKeepsControl` | `ControlPreserved` | the schedule of a list of `translate.c`'s shape does what the list does |
| `InterferenceProofs!BuildInvariant` | | the inductive invariant of the flow graph and of `build` |
| `InterferenceProofs!LabelsFound` | | the assertion of `FG_AssemFlowGraph` fails at jumps out of the function only (`FailsOnlyOutside`) |
| `InterferenceProofs!EdgesRight` | `EdgesFollowControl` | the flow graph has the ways control goes |
| `InterferenceProofs!AbortsAtEntry` | | `build`'s assertion fails at the entry only (`AbortsOnlyAtEntry`) |
| `InterferenceProofs!StopsKnown` | `StopsWhereKnown` | the compiler stops at these two and nowhere else on the way to the interference graph |
| `InterferenceProofs!BuildFindsAll` | `BuildExact` | `build` finds every interference and every move, and no other |
| `EscapeProofs!VisibleAlwaysFound` | `VisibleIsFound` | the escape pass knows every name `semant.c` resolves |
| `EscapeProofs!MissedOnlyWhenHidden` | `MarkedUnlessHidden` | which marks can be missing or superfluous |

Liveness. That the result solves the equations does not follow from the exit test alone: the last sweep
compared each node when it was visited, and later visits could have undone it. The inductive invariant `LInv` is
`TypeOK`, `NeverAhead` and `QuietPrefixSettled`. `NeverAhead` (each set is below what its equation gives) makes
every visit an enlargement (`VisitGrows`), which keeps `NeverAhead` (`Monotone`); a visit after which the flag
is still down changed nothing (`QuietVisitChangesNothing`), so the settled prefix stays settled. On return the
prefix is the whole list, and settled plus never ahead is equality. `LeastSolution` is a second induction:
below a solution, a visit computes at most what the solution's own equation gives. For `ReturnsLiveness` the sets
paths define are shown to be a solution, so the result is below them; it is not smaller, since along a path from a
node to a use the use is carried back step by step (induction over the path). The definition by paths bounds their length by
the number of nodes, and cutting a path at a node it meets twice (pigeonhole) shows that the bound loses none.

Coloring. `MovePartition` is inductive together with `TypeOK`; the steps that matter are the ones that
move a set of moves at once (`Enabled`, `FreezeMoves`) and the one that enables moves while deciding one.
`FreezeMoves` removes from `activeMoves` only, so its step needs the main loop's guard that `worklistMoves` is empty.
`Held` adds the rest of what the data structures promise between two calls: aliases end, and only in nodes that were not coalesced (`Grounded`, which
makes the recursion of `GetAlias` one that returns; `Merges` says what a merge does to it), edges are only added, `moveList`
of a node that stands for others has their moves, each node is in one place, and which worklist that is follows
from its degree and its moves.

That the colouring is proper is not plain, because `Combine` hands the edges of the coalesced node only to those
neighbours that are still in the graph. `Joined` says why that is enough: two neighbours never stand for the same node, two
representatives that are both in the graph have an edge if any of the nodes they stand for have, and of two representatives the one nearer
the bottom of the stack, which is coloured later, has an edge to the class of the other. So `AssignColors` sees
the colours of all neighbours that have one (`ColorsGiven`, `ColorsDiffer`). `DegreesCount` says that `degree` counts a temporary's neighbours in the graph that is left;
with it a node stacked by `Simplify` had fewer than `K` neighbours, of which no more can be seen when it is
coloured (`RoomLeft`), so only what `SelectSpill` chose is spilled. `SpillsOnlyWhenNeeded` follows the order in which the first graph could be
taken apart: Briggs' and George's tests keep that the graph left can be (`TakenApart`, `Spared`).

The moves of every program join registers too: `F_procEntryExit2` saves the callee's registers by moves. So no theorem assumes that they join temporaries only.
`DegreesAsStated` and `ColoringProper` hold of all moves. The invariant of the comment, and proper colours for registers as well, hold
as long as no register is in a worklist (`NoRegisterListed`), which depends on what `FreezeMoves` meets and not on the input alone: `MiscountsRegistersOnly` says it of
each state, `ProperWhileNoneListed` of each run. With a register listed both are false, as `coloring_register_degree` shows for
the first. Only `FreezeMoves` lets one in, so this is the whole of what that fault can do. The proof of `ProperWhileNoneListed` also shows that a stacked node was listed one
step before, so what is never listed is never stacked (`RegistersLeft`).

Symbol tables. The invariant `TableInv` is about a list the code does not have: the binders in the order they were entered. The thread of tops reads it
backwards by keys, each chain is the part of it whose keys fall on the chain's hash, and the marks of the open scopes are in
it. A pop removes its last member, which is the first of its chain, although the code looks for it by key. `EnvFrom` gives the
mapping of each scope from the binders older than the mark that ends it, so `S_enter` changes the innermost only, and the end of
a scope brings back what the binders before its mark show.

Static links. The inductive invariant is `TypeOK`, `LinksToParent` and `WalkArrives`. A walk that is under way stands at an
activation of an enclosing function whose distance in depth is what is left of the walk (`StartsRight`, and `OneLevelUp` for
each link); where the distance is nothing the function is the one meant, because a function is alone at its depth
among those that enclose another (`EnclosingIsOutward`, by induction over the depth). `LinksToParent` gives the next step of the walk, and a finished
walk gives the link of the next activation.

Calls. The invariant `Machine` is the layout of the stack: frames lie one below the other and apart (`Stacked`), the word
at a frame pointer is the link that was handed over (`Linked`), `fp` and `sp` are those of the running activation and of the
arguments pushed so far (`Pointers`), and the argument registers filled so far hold what was sent (`RegsHold`). So a push
disturbs no frame and a store changes one word of one frame. It is inductive together with the invariant of `StaticLinkProofs` at the state `Frames` and `Walk` map to:
the walk through memory goes on because the abstract one does, and each step of the machine is one of `StaticLink` or a stutter. That two
arguments never share a register is arithmetic on the number of escaping formals before each (`PassedIn`, `FetchedFrom`).

Traces. While blocks are cut, the statements of the program are those of the blocks, the current one and what is left of
the list, none of them twice (`Cutting`, `Contents`). While they are scheduled, `out` holds exactly the statements of the blocks that are traced, and
`env` has an entry for a label exactly when its block is not (`Placed`, `Known`), so a block is placed once and
none is passed over by `getNext`. `FalseLabelFollows` and `JumpsLeftGoBack` are inductive beside this: what follows a conditional
jump at the end of `out` is decided when the next block is spliced.

That the schedule does what the list does (`ControlPreserved`) compares walks through two lists. A walk that stops at all has stopped after at
most as many steps as the list has positions, since by the pigeonhole principle a longer one has been somewhere twice (`StopsInTime`); so `From` is
the same before and behind a step that has no effect (`FromOnward`). Every block is cut from a position of the list, and the
next one from where it ends (`InPlace`, `OwnBlocks`). A traced block lies in `out` behind some offset, only its jump may have given way to the
label it names and its conditional jump may be turned round (`Keeping`). The block behind a conditional jump is named by that jump alone and is not
traced before it (`InTurn`), so `trace` never needs the fresh false label (`NeverNeither`). The two lists then correspond at the
beginning of each block and behind each effect, and walks from corresponding places stop at the same effect or
both go on for ever (`Alike`, `AlikeMeansSame`).

Flow graph and `build`. `BuildInv` says three things. On the way down every label before the current position that has a node behind it
is in `label_map` with that node (`Down`); on the way up the nodes passed have their edges and the
others none, and the predecessors of a node are the nodes passed with an edge to it, the newest first (`Up`). So a
label the function has is found (`TargetsSame`), and the assertion fails only at one it has not; the edges of a node are the ways control goes: where the shortcut of `flowgraph.c:91` takes the next
instruction, that is a jump to the same place (`EdgesFollow`), which the layout of a function gives, because behind a
jump that goes back there cannot stand anything else with that successor. Liveness along the edges and along the ways control goes is then the same
(`LiveAlongControl`), a jump having neither uses nor definitions. During `build` `Walk` holds: the walks have
met exactly the nodes from each noted end down to where they stopped, `live` is what is live behind the current node,
and `adjSet` and `worklistMoves` are those of the nodes met. A walk goes to the first predecessor, which is the
instruction in front wherever that one ends no block (`Backwards`), and it stops behind a noted end; the noted ends split all nodes into such
stretches, so when the ends are used up every node has been met (`WalkFull`).

Escape. The tables of the two passes have different scopes. The proof numbers the scopes of each (`Scopes`) and the functions around each
construct (`Enclosing`), which says where a scope of one table lies in the other (`Layout`). `Resolved` is then inductive: what `semant.c`
sees is in the table of `escape.c`, beside it are variables of ended scopes but no formals, and what such a variable hides is in the
table as well, because it is older and so not in a function that has ended. Of the variables in front of the one
meant, the oldest has hidden that one itself (`OldestHides`), which is the exception the property names. A mark by depth is a
mark by level because levels rise with depth (`SameFunction`).

Induction. The provers cannot instantiate induction theorems that take a predicate. Where a proof needs induction its
module begins with a lemma that states it for sets, which they can be given (`LeastElement`, `InductiveSet`).

Only model-checked: the properties of the table in section 3 that have no row here. All liveness (`EndScopeReturns` and the
termination of the loops) is beyond this prover, as is all that is said of the recursive operators of `Semant`, `Translate`,
`Linearize`, `Munch`, `Reference`, `Runtime` and `Pipeline`. Every other property of a passing run has its row.

## 5. What the models showed

Register allocation:

* `FreezeMoves` (`color.c:643-648`) does not ask whether the far end of a move is a machine register. Such
  a register has no degree that counts, so it enters `simplifyWorklist`, is stacked, and `AssignColors` may give
  it a colour that is not its own. `coloring_register_degree` shows the first step against the degree invariant in the
  comment at `color.c:85-88`; the code's own check inside the loop is commented out (line 931).
  `ColoringProper` shows that this is the only way to a wrong colouring.
* The comment's invariant for `simplifyWorklist` (degree below K) does not hold between `SelectSpill` and the
  `Simplify` after it, as in the textbook; `WorklistInvariant` excepts the nodes `SelectSpill` chose.
* `Conservative` (`color.c:526-534`) compares degrees only; registers have degree 0 or less, so they count as
  insignificant. With two registers, and temporaries 3 and 4 each interfering with one of them, merging 3 and 4
  makes a node that must be spilled.
* `build` stops the compiler for some correct programs. `F_procEntryExit2` notes the last save of the entry code as a
  block end (`riscv_frame.c:352`) and then puts the moves of the formals behind it. If the body begins with a loop,
  its first instruction has two predecessors and the newest edge comes from a formal's move, which is no block
  end, so `isBlockStart` says no and the assertion of `color.c:226` fails: `interference_entry_loop`. An example is
  `function f(n:int) = while n>0 do n := n-n`. `AbortsOnlyAtEntry`, which is proved for every function, says that there is no other case.
* `call` lists the temporaries of the arguments as its uses (`riscv_codegen.c:110`), not the registers they were moved to.
  Those registers are live up to the call without the analysis knowing, and when such a temporary is spilled the fetch
  for the call comes behind the moves; it may then be given the register of an argument.
  `ArgumentsUndisturbed` shows that nothing else comes between. The store behind a spilled definition lists `fp` as its
  destination (`color.c:803`), so it counts as a definition of `fp`.
* The sink of `F_procEntryExit2` does not list the register of the return value as used (`riscv_frame.c:334-340`), so to the analysis that
  register is dead at the end of a function that has a value.

Frames and instructions:

* A formal that escapes is given an offset below `fp` like a local (`riscv_frame.c:85-87`), but the caller pushes its
  argument before the call, so it lies above. `OnlyEscapingFormalsLost` shows that every other argument arrives.
* `munchBinop` selects a constant minus an expression as `addi` with the negated constant (`riscv_codegen.c:229`), which is the
  difference with the other sign.
* Two constants are divided by the compiler itself, so `a / 0` with a constant `a` stops it. Immediates are not held to the
  twelve bits of an `addi`; words of the models are too small to tell.

Control and linearisation:

* `reorder` (`canon.c:60`) takes the value of a `CALL` into a temporary when the operand is a `CALL`, but not when it is an `ESEQ` whose
  value is one, as in `printInt((printInt(8); f(2)) + 1)`. The `CALL` stays inside the expression, against the comment at
  `canon.c:157`, and `munchExp` returns a temporary that nothing assigns: `pipeline_calls`.
* The shortcut of `flowgraph.c:91` gives the flow graph edges through an instruction control does not pass. It is
  harmless because that instruction is an unconditional `j`: behind a conditional branch it is the jump to the
  false label, and behind a plain jump, which goes back or to the exit (`JumpsLeftGoBack`), an instruction that goes
  to the same label must be a jump as well.
* `trace` gives a conditional jump whose two targets are both placed a fresh false label, followed by whatever
  `getNext` has, and never jumps to the original one (`canon.c:258-263`), so not every list with properties 1-6
  keeps its control flow. The trees of `translate.c` never lead there: `Tr_ifExp`, `Tr_whileExp` and `Tr_forExp` put the
  true label, `unEx` and `unNx` the false one right behind the conditional jump, and only that jump names it, so its block
  cannot have been placed before. `ControlPreserved` is about those lists and is proved for
  them (`ScheduleKeepsControl`).

Semantic analysis and translation:

* A variable of an outer function that an inner `let` or `for` hid for a while is not marked when a nested function
  uses it after that scope's end: `escape.c` still finds the inner one and marks that (`escape.c:194-200`, where the
  calls are commented out). The outer one stays in a register, and `Tr_simpleVar` (`translate.c:34`) writes into a
  node that is a `TEMP` as if it were a `MEM`. What that does is undefined: `SemTransProg` chooses whether it stops the compiler or goes by, and in
  the second case the inner function uses a register of its own, which `Reference` notes. `MarkedUnlessHidden` shows that this is the only way to miss one.
* `Tr_eqExpString` ignores the operator: `<>` on strings is `=`, and the orders fail an assertion.
* Comparisons as subscripts and as field values, fields that are missing, unknown or none at all, `if c then ()`, `for ... do ()`,
  a `let` without declarations (which reads `decs[-1]`, `translate.c:314`) and an array of a type declared later in the
  group stop the compiler by an assertion or a bad pointer: the cases of `CrashesAreKnown`.
* `actual_ty` (`semant.c:43-54`) stops when it is back at the name it began with, and so never does when that name only leads
  into a cycle: `HangsOnlyIntoCycles`.
* Types are compared by their kind, so an array or a record is accepted where another is meant, and `<` is accepted on
  both. `breakLevel` goes on into the body of a function declared in a loop, so a `break` there is accepted (`semant.c:381`). It jumps to a label
  of another function; the lists of `pipeline` contain that jump, and `FG_AssemFlowGraph` stops the compiler at it by the assertion of `flowgraph.c:90`, whose comment is
  that all labels should be in `label_map`: `FailsOnlyOutside`, proved as `LabelsFound`.
* The variable of a `for` may be assigned, its upper bound is evaluated again in each round, and a loop up to
  `maxint` wraps round.

The points that have a run of their own are those where a comment of the repository, taken as an invariant, says otherwise. At two more
a comment disagrees and the property excepts the case: the comment on `simplifyWorklist`
(`WorklistInvariant`), and the diagram of a frame in `riscv_frame.c:41-56`, which has the escaping arguments above `fp` where the callee
looks below it (`OnlyEscapingFormalsLost`). For the rest the property that
meets the point names it as an exception. The comment at `translate.c:190`, that several conditions in a row are broken, is out of date: the code it stands over
is commented out, and the patch lists that took its place handle `sample/queen.tig`, which has three.

## 6. Not modelled, and the plan

* The restart of `Color_Main` after a spill. `Spill` rewrites the instructions and `pipeline` shows that they still
  do what they did, but the next round (flow graph, liveness, `build`, colouring) is not run on the result, so
  that the rounds come to an end is not shown. It does not hold by the construction: nothing keeps the temporaries of fetches
  and stores from being chosen again.
* Sets (`set.c`) and the comparison functions of `temp.c` and `graph.c`: the models use sets of the mathematics. The order
  of keys matters where `Coloring` uses it. What `SET_default_cmp` does with addresses further apart than an `int` holds
  is outside the models, as are the assertions that numbers stay below 1000.
* `arg_reg_count` of a frame is read before anything sets it (`riscv_frame.c:88`); the models take it as 0. More
  arguments than argument registers.
* Basic blocks and traces in `pipeline`: its lists go straight to instruction selection; `Trace` and `Interference`
  treat this stage on its own.
* Scanner and parser (generated code), printers and debug output, memory allocation (`checked_malloc` aborts), file
  handling in `main.c`.

Next theorem: that `F_codegen` makes a function of the form `FlowGraph` starts from (`WellFormed`) of every schedule `Trace` leaves.
