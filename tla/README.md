# A TLA+ model of cpp-lox

cpp-lox is a bytecode compiler and virtual machine for an extended Lox: classes
with single inheritance, closures, lists, maps, constants, `break` and
`continue`, an interactive session, and compiled `.loxc` files.  It runs on one
thread.  What makes it hard is not concurrency but *re-entrance and aliasing*: a
garbage collection can run in the middle of any allocation and frees whatever
the roots do not reach at that instant; closures hold raw pointers into the
evaluation stack; every table is an open-addressing hash table whose probe loop
is a `while (true)`; and an interactive session goes on after an error with
whatever the failed line left behind.

File names below are relative to the repository.

## The system's parts

| Part | State it keeps | Operations | What makes it correct |
|---|---|---|---|
| Hash table (`include/hashmap.hpp`) | vector of slots, `size_`, `tombstones_` | `insert`, `get`, `get_ref`, `contains`, `erase`, `clear`, `grow` | every probe ends; counters exact; a finite map |
| Objects (`object.hpp`, `function.hpp`, `classes.hpp`, `list.hpp`, `map.hpp`) | ten kinds and the pointers each holds | constructors, setters | the collector follows every pointer |
| Allocator and intern pool (`allocator.hpp/.cpp`) | `objs`, `interned_strings`, byte counts, threshold, stash | `new_*`, `intern_string`, `collect_garbage` | reachable objects are never freed; equal strings are one object |
| Collector (`gc.hpp/.cpp`) | `is_marked`, `grey_objects` | `mark_roots`, `trace_references`, `remove_unused_strings`, `sweep` | frees exactly the garbage, ends |
| Virtual machine (`vm.hpp`, `vm.cpp`) | `evalstack`, `frames`, `open_upvalues`, globals | one instruction at a time; calls; upvalue capture and closing | lexical scoping; frames nest; whatever is in use is a root |
| Compiler (`compiler.cpp`) | locals, upvalues, scope depth, loop and class context | one routine per construct, emits code | code leaves the stack balanced; names resolve lexically; jumps land where they should; the machine does what the source says |
| Parser, lexer | token window, `had_error`, panic flag | `advance`, `consume`, `synchronize` | takes exactly the texts of the grammar, groups operators by precedence; a line with an error never runs |
| Chunks, values | code, constants, line runs | write, patch | equality agrees with hashing |
| Context (`context.hpp`) | globals' indices, constants | `define`, `get` | an index names one variable in all lines of a session |
| Serializer, deserializer, header | byte buffers | write, read | a round trip gives the same program |
| Natives (`src/native`) | – | lists, maps, strings, reflection | argument checks |
| Front end (`lox.cpp`) | wiring, session loop | `run_file`, `run_repl`, `run_source`, `compile_file` | a failed line leaves a clean machine |

How they interact.  The compiler and the virtual machine both call the
allocator; the allocator calls the collector, which calls back into both for
their roots (`mark_roots`).  All tables, the intern pool included, are hash
tables.  The compiler's knowledge of which variables are captured exists at
compile time only and is turned into the choice between `POP_TOP` and
`CLOSE_UPVALUE`; the virtual machine relies on it without any check.

`PROJECT.json` lists each hazard at the line where it bites, with the properties
that would catch it.

## Modules

| Module | Models | Abstract specification |
|---|---|---|
| `HashMap` | `hashmap.hpp` | `FiniteMap` |
| `Objects`, `Heap` | the object kinds; `allocator.*`, `gc.*` | `Memory` |
| `Closures` | the part of `vm.cpp` and `compiler.cpp` about locals, scopes, calls and upvalues | `LexicalScoping` |
| `Classes` | the part of `vm.cpp`, `compiler.cpp` and `native/classes.cpp` about classes, instances, methods, `this` and `super` | |
| `Parser` | `parser.cpp`, and how the routines of `compiler.cpp` drive it | `Grammar` |
| `Compiler` | `compiler.cpp`: expressions, variables, functions, statements | `Source` |
| `Deserializer` | `deserializer.cpp`: what offsets, tables and constants refer to, and what is rejected | |
| `Serialization` | `serializer.cpp`, and the round trip | |
| `Bytecode` | `vm.cpp` without classes, the session of `lox.cpp`, running what `Compiler` emits | `Source` |
| `Loader` | `file_header.hpp`, loading in `deserializer.cpp`, `loxvm.cpp`, `run_file` and `compile_file` of `lox.cpp`, compiler roots | |
| `Loxc` | `Loader` on what `Compiler` and `Serialization` make of the sources | |
| `HashMapProofs`, `FiniteMapProofs`, `HeapProofs`, `ClosuresProofs`, `ScopingProofs`, `ClassesProofs`, `LoaderProofs` | theorems about these | |
| `ObjectsProofs` | lemmas about reachability and marking, for `HeapProofs` and `ClassesProofs` | |
| `MCHashMap`, `MCHeap`, `MCClosures`, `MCClasses`, `MCBytecode`, `MCLoxc` | constants for TLC | |

`Heap` uses the intern pool as a function, which is what `HashMap` implements
(`ImplementsFiniteMap`).  `Closures` lets memory be reclaimed in one step, which
is what `Heap` implements (`ImplementsMemory`).  `Classes` has a collection in one
step too, between the moment an instruction asks for an object and the moment it
gets it, and takes from `Objects` what the collector marks.  `Bytecode` runs what
`Compiler` emits for what `Parser` reads, directly or through `Serialization`; it frees nothing and has the
open upvalues as a set, which `Heap` and `Closures` justify.  `Loader` reads the
serialized form step by step, with the collector, whatever that form is (a constant,
`Images`); `Loxc` takes it from `Serialization` and compares what runs with the source.

### HashMap

State: the vector `slots` (index `i` of the code is position `i + 1`), the two
counters, and the locals of the call in progress: `index` and `tombstone` of
`find_slot`, `new_slots` and `i` of `grow`.  `pc` says which loop or tail is
running; one step is one iteration of the probe or of the rehash.  A step that
ends a probe (`FindMatch`, `FindEmpty`) includes what the caller does with the
slot.  A hash is an arbitrary natural number per key, an input of the model.

Details kept because they matter: `find_slot` compares the *key* of a slot
before its state, and an erased slot has key `Key{}`; it remembers the *last*
tombstone; `grow` counts tombstones in the load and rehashes without them;
`get_ref` probes the old table first and probes again after growing; the lookups
return early on an empty table.

### Heap

State: the objects by address with the pointers of each member, the vector
`objs`, the marks and the grey list, the pool, the byte counts, and the
allocation in progress (`pc`, `request`, `temp_stash`).  An allocation passes
the points at which a collection may run: on entry in stress mode (`Stress`) and
in `create_object` once the new object's bytes are counted (`CreateObject`).
`new_function` interns its name by a nested allocation, stashes it, then creates
the function.  A collection is modelled loop by loop: `MarkRoots`, `Trace` (one
grey object), `RemoveUnusedStrings`, `SweepFree`/`SweepKeep` (one object, with the
swap-and-pop erasure), `SweepEnd`.

`mark_object` and `blacken_object` pass the text of the object to `log`
(`gc.cpp:115`, `gc.cpp:165`), an ordinary function, so `to_string()` is called whether or
not anything is logged, and it calls itself for the elements of a list or map and the
receiver of a bound method (`value.cpp:54`).  An object that is a part of itself
(`EndlessText`) has no finite text: the collection that comes to it uses up the C++ stack
and the process is killed (`Overflow`).  `AllocationEnds` says that every allocation ends
unless there is such an object among those that can be reached.

The program is any program that keeps what it uses reachable from its roots: it
loads, drops and stores pointers and asks for objects built from reachable ones.
Between steps an object's address may be reused.  `blacken_object` skips the
cached initializer of a class; the model does too, and the proof needs
`InitializerTabled` for that reason.

### Closures

State: `evalstack`, `frames`, the list `open_upvalues`, the upvalues and
closures that exist, and whether `CLOSURE` is filling in upvalues.  `CLOSURE` takes one
step for each upvalue, and a collection may come before each of them, as
`capture_upvalue` allocates: the closure is then on the stack with some of its upvalues
(`MachineIntact`).  Each slot also
carries what only the compiler knows, whether it is a variable and whether some
nested function mentions it (`is_captured`), and, for the properties alone, the
variable's identity `cell`.  An instruction is enabled when the compiler could
emit it there: for example `EndScope` only on a variable of an inner scope, with
`CLOSE_UPVALUE` exactly if the variable is captured.

`LexicalScoping` has no stack and no upvalues: activations, closures that name
variables, and a store.

Two constants separate what the code gets right from what it does not:
`UnsafeErrors` (a run-time error may happen while upvalues are open) and
`UnsafeContinue` (`continue` may leave captured variables).  With both `FALSE`
every property holds; each `TRUE` breaks one (see Findings).

### Classes

State: `evalstack`, `frames`, the globals, the objects with their members, the
allocation that the present instruction has begun (`request`), and how far a class
declaration has come (`declaring`).  The program is any program whose functions are
methods: it loads and assigns globals that start as nil, declares classes with or
without a superclass and with any methods, reads, writes and deletes properties,
calls, and may fail anywhere.  An action is one instruction; one that allocates is
split where the collection can run: the instruction up to the call of the
allocator (`Ask`), an optional `Collect`, and the rest (`Make`).  `Collect` frees what
the roots do not reach through the members `blacken_object` marks, whatever the
instruction holds in C++ variables; `NothingHeldIsFreed` says that no instruction
relies on such a variable alone.

`super` is a constant local that methods capture; since nobody can assign to it, a
closure simply has its value.  A class's name and a method's name are not objects
here: constants of the running functions keep them alive.

The code that the compiler emits shows in the guards: a declaration is a statement
(no operands on the stack); `super` exists only in a method of a class that has a
superclass; a return in an initializer yields slot 0 (`Results`).

### Grammar, Parser, Source, Compiler and Bytecode

The compiler never builds a tree: each routine reads tokens and emits bytes, jumps
are patched once their target is known, and what is on the stack at run time is
known to the compiler only as its vector `locals`.  The model takes each routine in
two halves, both under its name.  `Parser` has what it does with the tokens: the table
of precedences, `canAssign`, `consume`, panic mode and `synchronize`; it yields the tree
that the routine has recognized.  `Compiler` goes from this tree and the compiler's
state to the compiler's state.  The result is bytes with operands of one or two
bytes; `Radix` is the number of values of a byte.  `Bytecode` is the interpreter loop
over these bytes, one action per instruction, with `run_repl` as `NextLine`.

`Source` is the reference: the same trees, read as what they mean (`Meaning`: cells, a
store, environments, no stack, no jumps, no upvalues) and as what is legal
(`WellFormed`).  The only thing a program does not know is its input, so the native
function `input()` returns any Boolean, and `RunsAsWritten` compares the output and
outcome of the machine with `Meaning` for the inputs that the run got.

`Grammar` is the reference for the parser: how a tree is written, with parentheses where
an operator would not get its operand otherwise.  Every program of the run is a tree;
what is compiled is what `Parser` makes of its text, so `RunsAsWritten` also says that
operators group as they should.  In the other direction the run has texts with one
token too few, too many or wrong (`Texts`): what a text means is the tree whose text it
is, a comma after the last item aside, and `Bad` if there is none; `RejectsExactly` then
says that the parser takes no text but those of the grammar.  On all 4271 texts the
model and the built interpreter agree about which are rejected.

Each push of an instruction finds room or throws (`Fits`, `vm.hpp:42`); nothing below
`main()` catches the exception, so the process ends (`Overflow`).  The compiler does not
know this limit: it compiles up to `MAX_NUMBER_OF_LOCAL_VARIABLES` (2048) locals, while
`value_stack_max + 4` (1028) values fit.  `RunsAsWritten` therefore has two cases: a line
ends as it says, or it ends the process with a full stack after a beginning of its
output.  `TypeOK` says that no value is written past the end, and `StackMatchesLocals`
that no value is left behind which would fill the stack.  `pop()` of an empty stack
would be an error of evaluation in TLC.

What the code does differently from `Source` is in the model as the code has it, and
left out of the programs that are run (see Findings, second list).  After a syntax error
`Parser` skips tokens as the code does and goes on, and what it recognizes before and
after goes on being compiled: the line does not run, but the globals and constants it
declares are in `Context` (`compiler.cpp:988`) and bind the lines after it.  Sessions
with an edited first line have this in the run: `ConstKeepsValue` and `RejectsExactly`
are about the lines that follow.  A misused name is an error of the same kind in the
code and makes it skip tokens too; here `Compiler` goes on without skipping.  Either way
the line is rejected; lines of the sessions have a misused name last, since what is
skipped would not reach `Context`.

`declaration` also notes, for each place where a statement begins, how many locals the
compiler has there.  No code depends on the notes; `StackMatchesLocals` is about them.

### Serialization, Deserializer, Loader and Loxc

`Serialization` turns functions, constants and globals into chunks with ids, constants
that refer to chunks and to strings by offset, and a table of globals; `Deserializer` has
the way back, with every check of the loader that depends on these.  `Bytecode` runs
programs through both too (`Compiled`).

`Loader` is about the way there.  A writer empties the file and writes it in pieces (the
header in two, so that a torn header occurs), may be killed between any two, and may
start again while a reader is at work; a complete file may be damaged on disk.  A
reader decides by the magic number whether the file is compiled, asks for its size,
reads so many bytes, checks the checksum and the size in the header, and loads strings,
globals and chunks one at a time.  A file without the magic number is read as a source
by `run_file` (`ReadText`) and refused by `loxvm` (`RefuseText`).  Each of these allocates, and each allocation may
collect what the roots do not reach, unless `gc_disabled`.  A run from source compiles
step by step in the same way, with the functions of the compilers in progress as
roots; a compiler exists before its function does.

A checksum is taken to tell any two contents apart.  The bytes are read in one step:
a read that mixes two generations of a file is, to the checksum, a damaged file.
One native function stands for all of them; strings are constants or names.

Nothing in `Loader` depends on how an image is made, so `Images` is a constant there.
`Loxc` assumes of it that it is what `serialize_program` makes of what the compiler makes
of each source (`ImagesAreWritten`, which TLC evaluates), and adds the property that needs
it, `RunsWholeProgram`.

## Runs

| Run | Expected | Question |
|---|---|---|
| `hashmap` | pass | Does every probe end, are the counts exact, can every key be found again, and is the table a finite map, for keys that collide and never equal `Key{}`? |
| `hashmap_nil` | violation | The same with a key equal to `Key{}` (nil in a map): `contains` misses a key that is there. |
| `heap` | pass | With collections started by the byte threshold and switched off and on: nothing dangles, strings are unique, no mark is stale, bytes are exact, every collection frees all garbage, and the whole implements `Memory`. |
| `heap_stress` | pass | With a collection at every point of every allocation: nothing dangles, and every allocation ends, unless a list that contains itself can be reached. |
| `closures` | pass | With a collection between any two steps, also in the middle of `CLOSURE`: frames nest and nothing the machine works on is freed, the open list is sorted and on the stack, one upvalue per variable, an upvalue reads its variable. |
| `closures_lexical` | pass | The machine implements lexical scoping. |
| `closures_error` | violation | After a failed line of a session an upvalue stays open on a cleared stack. |
| `closures_continue` | violation | After `continue` an upvalue stays open on a popped slot. |
| `classes` | pass | Does a method always run on an instance that has it, does a constructor call always yield an instance, is the cached initializer always in the table the collector marks, and does no allocation free what its instruction uses? |
| `classes_init` | violation | A class that inherits `init` does not call it. |
| `bytecode` | pass | Does compiled code, from source, from a file, and line by line in a session, print and end as the source tree says, for every input, or end the process when the stack is full; does the stack fit the compiler's locals at every statement; is misuse, and every text that is not a program, and nothing else, rejected; do constants keep their values; does every program end? |
| `loxc` | pass | Whatever a writer, a crash or damage leaves in the file, and whenever the collector runs: does a run execute the whole of one program or nothing, has every string, function and global been loaded as it was written, is nothing freed that it needs, is the collector on again, does loading end, and does what has passed the checksum run? |

### Bounds

* `hashmap`: `MIN_TABLE_SIZE` is 2 instead of 128, so that capacities 2, 4, 8,
  two rehashes and full load limits are reached with a few keys; some keys share
  a home slot and some probe sequences wrap around.  `MaxCapacity` stops growth.
* `heap`, `heap_stress`: the object addresses, contents and kinds in the cfg.  The
  addresses are few, so that address reuse after a sweep happens at once; the
  kinds of `heap` include a function (nested allocation).  Cycles occur in both: through
  closed upvalues and through fields, which the trace must get through, and in
  `heap_stress` through lists that contain themselves or each other, which end the process.
  Sizes and the threshold are such that some allocations collect and some do not.
* `closures`: at most 3 frames and 4 slots, 2 closures with at most 2 upvalues:
  enough for a closure that captures a variable of its caller and an upvalue of
  its maker, two closures that share a variable, and a captured parameter.
  `closures_lexical` uses functions without parameters and one capture each,
  because the abstract step is searched for at each transition.

* `classes`: two classes (the second inherits from the first), two methods alive at
  a time, one instance, one bound method: together the objects of a running
  `LOAD_SUPER`.  Method names `init` and `m`, of which `m` also names fields, so that a
  field hides a method and holds a class or a bound method.  The variable of the
  superclass is assigned, so the class can live on through `super` alone.  Three
  frames, three values before an operand is loaded.  An object keeps to the
  addresses of its kind (`Addresses`), which makes fewer copies of the same heap; a
  freed object is noticed when it is freed, not when its address is reused.

* `bytecode`, over eight thousand programs and sessions: all nestings, two deep, of block, `if`, `while`, `for`, `switch` and a
  call around bodies of one or two simple statements (`continue`, `return`, a
  declaration, an assignment, `print`); loops in which `continue`, or the next round, comes
  after an inner loop, switch, block or `if` (`Resumed`); all binary expressions over binary expressions
  of six atoms, and all pairs of the nine operators on numbers grouped either way; lists
  and maps below, at and above their thresholds; closures over
  variables of each kind of scope, used during and after it; sessions of three lines
  out of eight, some of which fail; programs that must be rejected; and six programs that
  together have every construct, with each token deleted, and each of nine tokens put
  before it or in its place, also as the first line of a session of three.
  `Radix` is 9, so a jump spans at most 80 bytes: every nesting fits and is run, and the
  programs of `Limits` are at the limit and above it, as they are for 14 locals and
  12 values on the stack; constants above 9 occur and with them the long form of
  `LOAD_CONSTANT`.  3 frames and 4 inputs reach their limits.
* `loxc`: two sources with nested functions, shared strings and a global that is also a
  native function; three calls of the compiler, two of the interpreter; three
  allocations of the running program.  The run stops when these are used up, so
  deadlock is not checked there (`MaxWrites`, `MaxRuns`).

Deadlock is checked in every other run: no reachable state is without a next step.

### Fairness

The interpreter has one thread: a call of the hash table, or an allocation, that
has begun goes on until it returns, so weak fairness is assumed of the steps of
the call in progress (`FairSpec` in `HashMap` and `Heap`) and of nothing else.
No fairness is assumed of the program that makes the calls.

In `Bytecode` the loop of `execute()` waits for nothing, and a session is taken to go
on until its last line: weak fairness of `Next`.  That the programs end is not
assumed: `input()` fails after `MaxInputs` calls, and each loop of each program asks for
input.  In `Loader` the steps of the reader from the opened file to the running program
are fair (`Loading`): one thread, no waiting.  `LoadingEnds` also says that bytes which
have passed the checksum are run: were the chunks written in another order than the
one the loader resolves them in, it would refuse every file and nothing else would
show it there.  Neither the writer nor the running
program is.

## What is proved

TLAPS proves, for every value of the constants that satisfies the named
assumptions:

* `HashMapProofs` — `TableInvariant`, `TypeCorrect`, `ProbeTermination`.  The
  assumptions are that hashes are natural numbers and the first capacity is at
  least 2.  `ProbeEnds` is not inductive: that a table has an EMPTY slot follows
  from the load limit only through the counters.  `TableInv` bounds the FILLED
  slots by `size_`, the tombstones by `tombstones_`, their sum by the limit, and
  during a rehash the keys already moved plus those still to be moved by `size_`.
  It does not mention which keys are stored, so the theorem also covers tables
  with a key equal to `Key{}`: the nil defect loses keys but cannot hang a probe.
* `FiniteMapProofs` — `MapInvariant`, `Counted`, `StoredIsFound`, `Refinement`
  (`Spec => ImplementsFiniteMap`) and `ContainsIsRight`.  All have the hypothesis
  `NoKey \notin Keys`: no caller uses `Key{}` as a key.  It holds for the intern pool
  and for the tables keyed by strings.  The maps of the language may have nil, and
  with it the theorems are false (run `hashmap_nil`); the compiler's table of number
  constants may have 0, but never erases.
  The counts are exact only if an insertion never meets a second slot for its key,
  and that needs all of `MapInv`: a probe has passed only slots in use by other keys
  (`PassedOver`), no EMPTY slot lies between the home of a key and its slot (`Reachable`),
  so at an EMPTY slot the key is nowhere; a slot that is not FILLED has key `Key{}`
  (`Keyed`), so a match is always a FILLED slot; and the new vector of a rehash has
  exactly the slots already moved (`MovedExactly`), so that no key is moved twice.
  The argument about wrap-around is in the lemmas on `ProbePath`, the cyclic order in
  which a probe visits the positions; that a probe does not come back to its start
  uses the EMPTY slot of `TableInv`.  For the refinement, a write where `find_slot`
  ended is the map update (`StoredPut`, `StoredErase`), and two tables with the same
  slots in different places are the same map (`StoredSame`).
* `HeapProofs` — `HeapInvariant`, `HeapTypeCorrect`, `NothingDangles`,
  `StringsAreUnique`, `VectorListsAll`, `MarksCleared`, `NoGarbageLeft`, `BytesAreExact`, and `Refinement`
  (`Spec => ImplementsMemory`).  The inductive invariant `HeapInv` has the tri-colour
  invariant of the trace; `Sweeping` (what is still marked lies ahead of the
  sweep); `GraphClosed` (what survives points only to what survives, and outside
  a sweep even the garbage does); `PoolExact`; `ArgumentsRooted` (what a
  constructor will store stays reachable during the collections of its
  allocation; the stash is there for this); and `InitializerTabled`.
  Reachability is defined as the least closed set, so that each fact about it is
  one instantiation of a closed set and needs no induction.
  `BytesAreExact` is about a sum over a set, defined by recursion.  No prover here can
  instantiate an induction rule, whose parameter is an operator; but an induction over
  numbers can be stated with a *set* of numbers (`Induction`: a set that has 0 and
  with each number the next has them all), and it follows from the least number
  of its complement (`LeastNumber`, from the well-foundedness of `<`).  With the set of those
  sizes up to which the recursion has a solution, and a unique one, the sum of any
  finite set exists (`SumExists`, `SumUnique`); then one element more adds its
  size (`SumStep`), whichever element the recursion takes first, and a freed object
  subtracts it (`SumRemove`).

* `ClosuresProofs` — `ClosuresInvariant`, `TypeCorrect`, `MachineStaysIntact`, `ListSorted`,
  `NoDanglingUpvalue`, `UpvaluesShared`, `UpvaluesRead`, and `ScopingProofs` —
  `Refinement` (`Spec => ImplementsLexicalScoping`).  All have the hypotheses
  `~UnsafeErrors` and `~UnsafeContinue`; without either of them they are false, which
  the runs `closures_error` and `closures_continue` show.  None of the properties is
  inductive alone.  That no upvalue dangles when a frame or a scope is left needs that
  the compiler has marked every variable with an open upvalue as captured
  (`is_captured`), and that the list is sorted, so that closing from the front closes
  all of them; that an upvalue still reads its variable needs that the slot it points
  to holds the same variable as when it was opened.  `ClosuresInv` says this of slots,
  upvalues and the closure being filled in.  For the refinement, `AbstractStore` takes
  the value of a variable from the slot that holds it or, once its upvalue is closed,
  from the upvalue; the proof shows that each variable is in exactly one of these
  places, and that closing moves a value without changing it.
* `ClassesProofs` — `ClassesInvariant`, `TypeCorrect`, `MethodsFit`,
  `InitializersTabled`, `NothingFreed`, `ConstructorsYield`.  The assumptions are the
  types of the constants, and that no class names itself as its superclass, which
  the compiler rejects.  That a method fits its slot 0 is not inductive: the
  method comes from a bound method, a table or `super`, so `ObjectsSound` says of every
  object that its members are what the instructions take them for, and in particular
  that a bound method fits its receiver.  That this survives `METHOD` and `INHERIT`, which
  change a table, needs that the class being declared has no instances yet and is
  no superclass (`ClassOpen`): otherwise an override would take a running method
  away from its class.  That it survives a collection needs that the collector marks
  all pointers of every object, which for a class is `InitializerTabled`; and
  that what an instruction holds while it allocates can be reached from the
  stack, a global or a frame (`RequestFits`).  `ConstructorsYield` is an action
  property: only `RETURN` shortens the frames to a caller's, and `ConstructorsFit` says that
  the frame that a call of a class made runs an initializer on an instance of that class.

* `LoaderProofs` — `LoaderInvariant`, `LoaderTypeCorrect`, `ProgramIsKept`, `CollectorIsOn`,
  `FileIsLoadedAsWritten`.
  The assumptions are the types of the sources and of their images, and that a source
  begins with the beginning of the script and ends with its end; whether an image
  fits its source does not matter.  `NothingNeededIsFreed` is not inductive, for
  what is needed changes with the stage that `run_file` is in, and only some of it can be
  reached from the roots.  `LoaderInv` adds to it: nothing in the heap dangles, the garbage
  included, since a collection frees all of it (`HeapClosed`); and what holds at each
  stage (`Stages`).  While something is needed that no root refers to (the maps of the
  deserializer; then the script, while the native functions are registered), the
  collector is off; when it is on, either a compiler in progress has the function,
  or `run()` has put it on the stack, or the closure there refers to it.  The
  first event of a source begins the script, so that a constant always finds a current
  compiler.  A writer may start, stop and be killed at any step of the other
  process, which needs of the file only that it exists (`FileOk`).
  Here reachability is what `trace_references` finds in as many rounds as there are
  objects; that these are enough (`RoundsSuffice`) is an induction as above: each round
  that finds something new has found at least as many objects as rounds.
  `FileIsLoadedAsWritten` is the part of `RunsWholeProgram` that needs no recursion: what
  the deserializer has built, and what a program from a file then runs, is the image of a
  source, string by string, function by function, global by global.  Strings are found by
  their offsets, and offsets grow (`OffsetsDiffer`, an induction over the block), so no string
  displaces one read before; interning gives every string an object with its contents; a
  function is refused when its id has been read, so the constants of those before keep
  their meaning; the native functions are added after the globals that the code refers
  to.  The property must hold while the program runs and the collector frees what is no
  longer used, so it says of an object only what it is if it still exists; that its
  place is not taken by another needs that identities are not used twice (`Ranged`).
  Offsets are natural numbers here; in the file they have 32 bits, and the serializer
  refuses a block in which one would not fit.

Only model-checked:

* the liveness properties (`CallsReturn`, `AllocationEnds`, `ProgramsEnd`, `LoadingEnds`): the
  prover has no rules for fairness and `ENABLED`;
* the properties of `Bytecode`, and of `RunsWholeProgram` that the image of a source is that
  source, compiled: a compiler and the meaning of a tree
  are recursive operators, and that one agrees with the other for every program is an
  induction over trees, so it is checked program by program.

## Findings

* A map with key nil (`hashmap.hpp:63`): after an erasure the probe for nil
  stops at the tombstone, whose key is `Key{}`.  `has(m, nil)` is then false
  though the map holds nil.
* A session (`lox.cpp:214`) clears the stack and the frames after an error but not
  `open_upvalues`: a surviving closure then writes into a variable of a later
  line.
* `continue` (`compiler.cpp:1405`) pops captured variables without closing them, so
  closures made in a loop body share the reused slot.
* `INHERIT` (`vm.cpp:571`) copies the methods of the superclass but not its cached
  initializer, which calls of the class consult: a subclass without an `init` of its
  own ignores the one it inherits, and rejects its arguments.

All four were reproduced with the built interpreter.

The following the model has as the code has them.  They are not part of the programs
that `bytecode` runs, because `RunsAsWritten` fails for them at once; the first three
were reproduced with the built interpreter, and so were the last two, which are in the
runs as exceptions of their properties.

* `compiler.cpp:275` makes -1 by changing the last byte of the code when that is `ONE`.
  In `-(5 or 1)` it belongs to the side that is jumped over: the result is 5.  The byte
  may also be an operand.
* `compiler.cpp:433`: a conditional expression compiles to its three expressions one
  after the other, and leaves three values on the stack.
* `vm.cpp:709`, `vm.cpp:766`: of an index into a list only the upper end is checked; a
  negative one ends the process, or is ignored in an assignment.
* `vm.cpp:383`: a captured variable without a value reads as nil; a local or a global
  one is an error.  `vm.cpp:270`: a global that is declared again without a value still
  counts as initialized.
* `vm.cpp:809`: of two equal keys of a map literal the first wins in a short literal and
  the last in a long one.
* An output file that has just been emptied runs as the empty script, with exit status
  0 (`file_header.hpp:123`, `lox.cpp:100`).
* `gc.cpp:115`, `gc.cpp:165`: the text of an object is computed before `log` decides that it
  is not needed; with a list that was appended to itself, the next collection overflows
  the C++ stack (exception of `AllocationEnds`).
* `vm.hpp:42`: a block with 1100 locals compiles, and ends the process when it runs
  (exception of `RunsAsWritten`).

## Not modelled, and the plan

What is left to model would add little that a test does not reach:

* the lexer's character work, formatting, the disassembler, logging and error texts,
  line numbers: text in, text out;
* `Parser` leaves out what the routines about classes, properties and strings read, and
  the messages;
* reals, and with them equality within `EPSILON` against hashing by bits: the
  arithmetic of doubles has no counterpart here.  Strings as values of a running
  program: they are interned, so they compare like other objects (`Heap`);
* division, which yields reals, and overflow of 64-bit integers;
* native functions other than those about properties: each checks its arguments and
  computes or does I/O within one call;
* the allocations of `LIST`, `MAP`, `CLOSURE` and `ADD` with their roots, one by one:
  `Heap` shows that reachable objects survive, `Classes` and `Loxc` show for their
  instructions that what is in use is reachable; for these four the operands stay on
  the stack until the object exists;
* limits on parameters, arguments, constants, upvalues and globals;
* options of the command line, timing and randomness; benchmarks and examples;
* the vendored libraries `fmt`, `fast_float` and `cxxopts`, which are most of the lines of
  the repository and none of the interpreter's logic.

Run-time checks of operand types are errors like any other (`RuntimeError`).
