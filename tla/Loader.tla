-------------------------------- MODULE Loader --------------------------------
(***************************************************************************)
(* A program on its way to the machine (lox.cpp, file_header.hpp,          *)
(* deserializer.cpp, loxvm.cpp).  One process compiles sources into a      *)
(* file, piece by piece, and may be killed at any time; another one runs   *)
(* the file, or a source, and its collector may run at every allocation.   *)
(*                                                                         *)
(* A source is the sequence of things the compiler meets: the beginning    *)
(* and end of functions, string constants, and names of globals.  What the *)
(* serializer makes of a source is a constant here; module Loxc gives it.  *)
(***************************************************************************)
EXTENDS Deserializer, FiniteSets

CONSTANTS
  Sources,    (* the sources                                                *)
  Images,     (* what serialize_program() makes of each source              *)
  MaxWrites,  (* bound: calls of compile_file()                             *)
  MaxRuns,    (* bound: calls of run_file()                                 *)
  MaxWork     (* bound: allocations of a running program                    *)

Begin(name) == [e |-> "begin", s |-> name]
String(s) == [e |-> "string", s |-> s]
Global(g) == [e |-> "global", s |-> g]
End == [e |-> "end", s |-> ""]
EmptyScript == <<Begin(""), End>>

ASSUME BoundsAssumption == MaxWrites \in Nat /\ MaxRuns \in Nat /\ MaxWork \in Nat

(* A source is a script.                                                   *)
Events == [e : {"begin", "string", "global", "end"}, s : STRING]
ASSUME SourcesAssumption ==
  \A s \in Sources : s \in Seq(Events) /\ s[1] = Begin("") /\ Last(s) = End

(* The constants of such programs are functions and strings.               *)
Chunk == [type : {"F"}, name : Nat, arity : Nat, upvalue_count : Nat, id : Nat, code : Seq(Nat),
          statements : SUBSET Nat, constants : Seq([type : {"F", "S"}, data : Nat])]
ASSUME ImagesAssumption ==
  \A s \in Sources : /\ Images[s].bytecode \in Seq(Chunk)
                     /\ Images[s].globals \in Seq([name : Nat, is_const : BOOLEAN])
                     /\ Images[s].strings \in Seq(STRING)
                     /\ \A i \in DOMAIN Images[s].strings : Len(Images[s].strings[i]) \in Nat

-----------------------------------------------------------------------------
(* The file is written in pieces: the header, here in two, so that it may  *)
(* be torn, and the three blocks.  These are their sizes.                  *)
ChunkSize(chunk) == 24 + 9 * Len(chunk.constants) + 3 * Len(chunk.code)
PieceSizes(image) ==
  <<16, 16, FoldLeft(LAMBDA n, chunk : n + ChunkSize(chunk), 0, image.bytecode),
    4 + 8 * Len(image.globals), image.string_block_size>>
PrefixSize(image, n) == FoldLeft(LAMBDA a, b : a + b, 0, SubSeq(PieceSizes(image), 1, n))
file_size(image) == PrefixSize(image, 5)

-----------------------------------------------------------------------------
VARIABLES
  file,        (* the file: the image of which source, how many pieces   *)
               (* of it there are, and whether bytes of it have changed  *)
  writing,     (* compile_file() is in progress                             *)
  writes, runs, work,
  pc,          (* where run_file() is                                       *)
  from_file,   (* it runs a compiled file                                   *)
  source,      (* what it runs                                              *)
  at,          (* how far the current loop has come                         *)
  size,        (* the size of the file as found                             *)
  bytecode,    (* what has been read                                        *)
  heap,        (* the objects that have not been freed, by identity         *)
  objects_created,
  gc_disabled,
  evalstack,
  names, values, (* Context: the names of the globals, and native functions *)
  compilers,   (* the functions of the compilers in progress; 0 is nullptr  *)
  strings, functions,   (* the maps of the Deserializer                     *)
  script       (* the function to run                                       *)

vars == <<file, writing, writes, runs, work, pc, from_file, source, at, size, bytecode, heap,
          objects_created, gc_disabled, evalstack, names, values, compilers, strings,
          functions, script>>
writer == <<file, writing, writes>>
control == <<from_file, source, size, bytecode, runs, work>>

NoObjects == [x \in {} |-> 0]
NoBytecode == [bytecode |-> <<>>, globals |-> <<>>, strings |-> <<>>, string_block_size |-> 8]
NoFile == [source |-> <<>>, image |-> NoBytecode, pieces |-> 0, damaged |-> FALSE, exists |-> FALSE]

Init ==
  /\ file = NoFile /\ writing = FALSE /\ writes = 0
  /\ runs = 0 /\ work = 0 /\ pc = "idle" /\ from_file = FALSE /\ source = <<>> /\ at = 0 /\ size = 0
  /\ bytecode = NoBytecode /\ heap = NoObjects /\ objects_created = 0 /\ gc_disabled = FALSE
  /\ evalstack = <<>> /\ names = <<>> /\ values = {} /\ compilers = <<>>
  /\ strings = NoObjects /\ functions = NoObjects /\ script = 0

-----------------------------------------------------------------------------
(* compile_file() *)

(* Opening the file empties it.                                            *)
CompileFile(s) ==
  /\ ~writing /\ writes < MaxWrites
  /\ file' = [source |-> s, image |-> Images[s], pieces |-> 0, damaged |-> FALSE, exists |-> TRUE]
  /\ writing' = TRUE /\ writes' = writes + 1
  /\ UNCHANGED <<pc, at, control, heap, objects_created, gc_disabled, evalstack, names,
                 values, compilers, strings, functions, script>>

write ==
  /\ writing /\ file.pieces < 5
  /\ file' = [file EXCEPT !.pieces = @ + 1]
  /\ UNCHANGED <<writing, writes, pc, at, control, heap, objects_created, gc_disabled,
                 evalstack, names, values, compilers, strings, functions, script>>

(* The process has closed the file, or is killed before.                   *)
WriterEnds ==
  /\ writing /\ writing' = FALSE
  /\ UNCHANGED <<file, writes, pc, at, control, heap, objects_created, gc_disabled,
                 evalstack, names, values, compilers, strings, functions, script>>

(* Bytes of the file change while nobody writes it.                        *)
Damage ==
  /\ ~writing /\ file.pieces >= 3 /\ ~file.damaged
  /\ file' = [file EXCEPT !.damaged = TRUE]
  /\ UNCHANGED <<writing, writes, pc, at, control, heap, objects_created, gc_disabled,
                 evalstack, names, values, compilers, strings, functions, script>>

(* Here, the operands of the script.                                       *)
Damaged(im) ==
  LET n == Len(im.bytecode)
  IN [im EXCEPT !.bytecode[n].code = [i \in DOMAIN @ |-> 1]]

-----------------------------------------------------------------------------
(* The heap of the other process *)

Refs(obj) == ({obj.name} \cup ToSet(obj.constants)) \ {0}

(* What is found by following references as often as there are objects.    *)
Follow(h, ids) == UNION {{i} \cup (IF i \in DOMAIN h THEN Refs(h[i]) ELSE {}) : i \in ids}
Reach(h, ids) ==
  LET reach[n \in 0..Cardinality(DOMAIN h)] ==
        IF n = 0 THEN ids ELSE Follow(h, reach[n - 1])
  IN reach[Cardinality(DOMAIN h)]

(* mark_roots(): the compilers, the stack, the names and the values of     *)
(* globals.                                                                *)
Roots == (ToSet(compilers) \cup ToSet(evalstack) \cup ToSet(names) \cup values) \ {0}

(* What an allocation leaves of the heap: all, or what the roots and the   *)
(* objects in the stash reach, unless the collector is off.                *)
AfterGc(h, roots, off) ==
  {h} \cup IF off THEN {} ELSE {Restrict(h, DOMAIN h \cap Reach(h, roots))}

(* f with one more argument, or another value for it.                      *)
With(f, x, v) == [y \in DOMAIN f \cup {x} |-> IF y = x THEN v ELSE f[y]]

NewId == objects_created + 1
StringObject(s) == [kind |-> "string", s |-> s, name |-> 0, constants |-> <<>>, code |-> <<>>]
Object(kind, name, constants, codes) ==
  [kind |-> kind, s |-> "", name |-> name, constants |-> constants, code |-> codes]

(* intern_string() in the heap h: the string that is there, or id.         *)
Interned(h, s) == {i \in DOMAIN h : h[i].kind = "string" /\ h[i].s = s}
intern_string(h, s, id) ==
  IF Interned(h, s) = {} THEN [h |-> With(h, id, StringObject(s)), id |-> id]
  ELSE [h |-> h, id |-> CHOOSE i \in Interned(h, s) : TRUE]

Created(r) == IF r.id = NewId THEN NewId ELSE objects_created

(* get_global(): the name is added when it is new.                         *)
get_global(name) == IF Contains(names, name) THEN names ELSE Append(names, name)
Position(ns, name) == SelectInSeq(ns, LAMBDA i : i = name)

-----------------------------------------------------------------------------
(* run_file() *)

(* The process begins with the heap of a new VM.                           *)
Begins(where, file_first, s) ==
  /\ pc = "idle" /\ runs < MaxRuns
  /\ runs' = runs + 1 /\ pc' = where /\ from_file' = file_first /\ source' = s
  /\ at' = 1 /\ work' = 0
  /\ UNCHANGED <<writer, size, bytecode, heap, objects_created, gc_disabled, evalstack,
                 names, values, compilers, strings, functions, script>>

RunFile == file.exists /\ Begins("opened", TRUE, <<>>)
RunScript(s) == Begins("natives", FALSE, s)

(* The process ends and all it had is gone.                                *)
Exit ==
  /\ pc' = "idle" /\ from_file' = FALSE /\ source' = <<>> /\ at' = 0 /\ size' = 0 /\ work' = 0
  /\ bytecode' = NoBytecode
  /\ heap' = NoObjects /\ objects_created' = 0 /\ gc_disabled' = FALSE
  /\ evalstack' = <<>> /\ names' = <<>> /\ values' = {} /\ compilers' = <<>>
  /\ strings' = NoObjects /\ functions' = NoObjects /\ script' = 0
  /\ UNCHANGED <<writer, runs>>

Stay == UNCHANGED <<heap, objects_created, gc_disabled, evalstack, names, values, compilers,
                    strings, functions, script>>

(* is_compiled_lox_program(): a file of less than 32 bytes is not.         *)
CheckMagic ==
  /\ pc = "opened"
  /\ pc' = IF file.pieces >= 2 THEN "header" ELSE "text"
  /\ UNCHANGED <<writer, control, at>> /\ Stay

(* Then it is read as a source.  An empty file is the empty script; the    *)
(* first byte of a header is no token, so anything else is rejected.       *)
ReadText ==
  /\ pc = "text"
  /\ IF file.pieces > 0 THEN Exit
     ELSE /\ pc' = "natives" /\ from_file' = FALSE /\ source' = EmptyScript
          /\ UNCHANGED <<writer, size, bytecode, runs, work, at>> /\ Stay

(* loxvm runs compiled programs only, and ends here instead.               *)
RefuseText == pc = "text" /\ Exit

(* read(): first the size is asked for, then so many bytes are read.       *)
FindSize ==
  /\ pc = "header"
  /\ pc' = "bytes" /\ size' = PrefixSize(file.image, file.pieces)
  /\ UNCHANGED <<writer, from_file, source, bytecode, runs, work, at>> /\ Stay

(* There are so many bytes, and the header knows of as many.               *)
SizeFits ==
  /\ PrefixSize(file.image, file.pieces) >= size
  /\ size = file_size(file.image)

(* Mutant: the checksum is not compared.                                   *)
AcceptedUnchecked == SizeFits

(* The checksum is that of the bytes read.                                 *)
Accepted == SizeFits /\ ~file.damaged

(* Mutant: the collector stays on.                                         *)
LoadWithout == gc_disabled

(* deserialize_program() switches the collector off.                       *)
LoadWith == TRUE

ReadBytes ==
  /\ pc = "bytes"
  /\ IF ~Accepted THEN Exit
     ELSE /\ pc' = "strings" /\ source' = file.source /\ gc_disabled' = LoadWith
          /\ bytecode' = IF file.damaged THEN Damaged(file.image) ELSE file.image
          /\ UNCHANGED <<writer, from_file, size, runs, work, at, heap, objects_created,
                         evalstack, names, values, compilers, strings, functions, script>>

(* Mutant: the offset does not go on.                                      *)
NextAtStays == at
NextAt == at + 1

LoadString ==
  /\ pc = "strings" /\ at <= Len(bytecode.strings)
  /\ \E h \in AfterGc(heap, Roots, gc_disabled) :
       LET r == intern_string(h, bytecode.strings[at], NewId)
       IN /\ heap' = r.h /\ objects_created' = Created(r)
          /\ strings' = With(strings, StringOffset(bytecode.strings, at), r.id)
  /\ at' = NextAt
  /\ UNCHANGED <<writer, control, pc, gc_disabled, evalstack, names, values, compilers,
                 functions, script>>

LoadGlobals ==
  /\ pc = "strings" /\ at > Len(bytecode.strings)
  /\ IF ~TableOk(bytecode.globals, strings) THEN Exit
     ELSE /\ names' = deserialize_global_table(bytecode.globals, strings).names
          /\ pc' = "chunks" /\ at' = 1
          /\ UNCHANGED <<writer, control, heap, objects_created, gc_disabled, evalstack,
                         values, compilers, strings, functions, script>>

(* The objects that the constants of a chunk are.                          *)
ConstantIds(constants) ==
  LET pool == deserialize_constant_pool(constants, functions, strings)
  IN [i \in DOMAIN pool |-> pool[i].v]

LoadChunk ==
  /\ pc = "chunks" /\ at <= Len(bytecode.bytecode)
  /\ LET chunk == bytecode.bytecode[at]
     IN IF \/ ~PoolOk(chunk.constants, functions, strings)
           \/ chunk.name \notin DOMAIN strings \/ chunk.id \in DOMAIN functions
          THEN Exit
        ELSE /\ \E h \in AfterGc(heap, Roots, gc_disabled) :
                  heap' = With(h, NewId, Object("function", strings[chunk.name],
                                                ConstantIds(chunk.constants), chunk.code))
             /\ objects_created' = NewId
             /\ functions' = With(functions, chunk.id, NewId)
             /\ at' = at + 1
             /\ UNCHANGED <<writer, control, pc, gc_disabled, evalstack, names, values,
                            compilers, strings, script>>

EndLoad ==
  /\ pc = "chunks" /\ at > Len(bytecode.bytecode)
  /\ IF 0 \notin DOMAIN functions THEN Exit
     ELSE /\ script' = functions[0] /\ gc_disabled' = FALSE
          /\ pc' = "natives" /\ at' = 1
          /\ UNCHANGED <<writer, control, heap, objects_created, evalstack, names, values,
                         compilers, strings, functions>>

-----------------------------------------------------------------------------
(* register_native_functions(), here one of them.  When a program has been *)
(* loaded nothing refers to it yet, and the collector is off meanwhile.    *)

NativeName ==
  /\ pc = "natives" /\ at = 1
  /\ \E h \in AfterGc(heap, Roots, from_file) :
       LET r == intern_string(h, "print", NewId)
       IN heap' = r.h /\ evalstack' = Append(evalstack, r.id) /\ objects_created' = Created(r)
  /\ gc_disabled' = from_file /\ at' = 2
  /\ UNCHANGED <<writer, control, pc, names, values, compilers, strings, functions, script>>

(* Mutant: the collector is not switched on again.                         *)
NativesEndOff == gc_disabled
NativesEnd == FALSE

NativeFunction ==
  /\ pc = "natives" /\ at = 2
  /\ \E h \in AfterGc(heap, Roots, gc_disabled) : heap' = With(h, NewId, Object("native", 0, <<>>, <<>>))
  /\ objects_created' = NewId
  /\ names' = get_global(Last(evalstack)) /\ values' = values \cup {NewId}
  /\ evalstack' = <<>> /\ gc_disabled' = NativesEnd
  /\ pc' = (IF from_file THEN "start" ELSE "compile") /\ at' = 1
  /\ UNCHANGED <<writer, control, compilers, strings, functions, script>>

-----------------------------------------------------------------------------
(* compile(): the collector finds the functions of the compilers.          *)

event == source[at]
current == Last(compilers)
Compiling(e) == pc = "compile" /\ at <= Len(source) /\ event.e = e
Compiled1 == at' = at + 1 /\ UNCHANGED <<writer, control, gc_disabled, evalstack, values,
                                         strings, functions>>

(* The constructor: the new compiler is the current one, without function, *)
(* while the name, kept in the stash, and the function are made.           *)
BeginFunction ==
  /\ Compiling("begin")
  /\ \E h \in AfterGc(heap, Roots, gc_disabled) :
       LET n == intern_string(h, event.s, NewId)
       IN \E g \in AfterGc(n.h, Roots \cup {n.id}, gc_disabled) :
            heap' = With(g, NewId + 1, Object("function", n.id, <<>>, <<>>))
  /\ objects_created' = NewId + 1
  /\ compilers' = Append(compilers, NewId + 1)
  /\ Compiled1 /\ UNCHANGED <<pc, names, script>>

(* string(): a constant of the current function.                           *)
StringConstant ==
  /\ Compiling("string")
  /\ \E h \in AfterGc(heap, Roots, gc_disabled) :
       LET r == intern_string(h, event.s, NewId)
       IN /\ heap' = [r.h EXCEPT ![current].constants = Append(@, r.id)]
          /\ objects_created' = Created(r)
  /\ Compiled1 /\ UNCHANGED <<pc, names, compilers, script>>

(* identifier(): the index of a global is part of the code.                *)
GlobalName ==
  /\ Compiling("global")
  /\ \E h \in AfterGc(heap, Roots, gc_disabled) :
       LET r == intern_string(h, event.s, NewId)
       IN /\ names' = get_global(r.id) /\ objects_created' = Created(r)
          /\ heap' = [r.h EXCEPT ![current].code = Append(@, Position(names', r.id))]
  /\ Compiled1 /\ UNCHANGED <<pc, compilers, script>>

(* Mutant: current is not reset.                                           *)
EnclosingKept(cs) == cs

(* The destructor goes back to the enclosing compiler.                     *)
Enclosing(cs) == SubSeq(cs, 1, Len(cs) - 1)

(* The function becomes a constant of the one around it.                   *)
EndFunction ==
  /\ Compiling("end") /\ Len(compilers) > 1
  /\ LET outer == compilers[Len(compilers) - 1]
     IN heap' = [heap EXCEPT ![outer].constants = Append(@, current)]
  /\ compilers' = Enclosing(compilers)
  /\ Compiled1 /\ UNCHANGED <<pc, objects_created, names, script>>

(* The compiler of the script lives on while the script runs.              *)
EndScript ==
  /\ Compiling("end") /\ Len(compilers) = 1
  /\ pc' = "start" /\ script' = current
  /\ Compiled1 /\ UNCHANGED <<heap, objects_created, names, compilers>>

-----------------------------------------------------------------------------
(* run(): the function is on the stack while its closure is made.          *)

Start1 ==
  /\ pc = "start"
  /\ \E h \in AfterGc(heap, Roots \cup {script}, gc_disabled) :
       heap' = With(h, NewId, Object("closure", script, <<>>, <<>>))
  /\ objects_created' = NewId /\ evalstack' = <<NewId>> /\ pc' = "running"
  /\ UNCHANGED <<writer, control, at, gc_disabled, names, values, compilers, strings,
                 functions, script>>

(* A running program allocates, here objects that nothing refers to.       *)
Work ==
  /\ pc = "running" /\ work < MaxWork
  /\ \E h \in AfterGc(heap, Roots, gc_disabled) : heap' = With(h, NewId, Object("list", 0, <<>>, <<>>))
  /\ objects_created' = NewId /\ work' = work + 1
  /\ UNCHANGED <<writer, from_file, source, size, bytecode, runs, pc, at, gc_disabled,
                 evalstack, names, values, compilers, strings, functions, script>>

Finish == pc = "running" /\ Exit

-----------------------------------------------------------------------------
Loading ==
  \/ CheckMagic \/ ReadText \/ RefuseText \/ FindSize \/ ReadBytes
  \/ LoadString \/ LoadGlobals \/ LoadChunk \/ EndLoad
  \/ NativeName \/ NativeFunction
  \/ BeginFunction \/ StringConstant \/ GlobalName \/ EndFunction \/ EndScript
  \/ Start1

Next ==
  \/ \E s \in Sources : CompileFile(s) \/ RunScript(s)
  \/ write \/ WriterEnds \/ Damage
  \/ RunFile \/ Loading \/ Work \/ Finish

(* The steps from run_file() to run() wait for nothing.                    *)
Spec == Init /\ [][Next]_vars /\ WF_vars(Loading)

-----------------------------------------------------------------------------
(* Properties *)

(* The pieces of the state have their kinds, the file is one that some     *)
(* source has, and there is one compiler for each function that has begun  *)
(* and not ended.                                                          *)
TypeOK ==
  /\ file = NoFile \/ (file.source \in Sources /\ file.pieces \in 0..5)
  /\ pc \in {"idle", "opened", "text", "header", "bytes", "strings", "chunks", "natives",
             "compile", "start", "running"}
  /\ gc_disabled \in BOOLEAN
  /\ Len(evalstack) <= 1
  /\ pc = "compile" =>
       Len(compilers) = LET seen(e) == {i \in 1..(at - 1) : source[i].e = e}
                        IN Cardinality(seen("begin")) - Cardinality(seen("end"))
  /\ \A i \in DOMAIN heap : i <= objects_created

(* What the process still needs: the strings and functions it has loaded,  *)
(* which no root refers to, and what the roots refer to.                   *)
Needed ==
  Roots
  \cup (IF pc \in {"strings", "chunks"} THEN {strings[o] : o \in DOMAIN strings} ELSE {})
  \cup (IF pc = "chunks" THEN {functions[i] : i \in DOMAIN functions} ELSE {})
  \cup ({script} \ {0})

(* No collection between the first byte read and the last instruction run  *)
(* frees what the program consists of: neither in deserialize_program(),   *)
(* whose maps are no roots, nor while native functions are registered, nor *)
(* in a constructor of Compiler whose function is still to be made, nor    *)
(* when run() makes the closure.                                           *)
NothingNeededIsFreed == Reach(heap, Needed) \subseteq DOMAIN heap

(* The first n strings of the block have been read: each is at its offset, *)
(* unless it has been freed.                                               *)
StringsAsWritten(n) ==
  \A k \in 1..n :
    LET offset == StringOffset(bytecode.strings, k)
    IN /\ offset \in DOMAIN strings
       /\ strings[offset] \in DOMAIN heap =>
            /\ heap[strings[offset]].kind = "string"
            /\ heap[strings[offset]].s = bytecode.strings[k]

(* So have been the first n functions.                                     *)
FunctionsAsWritten(n) ==
  \A k \in 1..n :
    LET chunk == bytecode.bytecode[k]
    IN /\ PoolOk(chunk.constants, functions, strings)
       /\ chunk.name \in DOMAIN strings /\ chunk.id \in DOMAIN functions
       /\ functions[chunk.id] \in DOMAIN heap =>
            heap[functions[chunk.id]] = Object("function", strings[chunk.name],
                                               ConstantIds(chunk.constants), chunk.code)

(* The globals have the indices that the code uses.                        *)
GlobalsAsWritten ==
  \A i \in DOMAIN bytecode.globals :
    i \in DOMAIN names /\ names[i] = strings[bytecode.globals[i].name]

(* What the deserializer has built, and what a program from a file then    *)
(* runs, is what was read, and that is the image of a source: no string,   *)
(* no function and no global has taken the place of another, although the  *)
(* strings are interned, and natives are added to the globals.             *)
LoadedAsWritten ==
  from_file =>
    /\ pc = "strings" => StringsAsWritten(at - 1)
    /\ pc = "chunks" => /\ StringsAsWritten(Len(bytecode.strings)) /\ GlobalsAsWritten
                        /\ FunctionsAsWritten(at - 1)
    /\ pc \in {"natives", "start", "running"} =>
         /\ source \in Sources /\ bytecode = Images[source]
         /\ StringsAsWritten(Len(bytecode.strings)) /\ GlobalsAsWritten
         /\ FunctionsAsWritten(Len(bytecode.bytecode))
         /\ 0 \in DOMAIN functions /\ script = functions[0]

(* The collector that loading has switched off is on when programs run.    *)
CollectorRuns == pc = "running" => ~gc_disabled

(* run_file() comes to run the program or gives up, even on a torn file;   *)
(* and bytes that read() has accepted do run: the deserializer refuses     *)
(* nothing that the serializer wrote, whatever its order and references.   *)
LoadingEnds ==
  /\ (pc = "opened") ~> (pc \in {"running", "idle"})
  /\ (pc = "strings") ~> (pc = "running")

-----------------------------------------------------------------------------
(* The inductive invariant behind the safety properties.                   *)

(* The file has the image of the source it is said to have.                *)
FileOk ==
  /\ file \in [source : Sources \cup {<<>>}, image : {Images[s] : s \in Sources} \cup {NoBytecode},
               pieces : 0..5, damaged : BOOLEAN, exists : BOOLEAN]
  /\ file.exists => file.source \in Sources /\ file.image = Images[file.source]
  /\ ~file.exists => file = NoFile /\ ~writing

(* What a heap object has at least.                                        *)
IsObject(obj) ==
  /\ DOMAIN obj = {"kind", "s", "name", "constants", "code"}
  /\ obj.name \in Nat /\ obj.constants \in Seq(Nat)

(* Identities are not used twice, and even garbage refers to nothing that  *)
(* has been freed: a collection frees all of it.                           *)
HeapClosed ==
  /\ objects_created \in Nat /\ IsFiniteSet(DOMAIN heap)
  /\ DOMAIN heap \subseteq 1..objects_created
  /\ \A i \in DOMAIN heap : IsObject(heap[i]) /\ Refs(heap[i]) \subseteq DOMAIN heap

(* What is needed exists.                                                  *)
Kept ==
  /\ compilers \in Seq(Nat) /\ evalstack \in Seq(Nat) /\ names \in Seq(Nat)
  /\ values \subseteq Nat /\ script \in Nat
  /\ Needed \subseteq DOMAIN heap
  /\ 0 \notin ToSet(compilers)

Before == {"idle", "opened", "text", "header", "bytes"}
Reading == {"strings", "chunks"}
Scripts == Sources \cup {EmptyScript}

(* What is known at each stage of run_file(): what nothing refers to is    *)
(* there only while the collector is off, and from the moment it is on     *)
(* again the closure on the stack refers to the script.                    *)
Stages ==
  /\ at \in Nat /\ from_file \in BOOLEAN /\ gc_disabled \in BOOLEAN
  /\ pc \in Before => strings = NoObjects /\ functions = NoObjects /\ ~gc_disabled
  /\ pc \in Before \ {"idle"} => file.exists /\ from_file
  /\ pc \in Before \cup Reading => evalstack = <<>> /\ script = 0 /\ compilers = <<>>
  /\ pc \in Before \ {"idle"} => at = 1
  /\ pc \in Reading => /\ at >= 1 /\ gc_disabled /\ from_file
                       /\ source \in Sources /\ bytecode = Images[source]
  /\ pc = "strings" => functions = NoObjects
  /\ pc = "natives" => /\ compilers = <<>> /\ at \in {1, 2}
                       /\ at = 1 => evalstack = <<>> /\ ~gc_disabled
                       /\ at = 2 => Len(evalstack) = 1 /\ gc_disabled = from_file
                       /\ from_file => script # 0
                       /\ ~from_file => script = 0 /\ source \in Scripts
  /\ pc = "compile" => /\ evalstack = <<>> /\ script = 0 /\ ~gc_disabled
                       /\ at >= 1 /\ source \in Scripts
                       /\ compilers = <<>> <=> at = 1
  /\ pc = "start" => evalstack = <<>> /\ script # 0 /\ ~gc_disabled
  /\ pc = "running" => /\ Len(evalstack) = 1 /\ script # 0 /\ ~gc_disabled
                       /\ evalstack[1] \in DOMAIN heap /\ heap[evalstack[1]].name = script

LoaderInv == TypeOK /\ FileOk /\ HeapClosed /\ Kept /\ Stages
=============================================================================
