----------------------------- MODULE WasmLoader -----------------------------
(***************************************************************************)
(* The WASM runtime loader of src/compiler/src/wasm_runtime.c:            *)
(* onyx_run_initialize followed by onyx_run_wasm.                          *)
(*                                                                         *)
(* The loader is a single thread; its state is the set of global WASM     *)
(* object pointers (wasm_engine, wasm_store, wasm_module, wasm_instance,   *)
(* wasm_memory), whether each object is still alive, the module's bytes,  *)
(* the custom-section scan that loads the libraries of the _onyx_libs     *)
(* section, the import vector, the trap printer's section scan and the    *)
(* frame lines it prints, and the return value.                           *)
(* Every call into the engine that can fail (config, engine, store,       *)
(* module, instance creation, dlopen/dlsym, the run of _start) is a       *)
(* nondeterministic choice between its outcomes.                          *)
(***************************************************************************)
EXTENDS Naturals, Sequences, SequencesExt, FiniteSets, WasmBytes

CONSTANTS
  Imports,      \* the module's imports, in declaration order (keys)
  MemoryKey,    \* the key of the built-in import onyx.memory
  Modules,      \* the byte buffers onyx_run_wasm may be given
  LibDefs,      \* LibDefs[l]: the import keys defined by library l, in order
  NotBound,     \* the value of an import slot that was never written
  Traces        \* the frame lists a trap may carry (function indices)

\* The objects whose global pointer the loader keeps.
Objects == {"engine", "store", "module", "instance", "memory"}

\* The object that owns each object (spec: the engine owns the store, the
\* store owns the module and the memory, the module owns the instances).
Owner == [store |-> "engine", module |-> "store", memory |-> "store",
          instance |-> "module"]

Phases == {"config", "engine", "store", "magic", "scan", "path", "name",
           "module", "link", "start", "trace", "frames", "done"}

\* "_onyx_libs", the section name the scan looks for, and "ONYX".
LibsName == <<95, 111, 110, 121, 120, 95, 108, 105, 98, 115>>
OnyxMagic == <<79, 78, 89, 88>>

\* "_onyx_func_offsets", the section the trap printer looks for.
FuncOffsetsName == <<95, 111, 110, 121, 120, 95, 102, 117, 110, 99, 95, 111,
                     102, 102, 115, 101, 116, 115>>

\* The clamps of a library path's and a library name's length.
PathMax == 512
NameMax == 256

VARIABLES
  pc,         \* the statement the loader is about to execute
  ptr,        \* ptr[o]: the global pointer of object o is non-NULL
  live,       \* the objects created and not yet deleted
  deletes,    \* the sequence of *_delete calls made so far
  descriptor, \* the wasm_runtime descriptor's function pointers are set
  bytes,      \* wasm_bytes.data (input; its magic is rewritten)
  cursor,     \* the scan's cursor (0 until the scan starts)
  left,       \* the iterations left of the current path or name loop
  tried,      \* the names handed to onyx_load_library, in order
  linkable,   \* the libraries whose function tables were loaded
  imp,        \* the index of the next import to link
  bound,      \* bound[i]: the extern written into wasm_imports.data[i]
  started,    \* _start has been called
  trapped,    \* the call of _start returned a trap
  result,     \* the value onyx_run_wasm returned (read once pc = "done")
  fsec,       \* the trap printer's func_name_section (0: not found)
  frames,     \* the function indices of the trap's frames
  printed     \* the frame lines printed: index and name

traceVars == <<fsec, frames, printed>>

scanVars == <<bytes, cursor, left, tried>>

vars == <<pc, ptr, live, deletes, descriptor, scanVars, linkable, imp,
          bound, started, trapped, result, traceVars>>

\* A binding of an import: the lazily created memory, or definition j of
\* the k-th loaded library.
MemoryBinding == <<0, 0>>

Bindings == {MemoryBinding} \cup
            {<<k, j>> : k \in 1..Len(linkable),
                        j \in 1..Max({Len(LibDefs[l]) : l \in DOMAIN LibDefs})}

TypeOK ==
  /\ pc \in Phases
  /\ ptr \in [Objects -> BOOLEAN]
  /\ live \subseteq Objects
  /\ deletes \in Seq(Objects)
  /\ descriptor \in BOOLEAN
  /\ bytes \in Seq(0 .. 255) /\ cursor \in Nat /\ left \in Nat
  /\ tried \in Seq(Seq(0 .. 255))
  /\ linkable \in Seq(DOMAIN LibDefs)
  /\ imp \in 1..Len(Imports) + 1
  /\ bound \in [1..Len(Imports) -> Bindings \cup {NotBound}]
  /\ started \in BOOLEAN /\ trapped \in BOOLEAN
  /\ result \in BOOLEAN
  /\ fsec \in Nat /\ frames \in Traces \cup {<<>>}
  /\ printed \in Seq([idx : Nat, name : Seq(0 .. 255)])

Init ==
  /\ pc = "config"
  /\ ptr = [o \in Objects |-> FALSE]
  /\ live = {}
  /\ deletes = <<>>
  /\ descriptor = FALSE
  /\ bytes \in Modules
  /\ cursor = 0 /\ left = 0 /\ tried = <<>>
  /\ linkable = <<>>
  /\ imp = 1
  /\ bound = [i \in 1..Len(Imports) |-> NotBound]
  /\ started = FALSE /\ trapped = FALSE
  /\ result = FALSE
  /\ fsec = 0 /\ frames = <<>> /\ printed = <<>>

-----------------------------------------------------------------------------
(* cleanup_wasm_objects: delete instance, module, store, engine, each one  *)
(* whose global pointer is non-NULL.  The pointers are not reset.  The     *)
(* memory and host functions belong to the store and die with it.        *)
\* Fault model: the objects deleted owner first.
CleanupOrderOwnerFirst == <<"engine", "store", "module", "instance">>

CleanupOrder == <<"instance", "module", "store", "engine">>

CleanupDeleted == SelectSeq(CleanupOrder, LAMBDA o : ptr[o])

cleanup_wasm_objects ==
  LET gone == ToSet(CleanupDeleted)
  IN  /\ deletes' = deletes \o CleanupDeleted
      /\ live' = live \ (gone \cup IF "store" \in gone THEN {"memory"} ELSE {})

\* An object creation: the pointer is set and the object is alive.
Create(o) ==
  /\ ptr' = [ptr EXCEPT ![o] = TRUE]
  /\ live' = live \cup {o}

-----------------------------------------------------------------------------
(* onyx_run_initialize.  It returns void: on a failure it cleans up and    *)
(* returns, and the caller goes on to onyx_run_wasm all the same.         *)

\* wasm_config_new
InitConfig ==
  /\ pc = "config"
  /\ \/ pc' = "engine" /\ UNCHANGED <<ptr, live, deletes>>
     \/ cleanup_wasm_objects /\ pc' = "magic" /\ UNCHANGED ptr
  /\ UNCHANGED <<descriptor, scanVars, linkable, imp, bound, started,
                 trapped, result, traceVars>>

\* wasm_engine_new_with_config
InitEngine ==
  /\ pc = "engine"
  /\ \/ Create("engine") /\ pc' = "store" /\ UNCHANGED deletes
     \/ cleanup_wasm_objects /\ pc' = "magic" /\ UNCHANGED ptr
  /\ UNCHANGED <<descriptor, scanVars, linkable, imp, bound, started,
                 trapped, result, traceVars>>

\* wasm_store_new, then the runtime descriptor's function pointers are set.
InitStore ==
  /\ pc = "store"
  /\ \/ Create("store") /\ descriptor' = TRUE /\ UNCHANGED deletes
     \/ cleanup_wasm_objects /\ UNCHANGED <<ptr, descriptor>>
  /\ pc' = "magic"
  /\ UNCHANGED <<scanVars, linkable, imp, bound, started, trapped, result,
                 traceVars>>

-----------------------------------------------------------------------------
(* onyx_run_wasm *)

\* The "ONYX" sentinel check; a bad magic returns 0 at once.  Otherwise
\* the first four bytes become "\0asm" and the scan starts past the
\* 8-byte header.
CheckMagic ==
  /\ pc = "magic"
  /\ IF NameIs(bytes, 0, OnyxMagic, 4)
     THEN /\ bytes' = <<0, 97, 115, 109>> \o SubSeq(bytes, 5, Len(bytes))
          /\ cursor' = 8 /\ pc' = "scan"
          /\ UNCHANGED result
     ELSE /\ pc' = "done" /\ result' = FALSE
          /\ UNCHANGED <<bytes, cursor>>
  /\ UNCHANGED <<ptr, live, deletes, descriptor, left, tried, linkable, imp,
                 bound, started, trapped, traceVars>>

-----------------------------------------------------------------------------
(* lookup_and_load_custom_libraries: one action per turn of its loops.    *)

\* The variables the scan leaves alone.
LoaderVars == <<ptr, live, deletes, descriptor, imp, bound, started, trapped,
                result, traceVars>>

\* One section: its id and size are read; a custom section whose name
\* compares equal to "_onyx_libs" over the name's length starts the path
\* loop (its count read), any other section is jumped over.
ScanSection ==
  /\ pc = "scan"
  /\ cursor < Len(bytes)
  /\ LET id    == UlebAt(bytes, cursor)
         size  == UlebAt(bytes, id.next)
         start == size.next
         nlen  == UlebAt(bytes, start)
         count == UlebAt(bytes, nlen.next + nlen.val)
     IN  IF id.val = 0 /\ NameIs(bytes, nlen.next, LibsName, nlen.val)
         THEN /\ pc' = "path" /\ cursor' = count.next /\ left' = count.val
         ELSE /\ cursor' = start + size.val
              /\ UNCHANGED <<pc, left>>
  /\ UNCHANGED <<bytes, tried, linkable>>
  /\ UNCHANGED LoaderVars

\* The end of the buffer: no _onyx_libs section.
ScanEnd ==
  /\ pc = "scan"
  /\ cursor >= Len(bytes)
  /\ pc' = "module"
  /\ UNCHANGED <<scanVars, linkable>>
  /\ UNCHANGED LoaderVars

\* One library path: its length, clamped, is skipped over.  The path is
\* stored on the link context only for the library search, which the
\* model leaves to the nondeterministic outcome of a load.
ReadPath ==
  /\ pc = "path"
  /\ left > 0
  /\ LET len == UlebAt(bytes, cursor)
     IN  cursor' = len.next + Clamp(len.val, PathMax)
  /\ left' = left - 1
  /\ UNCHANGED <<pc, bytes, tried, linkable>>
  /\ UNCHANGED LoaderVars

\* After the paths, the count of library names.
PathsDone ==
  /\ pc = "path"
  /\ left = 0
  /\ LET count == UlebAt(bytes, cursor)
     IN  /\ cursor' = count.next
         /\ left' = count.val
  /\ pc' = "name"
  /\ UNCHANGED <<bytes, tried, linkable>>
  /\ UNCHANGED LoaderVars

\* onyx_load_library: the platform file name is searched along the paths,
\* opened, its onyx_library_<basename> entry looked up and called with the
\* runtime descriptor.  Whether it yields a function table: a name that is
\* no library never does; any load can fail (file, dlopen, dlsym).
Loads(name) == IF name \in DOMAIN LibDefs THEN BOOLEAN ELSE {FALSE}

\* One library name, its length clamped, is copied and handed to
\* onyx_load_library; a library that fails is reported and skipped.
LoadLibrary ==
  /\ pc = "name"
  /\ left > 0
  /\ LET len  == UlebAt(bytes, cursor)
         n    == Clamp(len.val, NameMax)
         name == CStrAt(bytes, len.next, n)
     IN  /\ cursor' = len.next + n
         /\ tried' = Append(tried, name)
         /\ \E loaded \in Loads(name) :
              linkable' = IF loaded THEN Append(linkable, name) ELSE linkable
  /\ left' = left - 1
  /\ UNCHANGED <<pc, bytes>>
  /\ UNCHANGED LoaderVars

\* Fault model: the scan goes on with the next section after the names.
NamesDoneNoBreak ==
  /\ pc = "name"
  /\ left = 0
  /\ pc' = "scan"
  /\ UNCHANGED <<scanVars, linkable>>
  /\ UNCHANGED LoaderVars

\* After the names the scan breaks out of the section loop.
NamesDone ==
  /\ pc = "name"
  /\ left = 0
  /\ pc' = "module"
  /\ UNCHANGED <<scanVars, linkable>>
  /\ UNCHANGED LoaderVars

\* Fault model: wasm_module_new succeeds whatever the store.
CreateModuleIgnoreStore ==
  /\ pc = "module"
  /\ \/ /\ Create("module")
        /\ pc' = "link" /\ UNCHANGED <<deletes, result>>
     \/ /\ cleanup_wasm_objects
        /\ pc' = "done" /\ result' = FALSE /\ UNCHANGED ptr
  /\ UNCHANGED <<descriptor, scanVars, linkable, imp, bound, started,
                 trapped, traceVars>>

\* wasm_module_new: fails when the store does not exist.
CreateModule ==
  /\ pc = "module"
  /\ \/ /\ "store" \in live
        /\ Create("module")
        /\ pc' = "link" /\ UNCHANGED <<deletes, result>>
     \/ /\ cleanup_wasm_objects
        /\ pc' = "done" /\ result' = FALSE /\ UNCHANGED ptr
  /\ UNCHANGED <<descriptor, scanVars, linkable, imp, bound, started,
                 trapped, traceVars>>

\* Fault model: the definition index taken one past the match.
FirstMatchPastIndex(key) ==
  LET k == SelectInSeq(linkable, LAMBDA l : Contains(LibDefs[l], key))
  IN  IF k = 0 THEN NotBound
      ELSE <<k, SelectInSeq(LibDefs[linkable[k]], LAMBDA d : d = key) + 1>>

\* The first definition matching key, searched library by library in load
\* order and, within a library, in its null-terminated list's order.
FirstMatch(key) ==
  LET k == SelectInSeq(linkable, LAMBDA l : Contains(LibDefs[l], key))
  IN  IF k = 0 THEN NotBound
      ELSE <<k, SelectInSeq(LibDefs[linkable[k]], LAMBDA d : d = key)>>

\* Fault model: a missing import is reported and skipped, its slot left
\* unwritten, instead of aborting.
LinkImportSkipMissing ==
  /\ pc = "link"
  /\ imp <= Len(Imports)
  /\ LET key == Imports[imp] IN
     IF key = MemoryKey THEN
        /\ IF ptr["memory"] THEN UNCHANGED <<ptr, live>> ELSE Create("memory")
        /\ bound' = [bound EXCEPT ![imp] = MemoryBinding]
     ELSE IF FirstMatch(key) # NotBound THEN
        /\ bound' = [bound EXCEPT ![imp] = FirstMatch(key)]
        /\ UNCHANGED <<ptr, live>>
     ELSE UNCHANGED <<ptr, live, bound>>
  /\ imp' = imp + 1
  /\ UNCHANGED <<pc, result, deletes, descriptor, scanVars, linkable,
                 started, trapped, traceVars>>

\* Fault model: the loop index is not advanced after binding the memory.
LinkImportMemoryNoAdvance ==
  /\ pc = "link"
  /\ imp <= Len(Imports)
  /\ LET key == Imports[imp] IN
     IF key = MemoryKey THEN
        /\ IF ptr["memory"] THEN UNCHANGED <<ptr, live>> ELSE Create("memory")
        /\ bound' = [bound EXCEPT ![imp] = MemoryBinding]
        /\ UNCHANGED <<pc, result, imp>>
     ELSE IF FirstMatch(key) # NotBound THEN
        /\ bound' = [bound EXCEPT ![imp] = FirstMatch(key)]
        /\ imp' = imp + 1
        /\ UNCHANGED <<pc, result, ptr, live>>
     ELSE
        /\ pc' = "done" /\ result' = FALSE
        /\ UNCHANGED <<ptr, live, bound, imp>>
  /\ UNCHANGED <<deletes, descriptor, scanVars, linkable, started, trapped,
                 traceVars>>

\* One iteration of link_wasm_imports: onyx.memory is bound to the memory,
\* created on first use; any other import to the first library definition
\* that matches it.  An import matched by nothing prints "Couldn't find
\* import" and makes onyx_run_wasm return 0 at once.
LinkImport ==
  /\ pc = "link"
  /\ imp <= Len(Imports)
  /\ LET key == Imports[imp] IN
     IF key = MemoryKey THEN
        /\ IF ptr["memory"] THEN UNCHANGED <<ptr, live>> ELSE Create("memory")
        /\ bound' = [bound EXCEPT ![imp] = MemoryBinding]
        /\ imp' = imp + 1
        /\ UNCHANGED <<pc, result>>
     ELSE IF FirstMatch(key) # NotBound THEN
        /\ bound' = [bound EXCEPT ![imp] = FirstMatch(key)]
        /\ imp' = imp + 1
        /\ UNCHANGED <<pc, result, ptr, live>>
     ELSE
        /\ pc' = "done" /\ result' = FALSE
        /\ UNCHANGED <<ptr, live, bound, imp>>
  /\ UNCHANGED <<deletes, descriptor, scanVars, linkable, started, trapped,
                 traceVars>>

\* wasm_instance_new with the assembled import vector.
Instantiate ==
  /\ pc = "link"
  /\ imp > Len(Imports)
  /\ \/ Create("instance") /\ pc' = "start" /\ UNCHANGED <<deletes, result>>
     \/ cleanup_wasm_objects /\ pc' = "done" /\ result' = FALSE
        /\ UNCHANGED ptr
  /\ UNCHANGED <<descriptor, scanVars, linkable, imp, bound, started,
                 trapped, traceVars>>

\* The variables the trap printer leaves alone.
PrinterVars == <<ptr, descriptor, bytes, left, tried, linkable, imp, bound,
                 started, trapped, result>>

\* Fault model: success returned whether or not _start trapped.
RunStartIgnoreTrap ==
  /\ pc = "start"
  /\ started' = TRUE
  /\ \E trap \in BOOLEAN :
       /\ trapped' = trap
       /\ result' = TRUE
       /\ IF trap
          THEN /\ \E fr \in Traces : frames' = fr
               /\ cursor' = 8 /\ pc' = "trace"
               /\ UNCHANGED <<live, deletes>>
          ELSE /\ cleanup_wasm_objects /\ pc' = "done"
               /\ UNCHANGED <<cursor, frames>>
  /\ UNCHANGED <<ptr, descriptor, bytes, left, tried, linkable, imp, bound,
                 fsec, printed>>

\* The call of _start and the return value run_trap == NULL.  A trap
\* (with the frames of its trace) goes to onyx_print_trap, whose cursor
\* starts past the 8-byte header; otherwise the objects are cleaned up
\* and onyx_run_wasm returns.
RunStart ==
  /\ pc = "start"
  /\ started' = TRUE
  /\ \E trap \in BOOLEAN :
       /\ trapped' = trap
       /\ result' = ~trap
       /\ IF trap
          THEN /\ \E fr \in Traces : frames' = fr
               /\ cursor' = 8 /\ pc' = "trace"
               /\ UNCHANGED <<live, deletes>>
          ELSE /\ cleanup_wasm_objects /\ pc' = "done"
               /\ UNCHANGED <<cursor, frames>>
  /\ UNCHANGED <<ptr, descriptor, bytes, left, tried, linkable, imp, bound,
                 fsec, printed>>

-----------------------------------------------------------------------------
(* onyx_print_trap: the message, the search for the function-name table,  *)
(* one frame line per turn of the trace loop; then the cleanup.           *)

\* After the trace: the cleanup, and onyx_run_wasm returns 0.
TrapReported ==
  /\ cleanup_wasm_objects
  /\ pc' = "done"

\* One section: a custom section whose name compares equal to
\* "_onyx_func_offsets" over the name's length is the table, which starts
\* at the end of the name; any other section is jumped over.
TraceSection ==
  /\ pc = "trace"
  /\ cursor < Len(bytes)
  /\ LET id    == UlebAt(bytes, cursor)
         size  == UlebAt(bytes, id.next)
         start == size.next
         nlen  == UlebAt(bytes, start)
     IN  IF id.val = 0 /\ NameIs(bytes, nlen.next, FuncOffsetsName, nlen.val)
         THEN /\ fsec' = nlen.next + nlen.val
              /\ cursor' = nlen.next + nlen.val
              /\ pc' = "frames"
         ELSE /\ cursor' = start + size.val
              /\ UNCHANGED <<pc, fsec>>
  /\ UNCHANGED <<live, deletes, frames, printed>>
  /\ UNCHANGED PrinterVars

\* No table (func_name_section == 0): only the message is printed.
TraceEnd ==
  /\ pc = "trace"
  /\ cursor >= Len(bytes)
  /\ TrapReported
  /\ UNCHANGED <<cursor, traceVars>>
  /\ UNCHANGED PrinterVars

\* Fault model: the name offset taken from the start of the buffer.
FrameNameFromBufferStart(b, fs, idx) == CStrFrom(b, I32At(b, fs + 4 * idx))

\* The name of frame function idx: the 32-bit offset in slot idx of the
\* table, read without a bounds check, locates a NUL-terminated name
\* relative to the table's start.
FrameName(b, fs, idx) == CStrFrom(b, fs + I32At(b, fs + 4 * idx))

\* One frame line: func[idx] at its name.
PrintFrame ==
  /\ pc = "frames"
  /\ Len(printed) < Len(frames)
  /\ LET idx == frames[Len(printed) + 1]
     IN  printed' = Append(printed, [idx |-> idx, name |-> FrameName(bytes, fsec, idx)])
  /\ UNCHANGED <<pc, live, deletes, cursor, fsec, frames>>
  /\ UNCHANGED PrinterVars

\* Every frame printed.
FramesDone ==
  /\ pc = "frames"
  /\ Len(printed) = Len(frames)
  /\ TrapReported
  /\ UNCHANGED <<cursor, traceVars>>
  /\ UNCHANGED PrinterVars

\* onyx_run_wasm has returned; the process exits.
Exited == pc = "done" /\ UNCHANGED vars

Next ==
  \/ InitConfig \/ InitEngine \/ InitStore
  \/ CheckMagic \/ ScanSection \/ ScanEnd \/ ReadPath \/ PathsDone
  \/ LoadLibrary \/ NamesDone \/ CreateModule \/ LinkImport \/ Instantiate
  \/ RunStart \/ TraceSection \/ TraceEnd \/ PrintFrame \/ FramesDone
  \/ Exited

\* The loader is one thread that keeps running until it returns.
Spec == Init /\ [][Next]_vars /\ WF_vars(Next)

-----------------------------------------------------------------------------
(* Properties *)

\* Import resolution (link_wasm_imports, spec 4.5 and scenario 3): _start is
\* called only when every import was bound, onyx.memory to the memory and
\* every other import to a definition with its module and name in a loaded
\* library, and to no definition of an earlier library or an earlier entry
\* of the same library.
StartOnlyWithResolvedImports ==
  started =>
    \A i \in 1..Len(Imports) :
      IF Imports[i] = MemoryKey THEN bound[i] = MemoryBinding
      ELSE /\ bound[i] \in Bindings \ {MemoryBinding}
           /\ LET k == bound[i][1]  j == bound[i][2] IN
              /\ k <= Len(linkable) /\ j <= Len(LibDefs[linkable[k]])
              /\ LibDefs[linkable[k]][j] = Imports[i]
              /\ \A k2 \in 1..k - 1 : ~Contains(LibDefs[linkable[k2]], Imports[i])
              /\ \A j2 \in 1..j - 1 : LibDefs[linkable[k]][j2] # Imports[i]

\* Exit status (onyx_run_wasm's return value, spec 4.5): once the loader
\* has returned, it reported success exactly when _start ran and did not
\* trap.
SuccessIffStartRanWithoutTrap ==
  pc = "done" => (result = TRUE <=> started /\ ~trapped)

\* Teardown order (cleanup_wasm_objects, spec 4.5 "in that order"): no
\* object is deleted after the object that owns it was deleted.
OwnedDeletedBeforeOwner ==
  \A i, j \in DOMAIN deletes :
    i < j /\ deletes[j] \in DOMAIN Owner => Owner[deletes[j]] # deletes[i]

\* Every object the loader creates is deleted by the time onyx_run_wasm
\* returns, whatever the outcome (spec 4.5: "Clean up instance, module,
\* store, engine in that order regardless of outcome").
AllReleasedAtExit ==
  pc = "done" => live = {}

\* No WASM object is deleted twice by cleanup_wasm_objects.
NoDoubleDelete ==
  \A o \in Objects : Cardinality({i \in DOMAIN deletes : deletes[i] = o}) <= 1

\* The runtime descriptor (library_load(runtime), spec 4.5: "the only ABI
\* between the loader and host libraries"): the library functions run only
\* inside _start, and _start runs only once onyx_run_initialize got past
\* wasm_store_new and filled in the descriptor, although the libraries are
\* loaded, and handed the descriptor, even after a failed start-up.
LibraryCallsSeeDescriptor ==
  started => descriptor

\* The loader always returns: every path of onyx_run_initialize and
\* onyx_run_wasm reaches the return.
LoaderTerminates == <>(pc = "done")

=============================================================================
