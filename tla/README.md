# TLA+ models of the Onyx compiler core and runtime loader

This directory holds TLA+ models of the parts of the Onyx repository that are
under `src/`. Each model is translated from the C source, and each is checked
with TLC. PROJECT.json lists the components, the runs, the mutants, the map
from definitions to source lines, the findings and the hazards. This README
explains them.

## The system

The natural-language description is `spec.md`. The core has these parts:

| Part | Source | What it does |
|------|--------|--------------|
| C1 symbol resolver | `src/src/onyxsymres.c` | Walks the entities, enters and leaves scopes, binds names, and handles `use package`. |
| C2 type checker | `src/src/onyxchecker.c` | Type-checks each entity in order. It selects overloads, looks up intrinsics, and checks assignments. |
| C3 local collapser | `src/src/onyxsempass.c` | Moves the locals of nested scopes into the function's top scope, breadth first. |
| C4 constant-expression emitter | not in `src/` | Encodes a compile-time value into a buffer. The other parts only see whether it succeeded. |
| C5 reflection emitters | `src/compiler/src/wasm_type_table.h` | Writes the type-info, foreign-block and tagged-procedure tables into data segments and registers patches for them. |
| C6 runtime loader | `src/compiler/src/wasm_runtime.c` | Creates the engine and store, loads host libraries named in a custom section, links imports, instantiates the module, calls `_start`, prints traps, and cleans up. |

The parts run one after another in a single thread: C1, C2, C3, then the
bytecode emitter (which is external and calls C5), then C6 at run time. No
part runs concurrently with another. So the hard cases are not thread
interleavings. They are:

- the order of the steps within a long routine;
- failure paths that return part-way through;
- index and counter arithmetic that must stay in step with the data.

The models aim at those.

## Modules

### WasmLoader / MCWasmLoader (C6: `onyx_run_initialize` and `onyx_run_wasm`)

**State.**
- `pc` is the position in the two functions.
- `ptr` says whether each global wasm pointer is non-NULL.
- `live` is the set of objects that have not been deleted yet.
- `deletes` is the log of deletions.
- `descriptor` says whether the runtime descriptor was filled in.
- `bytes` is the module's byte buffer. `cursor` is the scan's 0-based position in it, and `left` is the count left in the current path or name loop.
- `tried` is the library names handed to `onyx_load_library`, and `linkable` is the libraries that loaded.
- `imp` and `bound` are the import loop and the binding chosen for each import.
- `started`, `trapped` and `result` record the run of `_start` and the return value.
- `fsec`, `frames` and `printed` are the trap printer's: the table's position (`func_name_section`, 0 when not found), the function indices of the trap's frames, and the frame lines printed. The printer's own cursor reuses `cursor`.

**Actions.** There is one action per step of the code:
- `InitConfig`, `InitEngine` and `InitStore` are the three creations. Each can fail, and each failure cleans up and returns void.
- `CheckMagic` checks the `ONYX` magic bytes. On success it overwrites them with `\0asm` and puts the cursor past the 8-byte header.
- `ScanSection`, `ScanEnd`, `ReadPath`, `PathsDone`, `LoadLibrary` and `NamesDone` are `lookup_and_load_custom_libraries`, one action per turn of its loops. They decode real bytes:
  - the uleb128 section ids, sizes, lengths and counts;
  - the `strncmp` name test over the section name's own length;
  - the clamps to 512 and 256;
  - the `strncpy` copy up to the first NUL;
  - the jump to `section_start + section_size`;
  - the `break` after the first library list.
- In `LoadLibrary`, a name that no library has never loads. A listed library may load or fail (`Loads`).
- `CreateModule` is `wasm_module_new`. It fails when there is no store.
- `LinkImport` is one iteration of `link_wasm_imports`. It creates the memory lazily, takes the first matching definition (`FirstMatch`), or returns 0 when nothing matches.
- `Instantiate` creates the instance.
- `RunStart` calls `_start`. Without a trap it cleans up and returns. A trap, with one of the frame lists in `Traces`, goes to `onyx_print_trap`.
- `TraceSection` and `TraceEnd` are the printer's search for `_onyx_func_offsets`. They use the same byte readers and the same prefix `strncmp` as the library scan. Without a table, the printer returns after the message.
- `PrintFrame` prints one frame line. `FrameName` reads the 32-bit offset in slot `idx` of the table, with no bounds check, and then the NUL-terminated name at that offset from the table's start (`I32At`, `CStrFrom`). `FramesDone` and `TraceEnd` end with the cleanup (`TrapReported`).

`cleanup_wasm_objects` deletes each non-NULL global in the code's order and,
like the code, never resets the pointers.

**Inputs.** These are constants:
- `Imports` is the module's import keys, in order.
- `MemoryKey` is `onyx.memory`.
- `Modules` is the set of byte buffers the loader may be given.
- `LibDefs` maps each library's name (as bytes) to its definitions, in order.
- `Traces` is the frame lists a trap may carry: `<<0>>` and `<<1, 0>>`.

`WasmBytes` holds the byte readers: `UlebAt`, `NameIs` (the `strncmp`
semantics, where every prefix of the literal compares equal), `CStrAt`,
`CStrFrom`, `I32At` (little-endian, two's complement) and `Clamp`.

`MCWasmLoader` uses 4 imports, one of which is the memory twice, and 3
libraries with overlapping definitions, so that first-match order matters.
Its buffers are built by a reference encoder (`Encode`) from section lists.
It writes each function-name table as spec 6 gives it (`FuncTable`).
The instance has five modules:
- one with a type section, a function-name table, a library list of four names (one of which is no library) and a code section whose size needs two uleb bytes;
- one with a name section, two library lists, of which the scan must read only the first, and a function-name table behind them, so that the printer must skip both lists;
- one with no list, which never links;
- one with a library list alone, which runs without a table;
- one with the plain `\0asm` magic, which is refused.

### LibraryScan (abstract specification of the scan)

`LibraryScan` states what spec 4.5 promises of the scan. The names of the
`_onyx_libs` section are handed over one at a time, in their order, and the
scan ends once all of them, and no others, have been handed over.
`MCWasmLoader` maps the loader onto it:
- `wanted` is the names the encoder put in the first section named exactly `_onyx_libs`;
- `tried` is the loader's `tried`;
- `scanned` says the scan has ended.

`LibraryScanRefined` checks that the loader implements the abstract scan.

### TypeTable / MCTypeTable (C5.a: `build_type_table`)

**The buffer.** The byte buffer is reduced to the information that decides
every offset:
- its length;
- the locations of the Relative patches;
- the values that `WRITE_PTR` wrote;
- where each named piece of data was put (`facts`);
- the (location, type id) pairs of "any" slices;
- the struct member entries;
- the per-iteration scratch arrays and loop counter.

Names and values are not modelled. Only their lengths, sizes and alignments
are, because those decide the layout.

**Actions.**
- `EmitEntry` is one iteration of the loop over `type_map.entries` for a non-struct type. It uses the operator for that case of the switch.
- A struct is emitted in seven steps of `EmitStructPart`, one per loop of the struct case: names, polymorphic solutions, default values, member tags, member array, tail (parameter array, struct tags, methods, tag entries), and header. No other step can run in between, so together the seven steps are the whole case. The case is split only to keep TLC's evaluation within its stack.
- `Finish` registers the content datum and its Relative patches, the pointer table of `type_count` slots with one Data patch per slot, and the `{0, count}` descriptor with its patch.

**Inputs.** Input types are records whose fields are what the code reads:
- counts, value-name lengths and name lengths;
- for struct members: the default kind (none, runtime, encodable, failing), the value type and the tags;
- polymorphic solutions;
- struct tags and methods;
- for polymorphic-struct tags: whether each is known at compile time.

The constant-expression emitter (C4) is external. Its success or failure is
part of the input.

### MetaTables (C5.b and C5.c: `build_foreign_blocks`, `build_tagged_procedures`)

`MetaTables` extends `TypeTable` and runs the two other emitters after it,
as the bytecode emitter calls them. The three emitters share two things:
- the module's data entries (`segments`), whose ids `NEXT_DATA_ID` hands out in order: 1 to 3 for the type table, 4 to 6 for the foreign table, and 7 to 9 for the procedure table;
- the patch list (`patches`).

Each emitter has its own buffer, abstracted as in `TypeTable`.

**State.**
- `fblocks` and `procs` are the inputs.
- `fidx` and `pidx` are the loop positions.
- `fbuf` and `pbuf` are the buffers.
- `finfo` and `pinfo` are `foreign_info` and `tag_proc_info`, zero until a record is written.
- `pcount` is `proc_count`.
- `counts` is the count word of each `{start, count}` descriptor.

**Actions.**
- `TableStep` is a step of `build_type_table`.
- `EmitForeignBlock` is one block:
  - the function names, with non-function symbols skipped (`ForeignNames`);
  - the function entries, read from the scratch arrays by `funcs_length`;
  - the module name;
  - the record.
- `FinishForeign` registers the three data entries and their patches.
- `SkipProc` is a procedure that `should_emit_function` rejects. It decrements `proc_count`.
- `EmitProc` is one emitted procedure:
  - its tags, each aligned to its type (`ProcTags`);
  - the tag array;
  - the record at `tag_proc_info[index++]`.
- `FinishProcs` registers the three data entries and their patches.
- `Emitted` is the state after all three emitters have returned.

`should_emit_function` is outside `src/`, so it is a flag on each input
procedure. Element indices and package ids are left out, and so are their
words.

### CollapseScopes / MCCollapseScopes (C3: `collapse_scopes`)

**State.**
- `home` is the scope each local was declared in. It is chosen in `Init` and then fixed.
- `fn` is the function being collapsed.
- `queue` is `traversal_queue`.
- `last` and `prev` are the `last_local` and `prev_local` pointer fields that thread each scope's list.

The AST is a constant. It is given as the kind, body, branches and scope of each node.

**Actions.**
- `NextFunction` pushes the next function's body block.
- `VisitIf` replaces an if node by its branches that are present. An else-if is a branch that is itself an if node.
- `VisitBlock` splices the block's scope onto the function scope and pushes the nested blocks, while bodies and if branches of its body. The splice walks to the first local, links it to the function scope's old last local, and clears the nested scope's list. The splice is skipped when the block shares the function's scope or has no locals.

**Inputs.** `MCCollapseScopes` has two functions and thirteen nodes:
- a nested block;
- a while body;
- an if with an else-if;
- a block that reuses the function's own scope.

Each of the three locals may be declared in any of the seven scopes.

### TypeCheckDriver / MCTypeCheckDriver (C2: `onyx_type_check` and the checks it calls)

**State.**
- `ents` and `body` are the entity list and the one function body, both chosen in `Init`.
- `ent` and `st` are the driver's position. `st` is 0 for `check_function`'s prologue, k for the k-th statement, and one past the last statement for the scope check.
- `halted` says the driver returned early.
- `ltype` is each local's `type` field.
- `calls` records what each `check_call` settled: the callee, the argument types, the intrinsic and the outcome.
- `assigns` counts the successful assignments to each local.
- `msgs` is the message log.

**Actions.** There is one action per check the driver makes:
- `CheckFunction`: the parameter checks and the export checks.
- `CheckStatement`: one statement of `check_statement_chain`. A statement is an assignment, a binary operation, a call, a return, an if, a while, a for or a nested block.
- `CheckScope`: `check_block`'s loop over the function scope's symbols.
- `CheckOverloaded`, `CheckGlobal`, `CheckExpression` and `SkipStringLiteral`: the other entity kinds.

Each failure logs one diagnostic and returns from the driver (`Report`), as the code does.

The statement checks are operators that follow the code's order of early returns:
- `CheckBinop` and `Assign` (`check_binaryop`): the const check reads the left type that an earlier assignment may have set, and a raw assignment infers the left type only while it is NULL.
- `CheckCall` and `Settle` (`check_call`): arguments first, then overload resolution (`Match`, the first option that fits), the non-function callee check, the intrinsic lookup (`IntrinsicOf`) and the pairwise parameter walk (`ParamCheck`).
- `CheckExpr` (`check_expression`) works on expression trees. It fills in a local's type from its type expression, checks an operation's operands in order (`CheckList`), and then `ExprOf` applies the rule of the kind: a negation has its operand's type and a cast its target type; address-of takes only an array access or a dereference and yields `PtrTo` of its type; a dereference needs a typed pointer, not `rawptr`; an array access needs a pointer address, then reads the index's type and needs an integer. An untyped index is read through NULL (`onyxchecker.c:426`); the model lets the process die (`Crash`, handled by `Fails`: nothing is logged and the driver stops). A binary operation is checked with its operands as the list of two; `BinopOf` then reads a local left operand's type after both checks, since the node is shared. A comparison is `bool`, any other operation has the left type. Throughout the checker, a sub-check's result is passed to the operator that continues from it (`ListFrom`, `CallFrom`, `ReturnOf`, `OperandsOf`, `BodyFrom`, `ElseFrom`, `ChainFrom`, `BlockEnd`, `StatementDone`, `ExpressionDone`). This mirrors the C's early `return 1` after each sub-check, and names each result once. `type_is_pointer` and `is_lval` are outside `src/`; `IsPtr` and `IsLval` follow the spec (pointer types and `rawptr`; locals, dereferences and array accesses).
- `CheckStmt` (`check_statement`) dispatches on the kind. For if and while, `CheckOperands` checks the condition and requires `bool`; for a for, it checks start, end and step and requires each to be compatible with `i32`. Then the inner statements are checked with `CheckOpt`. A nested block (`CheckBlock`) runs its chain (`CheckChainOf`) and then checks that every local of its own scope (of `Inner`) is typed. `Then` sequences two checks with the code's early return. A statement's result lists the assignments it made, so `assigns` counts the assignments inside nested statements too. Both branches of an if are checked, whatever the condition.

`types_are_compatible` is not in `src/`. The spec calls it a black box, so `Compat` is identity plus a constant set of widenings.

**Inputs.** The program has:
- an overload set `add` of `add_i32` and `add_f32`;
- an intrinsic with a known name and one with an unknown name;
- the exported `main`, with a body;
- an expression entity, a global and a string literal;
- at most one trailing entity that fails its own check (each export error, each parameter error, a nested overload set, a non-function option, an untyped global, an unmatched call).

`main`'s scope has a constant `x`, an untyped `y` and `z : i32`. Nested blocks may declare an untyped `v` and `w : i32`. Its body is one statement from a pool of 41, two statements of which the first passes from the start (a failing first statement would stop the body anyway), or one of four longer bodies that run clean. The pool has an if whose branches both assign the constant, conditions that are not `bool`, a for with an `i64` bound (a widening) and one with an `f32` step, a block whose local is never assigned, and a block nested in a block. It also has assignments through a dereference and an array access of `*i32`, an index that is untyped, a `f32` index, address-of an array access, of a dereference and of a local, a dereference of `rawptr` and of an integer, a cast, a negation, conditions that are comparisons or arithmetic, and a call whose argument is an array access.

### SymRes / MCSymRes (C1: `onyx_resolve_symbols` and its walkers)

**State.**
- `ents` is the entity list, chosen in `Init`. `ent` is the driver's position.
- `st` is everything the walk changes: `cur` (`curr_scope`), `pkg` (`curr_package`), `fn` (`curr_function`), each scope's `parent` and symbols, each function's local list, the `head` and `next` fields of the statement chains, what each symbol node resolved to, `implicit` (the receiver a call's UFCS rewrite prepended as its first argument, or None), the message log, `typed` (the struct types whose `Ast_Flag_Type_Is_Resolved` is set), and `crashed` (a local pushed through a NULL `curr_function`, or a type node of no handled kind).

A scope is named by its owner: "global", a package, its include scope, a function, or a block or for node. The AST is the constant `Ast`.

**Actions.** `ResolveEntity` is one turn of the entity loop: enter the package's scope, run the entity's walker, leave. `Resolved` is the loop's end. The walkers are recursive operators that thread `st`, and they follow the code call for call:
- `Enter` and `Leave` are `scope_enter` and `scope_leave`. Leave goes to the parent, whatever was current before.
- `Statement`, `Chain` and `Block` are `symres_statement`, `symres_statement_chain` and `symres_block`. The chain unlinks each local through the trailer.
- `SymresFunction`, `SymresUsePackage` (with `OnlyList` and `Merge`), `SymresOverloaded` and `SymresCall` are the other walkers.
- `SymresType` is `symres_type`. `WalkOrder` lists the type nodes it visits, in its order: a pointer's or array's element, a function type's return type and then every parameter, and the members of a struct whose resolved flag is not yet set. The flag is set before the members are walked, and a type walked later in the same call sees the flags an earlier one set (`Flagged`). `TypeNode` does one node: its symbol (a name, a field access's receiver, an array's count) is resolved, a field access that did not become a type is reported (`TypeOfField`), and a struct enters `typed`. `SymresLocal` resolves the local's type expression before the push and the introduce. `SymresFunction` resolves each parameter's type, then the function's whole type node (`func->type_node`, a function type whose parameters are those types and whose return type is the declared one). Globals' types and struct entities go through `SymresType` too.
- `Header`, `Bodies`, `Footer` and `Branches` are `symres_if`, `symres_while` and `symres_for`: the condition (or the for's scope, variable, start, end and step if any), then each sub-statement, then a for's `scope_leave`.
- `FieldAccess` is `symres_field_access`: the receiver is resolved, and if it is a package the field is resolved in the package's scope and replaces the access. `Ufcs` is the rest of `symres_call` for a field-access callee that stays in place: the receiver becomes the implicit first argument and the callee is the name resolved in the current scope.

`symbol_introduce`, `symbol_resolve` and `scope_include` live in `onyxutils.c`, outside `src/`. `Introduce`, `Lookup` and `Merge` model them from spec 4.1: a redeclaration is reported, lookup goes innermost first, and the first binding wins.

**Inputs.** Package A has `main(x : i32) -> i32`, `ovl`, the globals `g : T` and `h : proc (i32, S) -> ^T`, and the struct `S :: struct { ^S; [g] bp.T; bp.bfn }`, whose last member names a function, not a type. Package B has `helper`, `bfn` and `T`. The local `y` is `^T`. `main`'s body has locals before and after a for loop `for i in y .. w step i`, whose step uses its own variable, a for variable used after its loop, a call, three calls through field accesses (`bp.bfn(w)` through an alias of B, `y.bfn()` on a local, and `bp.nope()`, a name B lacks), and an if whose block declares a local. `helper` has a while with an empty body and an empty block. An expression in B calls `main`. The entity list is these seven entities in order, preceded by none, one or two of eight use-package variants (a merge, an alias, good and bad only-lists, a missing package, a self-use, and a merge in the other direction), or with one use placed right after `main`.

## Runs

**`wasm_loader`** (pass, 414 states). Over every failure point and the five modules, it checks:
- `StartOnlyWithResolvedImports`: `_start` runs only when every import is bound, the memory to the memory and every other import to its first definition in library load order.
- `SuccessIffStartRanWithoutTrap`: the return value is 1 exactly when `_start` ran and did not trap.
- `OwnedDeletedBeforeOwner`: every deletion comes before the deletion of the object's owner.
- `LibraryCallsSeeDescriptor`: `_start`, the only place library functions run, runs only after the runtime descriptor is filled in. After a failed start-up the libraries are still loaded and handed the unfilled descriptor, but module creation then fails.
- `LibraryScanRefined`: the scan refines `LibraryScan`.
- `TraceSymbolicated` (spec 4.5 and scenario 4): after a trap, the loader prints one line per frame, in order. Each line names the function that the module's table lists for that index. With no table, it prints no frame line. This ties the printer's section search, its table arithmetic and the string read to the encoding of spec 6.
- `LoaderTerminates`: the loader finishes. The run assumes weak fairness, which holds because the program is sequential and every step is taken.

**`loader_leak`** (violation of `AllReleasedAtExit`). Spec 4.5 says the
objects are cleaned up "regardless of outcome". The link-failure return at
`wasm_runtime.c:386` does not clean up, and neither does the bad-magic
return after a successful start-up.

**`loader_double_delete`** (violation of `NoDoubleDelete`). If
`wasm_store_new` fails, cleanup runs and `onyx_run_initialize` returns void.
Then `wasm_module_new` fails on the NULL store and cleanup runs again. The
engine pointer was never reset, so the engine is deleted twice.

**`loader_prefix_section`** (violation of `LibraryScanRefined`). The name
test is `strncmp(data, "_onyx_libs", name_len)` with the section name's own
length (`wasm_runtime.c:137`). So a custom section named `""` or `_onyx`
compares equal and is read as the library list. Its bytes are decoded as
path and name vectors, and the scan breaks before the real list. In TLC's
trace, a section named `_onyx` makes the loader try library `c`, which the
real list does not name. Spec 4.5 and 6 say the libraries come from the
section named `_onyx_libs`. The run uses two modules whose real list follows
such a section.

**`type_table`** (pass, 44604 states, module `MetaTables` via `MCTypeTable`). `PtrSize = 4`. Every type map of 2 or 3
entries is drawn from 9 shapes. Together the shapes cover:
- scalar, array, compound, function, enum and distinct types;
- an anonymous struct whose first member has no default;
- a named struct with type, value and unencodable polymorphic solutions, a failing default, member tags, struct tags and a method;
- a polymorphic struct whose tags are all known at compile time.

The run checks:
- `RecordsPointerAligned`: records with pointers start pointer-aligned.
- `PointersInSegment`: every offset is 0 or lies inside the segment, past the NULL word, and every patch location holds an aligned pointer.
- `MemberEntriesMatch`: each member entry points at that member's own name, default and tags. This catches a counter that falls out of step.
- `TagEntriesMatchData`: each "any" entry's type id is the type of the data it points at.
- `SlotsPointAtRecords`: pointer-table slot `id` is patched to the header of type `id`, and every slot lies inside the table.

Maps of three entries let a struct follow another record, so its alignment
depends on what came before.

The same run then emits the foreign blocks and tagged procedures. The inputs
are:
- either no foreign block, or two blocks, the first with a non-function symbol before two functions;
- either three procedures (one with a 4-byte and then an 8-byte tag, one rejected, one without tags) or a single rejected procedure.

It checks:
- `ForeignEntriesMatch`: each foreign function entry points at the name of the block's j-th function and carries that function's type id.
- `ProcTagEntriesMatch`: each tag entry sits at its place in the procedure's tag array and points at its own tag's encoded bytes, with that tag's type id.
- `SlotsPointAtMetaRecords`: slot i of the foreign and procedure tables is patched to the i-th block's or emitted procedure's record, and each descriptor's count equals its number of records.
- `PatchesInSegments`: across all three emitters, every patch lies in a registered segment. Its location holds a whole pointer inside the target segment, and a Data patch's offset lies inside its source, or is the start of an empty table.
- `MetaTypeOK`: each table is registered only after its loop has ended.

**`type_table_ptr8`** (violation of `RecordsPointerAligned`). With
`POINTER_SIZE` 8, the Function record starts right after its 4-byte
parameter ids (`wasm_type_table.h:136`), with no alignment to 8.

**`type_table_poly_tags`** (violation of `TagEntriesMatchData`). When a
polymorphic-struct tag is not known at compile time, it is skipped.
`tag_locations` is compacted to close the gap, but the type ids are still
read at the uncompacted index (`wasm_type_table.h:509`).

**`collapse_scopes`** (pass, 4116 states). It checks:
- `LocalsPartitioned`: after every step, each local is on exactly one scope's list and no list has a cycle.
- `CollapsedAtEnd`: at the end, every local declared in a function's body is on that function scope's list, and every nested scope's list is empty (spec 4.3).

**`type_check`** (pass, 54926 states). It checks:
- `ConstAssignedOnce`: a constant is assigned successfully at most once.
- `LocalTypeStable`: an action property. A local's type never changes once it is set.
- `CleanRunTyped`: spec 8. A run with no diagnostic leaves every local typed, those of nested blocks included, and every call settled on a function with typed arguments.

**`type_check_unused_typed_local`** (violation of
`ScopeReportsOnlyUntypeable`). A local with a type expression gets its type
only through `fill_in_type` in `check_expression`. `check_block` reads the
scope's types without filling them (`onyxchecker.c:568`), so a typed local that
is never used is reported as unresolved.

**`symbol_resolution`** (pass, 792 states). It checks:
- `LocalsOfFunction`: each walked function's local list holds the locals and for variables of its body, once each, in declaration order.
- `ChainsWithoutLocals`: each block's chain is the original chain minus its locals, and every unlinked local's `next` is NULL.
- `BindingsInOwnScope`: a parameter, local or for variable is bound only in the scope of the function, block or for that declares it.
- `UsesSeeEnclosingDecls`: a symbol resolves to a parameter or local only if the declaration lies in an enclosing scope and comes earlier in the walk.
- `QualifiedCalls` (spec 4.1): in a walked function, a call `a.f(...)` whose receiver resolved to a package that declares `f` calls that declaration and gets no implicit argument. A call whose receiver is a value gets the value as its implicit first argument. A rewritten call's callee is resolved, or its name is reported. The callee is compared only with what the walk fixes, because a use-package that comes later changes what the current scope sees.
- `TypeNamesResolvedOrReported` (spec 4.1): after an entity is walked, every symbol in its type expressions is resolved or its name reported. This covers pointers, arrays, struct members, and a function type's return and parameter types. A struct skipped because an earlier entity set its resolved flag must already have had its members walked.
- `TypeFieldsAreTypes` (spec 4.1): a package-qualified name in a walked type expression ends as a type declaration of the package its receiver names, or the walk reports that it did not result in a type.
- `TypeOK`, which also says `curr_scope` is never NULL.

A use-package only-list whose first name is missing also returns at that name
(`onyxsymres.c:385`), leaving the later names unbound and unreported. The model
has this behaviour, and the instance reaches it; it is kept as a hazard in
PROJECT.json rather than as a run.

## Mutants

Each property of a passing run has a mutant in PROJECT.json. The mutant is an
operator labelled "Fault model" in the module. It changes one mapped
definition the way a plausible bug would:
- a dropped alignment;
- a location taken before aligning;
- a skip path that forgets `i++`;
- the missing NULL word;
- `table_info` taken at the start of the data;
- a first-match off by one;
- a missing-import check dropped;
- a cleanup order reversed;
- a module created without a store;
- a trap ignored;
- a frame name read from the start of the buffer instead of the table;
- a splice that does not clear the nested list, or does not walk to the first local;
- a while body not pushed, or NULL branches pushed;
- a const check dropped;
- a raw assignment that always retypes;
- a scope check dropped, for the function or for a nested block;
- a driver that logs but does not return;
- a chain that does not unlink a local, or clears `next` before reading it;
- a block that is never left, or entered only when its body is non-empty but always left;
- parameters introduced before the function's scope is entered;
- a package-qualified field looked up in the current scope instead of the package's;
- a field access in a type accepted as a type whenever it resolved to anything;
- a function type's parameter loop that stops one short;
- a library scan that goes on after the first list instead of breaking;
- foreign names indexed by the symbol index instead of `funcs_length`;
- a tag offset taken before aligning;
- a skipped procedure that does not decrement `proc_count`;
- a pointer table whose length is given in slots;
- a foreign table registered before its loop ends.

Under the run's own configuration, TLC finds each mutant's property violated.

## Bounds and fairness

Each bound is chosen so that the cases named above happen:
- The scan needs a section of each kind: a skipped section before the list, a size of two uleb bytes, a list with a path, a name that is no library, and a second list after the first. The printer needs a table first among the custom sections, a table behind other custom sections, and a module that runs without one; a two-frame trace reads two slots of the table. The five modules give all of them.
- The loader needs imports that end up with no definition, and imports defined by two libraries. In `MCWasmLoader`, `k1` and `k2` are each defined by two of the three libraries. Each library independently loads or not, so an import is missing exactly when every library that defines it failed to load.
- The table needs three entries, so that an emitter's alignment depends on the record before it.
- Each shape is there to drive a skip path of a counter.

The C3 bound of 13 nodes gives every kind of node the walker pushes, and a
scope shared between two blocks. The C2 pool gives every early return of
`check_binaryop`, `check_call`, `check_return`, `check_if`, `check_while`, `check_for` and `check_block`. Bodies of two statements let
one statement depend on another: an assignment types a local that a later
statement uses, or a constant is assigned twice.

The C1 instance has two packages, so a use-package can merge, alias, list
names, or miss. Its bodies nest a block in a for and in an if, and they have
empty blocks, which exercise every enter and leave pair. Its types have every
kind of type node; a function type with two parameters, whose last parameter
names the struct, so a walk that stops one parameter short leaves a name
unresolved and unreported; and a struct that points to itself and is reached both as
an entity and through a pointer, so the resolved flag stops the walk. Up to two
use-packages come before the other entities, in either direction, or one comes
after `main`. This lets the entity order matter.

Only `WasmLoader` states a liveness property. Its weak fairness stands for the
fact that a sequential program keeps running. `TypeTable`'s loop is bounded by
the length of the map, so it states none.

## Not modelled (yet)

These are listed in PROJECT.json with the reason:
- C1's unary, binary, array-access and size_of expressions. Their walks only resolve the symbols below them in the current scope, which the modelled symbol uses already cover. The stale `curr_function` is modelled, but no entity in the instance reaches it;
- C2's parameters and globals as operands, and a type node used as an expression (the instance's body has no parameters); break and continue, which have no check;
- C2's foreign counters, whose mask (`Ast_Kind_Foreign`, used where `Ast_Flag_Foreign` is meant) is defined outside `src/`;
- C5.c's unchecked `emit_constexpr` result and the layout with 8-byte pointers (hazards with notes);
- the loader's export lookup (`wasm_extern_lookup_by_name`), which goes through the engine's export list. A module without `_start` makes the process die inside the engine (hazard at `wasm_runtime.c:407`). The trap message and the frames' module offsets are output only. A frame index past the table reads out of bounds (hazard at `:214`); the instances' traps carry only indices that the table covers, as spec 6 says it has one entry per function;
- the scan's behaviour on names longer than the clamps, and on sizes that overflow the `i32` cursor. Only a corrupt file has them, and what follows is memory corruption.

C4, the parser, the bytecode emitter, the CLI and the WASM engine are not in
the sources.

## Plan

The modules are written in this order. The parts communicate only through
the AST or through the data entries and patch list. So each module stands
alone, except for the three reflection emitters, which are composed.

1. `WasmLoader` (done).
2. `TypeTable` (done).
3. `CollapseScopes` (C3) (done).
4. `TypeCheckDriver` (C2) (done), with if, while, for and nested blocks.
5. `SymRes` (C1) (done), with field access, UFCS and the type walk. Open: an expression entity with a local, to reach the stale `curr_function`; the parser would have to say whether it can produce one.
6. The custom-section scan (C6), inside `WasmLoader` with `WasmBytes` and the `LibraryScan` refinement (done), and the trap printer (done).
7. `MetaTables` (C5.b and C5.c), composed after `TypeTable` (done).
