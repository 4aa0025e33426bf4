------------------------------ MODULE TypeTable ------------------------------
(***************************************************************************)
(* The type-info table emitter, build_type_table in                        *)
(* src/compiler/src/wasm_type_table.h.                                     *)
(*                                                                         *)
(* The byte buffer is abstracted to its length and to what the layout      *)
(* properties need: the locations of the Relative patches (PATCH), the     *)
(* values written by WRITE_PTR, the places where named pieces of data      *)
(* were put (facts), and the entries that pair a pointer with what it     *)
(* should point at.  Names, kinds, sizes and values are left out; their   *)
(* lengths and alignments are kept, since they decide every offset.       *)
(***************************************************************************)
EXTENDS Naturals, Sequences, FiniteSets, TLC

CONSTANTS
  PtrSize,   \* POINTER_SIZE, 4 or 8
  TypeMaps   \* the type maps the emitter may be given (sequences of types;
             \* the type at position i has id i)

ASSUME PtrSize \in {4, 8}

VARIABLES
  types,       \* type_map.entries, chosen from TypeMaps
  idx,         \* the index of the next entry to emit
  buf,         \* table_buffer, abstracted (see EmptyBuffer)
  tableInfo,   \* table_info[id]: the offset of type id's record
  segments,    \* the data entries registered: id |-> length
  patches,     \* module->data_patches added by this emitter
  part         \* in the struct case, the number of its loops done

vars == <<types, idx, buf, tableInfo, segments, patches, part>>

\* u32 type_count = bh_arr_length(type_map.entries) + 1
TypeCount == Len(types) + 1

\* Left folds over a sequence and over its indices.  (The folds of
\* SequencesExt go through a recursive function over SUBSET of the domain,
\* whose nesting here exceeds TLC's stack.)
RECURSIVE FoldIdx(_, _, _, _)
FoldIdx(op(_, _), acc, n, k) ==
  IF k > n THEN acc ELSE FoldIdx(op, op(acc, k), n, k + 1)

FoldIndices(op(_, _), base, seq) == FoldIdx(op, base, Len(seq), 1)
FoldElems(op(_, _), base, seq) ==
  FoldIdx(LAMBDA a, k : op(a, seq[k]), base, Len(seq), 1)

\* bh_buffer_align
Align(n, a) == ((n + a - 1) \div a) * a

\* The buffer: its length, the Relative patch locations, the pointers
\* written (<<location, value>>), where named data was put
\* (<<key, location>>), the (pointer, type id) pairs of "any" slices, the
\* struct member entries written, and the emitter's scratch arrays (arr)
\* and loop counter (i).
NoArrays == [x \in {} |-> <<>>]

EmptyBuffer == [len |-> 0, rel |-> {}, ptrs |-> {}, facts |-> {},
                anys |-> {}, members |-> {}, arr |-> NoArrays, i |-> 1]

Pad(b, a) == [b EXCEPT !.len = Align(@, a)]
Put(b, n) == [b EXCEPT !.len = @ + n]
Mark(b, key) == [b EXCEPT !.facts = @ \cup {<<key, b.len>>}]
At(b, key) == CHOOSE o \in {f[2] : f \in b.facts} : <<key, o>> \in b.facts
Has(b, key) == \E f \in b.facts : f[1] = key
SetArr(b, name, s) == [b EXCEPT !.arr = (name :> s) @@ @]
SetAt(b, name, k, v) == [b EXCEPT !.arr[name][k] = v]

\* WRITE_PTR: align to the pointer size, record the patch, write the value.
WritePtr(b, v) ==
  LET at == Align(b.len, PtrSize)
  IN  [b EXCEPT !.len = at + PtrSize, !.rel = @ \cup {at},
                !.ptrs = @ \cup {<<at, v>>}]

\* WRITE_SLICE: a pointer followed by a pointer-sized count.
WriteSlice(b, v) == Put(WritePtr(b, v), PtrSize)

\* WRITE_SLICE(location, type id) of an "any": also recorded as an entry.
WriteAny(b, v, ty) == [WriteSlice(b, v) EXCEPT !.anys = @ \cup {<<v, ty>>}]

\* A compile-time value of type ty encoded at the (aligned) end.
Encode(b, ty) ==
  LET a == Pad(b, ty.align) IN Put(Mark(a, <<"data", ty.id>>), ty.size)

\* Fault model: the location taken before aligning to the value's type.
EncodeIntoBeforeAlign(b, name, ty) ==
  SetArr(Encode(b, ty), name, Append(b.arr[name], b.len))

\* Encode, also appending the data's location to the scratch array name.
EncodeInto(b, name, ty) ==
  SetArr(Encode(b, ty), name, Append(b.arr[name], Align(b.len, ty.align)))

\* The four u32 words kind, size, alignment and one more.
Header(b, id) == Put(Mark(b, <<"hdr", id>>), 16)

-----------------------------------------------------------------------------
(* One case of the switch on type->kind.  Each returns the buffer after   *)
(* the record of type t with id id; the record starts at <<"hdr", id>>.   *)

\* Basic, Pointer, Slice, DynArray, VarArgs: four u32 words; Array: five.
EmitScalar(b, id, t) ==
  Put(Header(b, id), IF t.kind = "Array" THEN 4 ELSE 0)

\* Compound: the component ids, align 8, header (3 words), slice.
EmitCompound(b, id, t) ==
  LET b1 == Mark(b, <<"elems", id>>)
      b2 == Pad(Put(b1, 4 * t.count), 8)
      b3 == Put(Mark(b2, <<"hdr", id>>), 12)
  IN  WriteSlice(b3, At(b1, <<"elems", id>>))

\* Function: the parameter ids, header (4 words), slice, vararg flag.
EmitFunction(b, id, t) ==
  LET b1 == Mark(b, <<"elems", id>>)
      b2 == Header(Put(b1, 4 * t.count), id)
  IN  Put(WriteSlice(b2, At(b1, <<"elems", id>>)), 4)

\* Fault model: no align 8 between the enum name and its header.
EmitEnumNoAlign(b, id, t) ==
  LET b1 == FoldIndices(LAMBDA a, i : Put(Mark(a, <<"vname", id, i>>),
                                          t.values[i]), b, t.values)
      b2 == Mark(Pad(b1, 8), <<"vals", id>>)
      b3 == FoldIndices(LAMBDA a, i :
               Put(WriteSlice(Pad(a, 8), At(a, <<"vname", id, i>>)), 8),
               b2, t.values)
      b4 == Put(Mark(b3, <<"name", id>>), t.name)
      b5 == WriteSlice(Header(b4, id), At(b4, <<"name", id>>))
  IN  Put(WriteSlice(b5, At(b5, <<"vals", id>>)), 4)

\* Enum: the value names, align 8, the value entries {name slice, u64},
\* the enum name, align 8, header, name slice, values slice, flags word.
EmitEnum(b, id, t) ==
  LET n == Len(t.values)
      b1 == FoldIndices(LAMBDA a, i : Put(Mark(a, <<"vname", id, i>>),
                                             t.values[i]), b, t.values)
      b2 == Mark(Pad(b1, 8), <<"vals", id>>)
      b3 == FoldIndices(LAMBDA a, i :
               Put(WriteSlice(Pad(a, 8), At(a, <<"vname", id, i>>)), 8),
               b2, t.values)
      b4 == Pad(Put(Mark(b3, <<"name", id>>), t.name), 8)
      b5 == WriteSlice(Header(b4, id), At(b4, <<"name", id>>))
  IN  Put(WriteSlice(b5, At(b5, <<"vals", id>>)), 4)

\* Distinct: the name, align 8, header, name slice.
EmitDistinct(b, id, t) ==
  LET b1 == Pad(Put(Mark(b, <<"name", id>>), t.name), 8)
  IN  WriteSlice(Header(b1, id), At(b1, <<"name", id>>))

\* PolyStruct: the name, the compile-time tags (tag_locations[i] for the
\* i-th kept tag; a tag that is not compile-time known is skipped and
\* tags_count decremented), align 8, the tag entries
\* WRITE_SLICE(tag_locations[i], meta_tags[i]->type->id) for i below
\* tags_count, align 8, header (kind, 0, 0), name slice, tags slice.
EmitPolyStruct(b, id, t) ==
  LET b1 == Put(Mark(SetArr(b, "tag", <<>>), <<"name", id>>), t.name)
      b2 == FoldElems(LAMBDA a, g : IF g.comptime THEN EncodeInto(a, "tag", g.ty)
                                   ELSE a, b1, t.tags)
      tagsCount == Len(t.tags) - Cardinality({k \in DOMAIN t.tags : ~t.tags[k].comptime})
      b3 == Mark(Pad(b2, 8), <<"tags", id>>)
      b4 == FoldIndices(LAMBDA a, k : WriteAny(a, b2.arr["tag"][k], t.tags[k].ty.id),
                           b3, SubSeq(t.tags, 1, tagsCount))
      b5 == Put(Mark(Pad(b4, 8), <<"hdr", id>>), 12)
  IN  WriteSlice(WriteSlice(b5, At(b5, <<"name", id>>)), At(b5, <<"tags", id>>))

\* Struct, member names: name_locations[i] is where member i's name goes.
StructNames(b, id, t) ==
  Pad(FoldIndices(LAMBDA a, k :
        Put(Mark(SetArr(a, "name", Append(a.arr["name"], a.len)),
                 <<"mname", id, k>>), t.members[k].name),
        SetArr(b, "name", <<>>), t.members), 8)

\* Struct, polymorphic solutions: a type solution is its 4-byte id, a
\* value solution its encoded value; a value that cannot be encoded leaves
\* param_locations[i] at 0.
StructPoly(b, id, t) ==
  Pad(FoldElems(LAMBDA a, p :
        LET c == Pad(a, 8) IN
        IF p.kind = "fail" THEN SetArr(c, "param", Append(c.arr["param"], 0))
        ELSE Put(SetArr(c, "param", Append(c.arr["param"], c.len)),
                 IF p.kind = "type" THEN 4 ELSE p.ty.size),
        SetArr(b, "param", <<>>), t.poly), 8)

\* Fault model: a skipped member does not advance the counter i.
StructDefaultsNoSkipIncrement(b, id, t) ==
  FoldIndices(LAMBDA a, k :
    LET m == t.members[k] IN
    IF m.def \in {"none", "runtime"} THEN a
    ELSE LET c == Pad(a, m.dty.align) IN
         IF m.def = "fail" THEN [SetAt(c, "value", c.i, 0) EXCEPT !.i = @ + 1]
         ELSE [Put(Mark(SetAt(c, "value", c.i, c.len), <<"mdef", id, k>>),
                   m.dty.size) EXCEPT !.i = @ + 1],
    [SetArr(b, "value", [k \in DOMAIN t.members |-> 0]) EXCEPT !.i = 1],
    t.members)

\* Struct, member default values, with the code's counter i: a member
\* without an initial value or with one not known at compile time is
\* skipped (i++); otherwise the buffer is aligned to the value's type and
\* value_locations[i++] is where it was encoded, or 0 if encoding failed.
StructDefaults(b, id, t) ==
  FoldIndices(LAMBDA a, k :
    LET m == t.members[k] IN
    IF m.def \in {"none", "runtime"} THEN [a EXCEPT !.i = @ + 1]
    ELSE LET c == Pad(a, m.dty.align) IN
         IF m.def = "fail" THEN [SetAt(c, "value", c.i, 0) EXCEPT !.i = @ + 1]
         ELSE [Put(Mark(SetAt(c, "value", c.i, c.len), <<"mdef", id, k>>),
                   m.dty.size) EXCEPT !.i = @ + 1],
    [SetArr(b, "value", [k \in DOMAIN t.members |-> 0]) EXCEPT !.i = 1],
    t.members)

\* Struct, member tags, with the counter i: a member without tags is
\* skipped (i += 1); otherwise its tags are encoded, the buffer aligned to
\* 8, meta_locations[i] set, and one "any" entry written per tag.
StructMemberTags(b, id, t) ==
  FoldIndices(LAMBDA a, k :
    LET m == t.members[k] IN
    IF m.tags = <<>> THEN [a EXCEPT !.i = @ + 1]
    ELSE LET c == FoldElems(LAMBDA x, ty : EncodeInto(x, "mtag", ty),
                           SetArr(a, "mtag", <<>>), m.tags)
             d == Mark(SetAt(Pad(c, 8), "meta", c.i, Align(c.len, 8)),
                       <<"mmeta", id, k>>)
         IN  [FoldIndices(LAMBDA x, j : WriteAny(x, c.arr["mtag"][j], m.tags[j].id),
                             d, m.tags) EXCEPT !.i = @ + 1],
    [SetArr(b, "meta", [k \in DOMAIN t.members |-> 0]) EXCEPT !.i = 1],
    t.members)

\* Struct, the member array: per member {name slice, offset, type id, used
\* byte, default-value pointer, tags slice}, read from the scratch arrays
\* at the member's index.
StructMembers(b, id, t) ==
  FoldIndices(LAMBDA a, k :
    LET nv == a.arr["name"][k]  dv == a.arr["value"][k]  mv == a.arr["meta"][k]
        c == WriteSlice(WritePtr(Put(WriteSlice(a, nv), 9), dv), mv)
    IN  [c EXCEPT !.members = @ \cup {<<id, k, nv, dv, mv>>}],
    Mark(Pad(b, 8), <<"members", id>>), t.members)

\* Struct, the polymorphic-solution array {pointer, type id}, then the
\* struct tags encoded (struct_tag_locations), then the methods: each
\* method name, align 4, its function index (data_loc); align 4, the
\* method entries {name slice, data pointer, type id}; align 8, the struct
\* tag entries.
StructTail(b, id, t) ==
  LET b1 == FoldElems(LAMBDA a, v : Put(WritePtr(a, v), 4),
                     Mark(Pad(b, 8), <<"params", id>>), b.arr["param"])
      b2 == FoldElems(LAMBDA a, ty : EncodeInto(a, "stag", ty),
                     SetArr(b1, "stag", <<>>), t.tags)
      b3 == FoldIndices(LAMBDA a, k :
              LET c == Put(Mark(a, <<"meth", id, k>>), t.methods[k])
              IN  Put(Mark(Pad(c, 4), <<"mdata", id, k>>), 4),
              b2, t.methods)
      b4 == FoldIndices(LAMBDA a, k :
              Put(WritePtr(WriteSlice(a, At(b3, <<"meth", id, k>>)),
                           At(b3, <<"mdata", id, k>>)), 4),
              Mark(Pad(b3, 4), <<"methods", id>>), t.methods)
  IN  FoldIndices(LAMBDA a, k : WriteAny(a, b4.arr["stag"][k], t.tags[k].id),
                     Mark(Pad(b4, 8), <<"stags", id>>), t.tags)

\* Struct, the name (absent for an anonymous struct: slice 0, 0), align 8,
\* header (kind, size, alignment, constructed_from), five slices.
StructHeader(b, id, t) ==
  LET b1 == IF t.name = 0 THEN b ELSE Put(Mark(b, <<"name", id>>), t.name)
      nameBase == IF t.name = 0 THEN 0 ELSE At(b1, <<"name", id>>)
      b2 == Header(Pad(b1, 8), id)
  IN  FoldElems(LAMBDA a, v : WriteSlice(a, v), b2,
               <<nameBase, At(b2, <<"members", id>>), At(b2, <<"params", id>>),
                 At(b2, <<"stags", id>>), At(b2, <<"methods", id>>)>>)

\* The struct case, one loop of it at a time (n = 1 .. StructParts).
StructParts == 7

StructPart(n, b, id, t) ==
  CASE n = 1 -> StructNames(b, id, t)
    [] n = 2 -> StructPoly(b, id, t)
    [] n = 3 -> StructDefaults(b, id, t)
    [] n = 4 -> StructMemberTags(b, id, t)
    [] n = 5 -> StructMembers(b, id, t)
    [] n = 6 -> StructTail(b, id, t)
    [] n = 7 -> StructHeader(b, id, t)

\* The switch on type->kind, but for Struct (StructPart).
EmitRecord(b, id, t) ==
  CASE t.kind \in {"Basic", "Pointer", "Array", "Slice", "DynArray", "VarArgs"}
         -> EmitScalar(b, id, t)
    [] t.kind = "Compound"   -> EmitCompound(b, id, t)
    [] t.kind = "Function"   -> EmitFunction(b, id, t)
    [] t.kind = "Enum"       -> EmitEnum(b, id, t)
    [] t.kind = "PolyStruct" -> EmitPolyStruct(b, id, t)
    [] t.kind = "Distinct"   -> EmitDistinct(b, id, t)

-----------------------------------------------------------------------------
(* The emitter as a state machine: one step per type_map entry, then the  *)
(* step that registers the three data entries and their patches.          *)

\* Fault model: no leading NULL word.
InitialBufferNoNull == EmptyBuffer

\* bh_buffer_write_u64(&table_buffer, 0): the leading NULL word.
InitialBuffer == Put(EmptyBuffer, 8)

\* The segments, by the data id they are registered under.
InfoData   == 1   \* type_info_data (content)
TableData  == 2   \* type_table_data (pointer table)
GlobalData == 3   \* type_table_global_data ({start, count})

Init ==
  /\ types \in TypeMaps
  /\ idx = 1
  /\ buf = InitialBuffer
  /\ tableInfo = [k \in 0 .. TypeCount - 1 |-> 0]
  /\ segments = <<>>
  /\ patches = {}
  /\ part = 0

\* Fault model: table_info[type_idx] taken where the type's data begins,
\* not where its header does.
EntryDoneAtDataStart(nb) ==
  /\ buf' = [nb EXCEPT !.arr = NoArrays, !.i = 1]
  /\ tableInfo' = [tableInfo EXCEPT ![idx] = buf.len]
  /\ idx' = idx + 1
  /\ part' = 0

\* The end of one iteration of bh_arr_each over type_map.entries: the
\* record nb of the entry's type is written, table_info[type_idx] holds
\* where its header starts.  The scratch arrays are per-iteration
\* (global_scratch_allocator).
EntryDone(nb) ==
  /\ buf' = [nb EXCEPT !.arr = NoArrays, !.i = 1]
  /\ tableInfo' = [tableInfo EXCEPT ![idx] = At(nb, <<"hdr", idx>>)]
  /\ idx' = idx + 1
  /\ part' = 0

\* One iteration for a type other than a struct.
EmitEntry ==
  /\ idx <= Len(types)
  /\ types[idx].kind # "Struct"
  /\ EntryDone(EmitRecord(buf, idx, types[idx]))
  /\ UNCHANGED <<types, segments, patches>>

\* Fault model: the loop over the struct's parts runs one part too far.
EmitStructPartPastEnd ==
  /\ idx <= Len(types)
  /\ types[idx].kind = "Struct"
  /\ LET nb == StructPart(part + 1, buf, idx, types[idx])
     IN  \/ /\ part + 1 <= StructParts
            /\ buf' = nb
            /\ part' = part + 1
            /\ UNCHANGED <<idx, tableInfo>>
         \/ /\ part + 1 = StructParts
            /\ EntryDone(nb)
  /\ UNCHANGED <<types, segments, patches>>

\* One loop of the struct case; the iteration ends with the header.
EmitStructPart ==
  /\ idx <= Len(types)
  /\ types[idx].kind = "Struct"
  /\ LET nb == StructPart(part + 1, buf, idx, types[idx])
     IN  \/ /\ part + 1 < StructParts
            /\ buf' = nb
            /\ part' = part + 1
            /\ UNCHANGED <<idx, tableInfo>>
         \/ /\ part + 1 = StructParts
            /\ EntryDone(nb)
  /\ UNCHANGED <<types, segments, patches>>

\* After the loop: the content datum and a Relative patch per PATCH
\* location, the pointer table of type_count slots and a Data patch per
\* slot, the {0, type_count} descriptor and its Data patch to the table.
Finish ==
  /\ idx > Len(types)
  /\ segments = <<>>
  /\ segments' = <<buf.len, TypeCount * PtrSize, 2 * PtrSize>>
  /\ patches' =
       {[kind |-> "Relative", data |-> InfoData, offset |-> 0,
         index |-> InfoData, location |-> l] : l \in buf.rel}
       \cup {[kind |-> "Data", data |-> InfoData, offset |-> tableInfo[k],
              index |-> TableData, location |-> k * PtrSize] : k \in 0 .. TypeCount - 1}
       \cup {[kind |-> "Data", data |-> TableData, offset |-> 0,
              index |-> GlobalData, location |-> 0]}
  /\ UNCHANGED <<types, idx, buf, tableInfo, part>>

\* build_type_table has returned.
Returned ==
  /\ segments # <<>>
  /\ UNCHANGED vars

Next == EmitEntry \/ EmitStructPart \/ Finish \/ Returned

Spec == Init /\ [][Next]_vars

-----------------------------------------------------------------------------
(* Properties.                                                             *)

TypeOK ==
  /\ idx \in 1 .. Len(types) + 1
  /\ buf.len \in Nat
  /\ \A l \in buf.rel : l \in Nat
  /\ DOMAIN tableInfo = 0 .. TypeCount - 1
  /\ \A k \in DOMAIN tableInfo : tableInfo[k] \in Nat
  /\ Len(segments) % 3 = 0
  /\ part \in 0 .. StructParts - 1

\* The kinds whose runtime Type_Info record holds a pointer (a slice).
PointerKinds == {"Compound", "Function", "Enum", "Struct", "PolyStruct", "Distinct"}

\* Every emitted record holding a pointer starts at a multiple of
\* POINTER_SIZE.  WRITE_PTR pads to POINTER_SIZE relative to the buffer,
\* the runtime structure pads relative to the record: the two agree only
\* when the record is aligned, as the align-8 before most headers ensures.
RecordsPointerAligned ==
  \A k \in 1 .. idx - 1 :
    types[k].kind \in PointerKinds => tableInfo[k] % PtrSize = 0

\* Every offset written by WRITE_PTR lies in the content segment and is not
\* in the leading NULL word unless it is the absent value 0, and every
\* Relative patch location holds a whole aligned pointer inside the buffer.
PointersInSegment ==
  /\ \A p \in buf.ptrs : p[2] = 0 \/ (8 <= p[2] /\ p[2] < buf.len)
  /\ \A l \in buf.rel : l % PtrSize = 0 /\ 8 <= l /\ l + PtrSize <= buf.len

\* Each struct member entry points at that member's own name, at its own
\* default value (or 0 when it has none or it could not be encoded), and at
\* its own tag array (or 0): the scratch arrays indexed by the loop
\* counters stay in step with the members.
MemberEntriesMatch ==
  \A e \in buf.members :
    LET id == e[1]  k == e[2] IN
    /\ e[3] = At(buf, <<"mname", id, k>>)
    /\ e[4] = IF Has(buf, <<"mdef", id, k>>) THEN At(buf, <<"mdef", id, k>>) ELSE 0
    /\ e[5] = IF Has(buf, <<"mmeta", id, k>>) THEN At(buf, <<"mmeta", id, k>>) ELSE 0

\* Every "any" entry (tag location, type id) points at data encoded for a
\* value of that type: a reader that casts the tag to its type id reads
\* the tag's own bytes.
TagEntriesMatchData ==
  \A a \in buf.anys : <<<<"data", a[2]>>, a[1]>> \in buf.facts

\* Once the table is registered, pointer-table slot id of every type in the
\* map is patched to that type's record, every slot lies in the table
\* segment, and the descriptor points at slot 0.
SlotsPointAtRecords ==
  segments # <<>> =>
    /\ \A k \in 1 .. Len(types) :
         \E p \in patches : /\ p.kind = "Data" /\ p.index = TableData
                            /\ p.location = k * PtrSize
                            /\ p.offset = At(buf, <<"hdr", k>>)
    /\ \A p \in patches : p.index = TableData =>
                            p.location + PtrSize <= segments[TableData]

=============================================================================
