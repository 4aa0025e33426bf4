----------------------------- MODULE MetaTables -----------------------------
(***************************************************************************)
(* The foreign-block and tagged-procedure table emitters,                  *)
(* build_foreign_blocks and build_tagged_procedures in                     *)
(* src/compiler/src/wasm_type_table.h, composed after build_type_table.   *)
(* The three emitters share the module's data entries (segments, whose    *)
(* ids NEXT_DATA_ID hands out in order) and its patch list (patches).     *)
(* Each buffer is abstracted as TypeTable's is.                           *)
(***************************************************************************)
EXTENDS TypeTable

CONSTANTS
  ForeignInputs,  \* the module->foreign_blocks the emitter may be given
  ProcInputs      \* the module->procedures_with_tags it may be given

VARIABLES
  fblocks,   \* module->foreign_blocks: each a module name length and the
             \* block scope's symbols [fn, name, ty] in the scope's order
  fidx,      \* the index of the next foreign block
  fbuf,      \* foreign_buffer
  finfo,     \* foreign_info[block_count]: each block's record, 0 if unset
  procs,     \* module->procedures_with_tags: [emit, ty, tags]
  pidx,      \* the index of the next procedure
  pbuf,      \* tag_proc_buffer
  pinfo,     \* tag_proc_info[proc_count at entry]: records, 0 if unset
  pcount,    \* proc_count
  counts     \* the count word of each {start, count} descriptor written

metaVars == <<fblocks, fidx, fbuf, finfo, procs, pidx, pbuf, pinfo, pcount,
              counts>>

allVars == <<vars, metaVars>>

\* NEXT_DATA_ID(module): the id the next data entry will be given.
NextDataId == Len(segments) + 1


MetaInit ==
  /\ Init
  /\ fblocks \in ForeignInputs
  /\ procs \in ProcInputs
  /\ fidx = 1 /\ fbuf = InitialBuffer /\ finfo = [k \in DOMAIN fblocks |-> 0]
  /\ pidx = 1 /\ pbuf = InitialBuffer /\ pinfo = [k \in DOMAIN procs |-> 0]
  /\ pcount = Len(procs)
  /\ counts = <<>>

\* A step of build_type_table.
TableStep == Next /\ UNCHANGED metaVars

-----------------------------------------------------------------------------
(* build_foreign_blocks                                                    *)

\* The indices of the block's symbols that are functions, in order.
Funcs(blk) == SelectSeq([k \in DOMAIN blk.syms |-> k],
                        LAMBDA k : blk.syms[k].fn)

\* Fault model: name_offsets indexed by the symbol's index i, not by
\* funcs_length.
ForeignNamesAtSymbolIndex(b, n, blk) ==
  FoldIndices(LAMBDA a, k :
    IF ~blk.syms[k].fn THEN a
    ELSE Put(Mark(SetAt(a, "name", k, a.len), <<"fname", n, k>>),
             blk.syms[k].name),
    SetArr(b, "name", [k \in DOMAIN blk.syms |-> 0]), blk.syms)

\* The loop over the block's symbols: a symbol that is not a function is
\* skipped; a function's foreign name is appended and name_offsets,
\* name_lengths and func_types [funcs_length++] are set.
ForeignNames(b, n, blk) ==
  FoldIndices(LAMBDA a, k :
    IF ~blk.syms[k].fn THEN a
    ELSE LET j == Len(SelectSeq(SubSeq(blk.syms, 1, k), LAMBDA s : s.fn))
         IN  Put(Mark(SetAt(a, "name", j, a.len), <<"fname", n, k>>),
                 blk.syms[k].name),
    SetArr(b, "name", [k \in DOMAIN blk.syms |-> 0]), blk.syms)

\* One iteration of bh_arr_each over the foreign blocks: the names, align
\* 8, the function entries {name slice, u32 type id} (entry j read from
\* the scratch arrays at j), the module name, align 8, the record
\* {name slice, functions slice} at foreign_info[index++].
EmitForeignBlock ==
  /\ segments # <<>>
  /\ fidx <= Len(fblocks)
  /\ LET blk == fblocks[fidx]
         fs  == Funcs(blk)
         b1  == Mark(Pad(ForeignNames(fbuf, fidx, blk), 8), <<"funcs", fidx>>)
         b2  == FoldIndices(LAMBDA a, j :
                  LET c == WriteSlice(Pad(a, PtrSize), a.arr["name"][j])
                  IN  [Put(c, 4) EXCEPT !.members =
                         @ \cup {<<fidx, j, a.arr["name"][j], blk.syms[fs[j]].ty>>}],
                  b1, fs)
         b3  == Pad(Put(Mark(b2, <<"fmod", fidx>>), blk.module), 8)
         b4  == WriteSlice(WriteSlice(b3, At(b3, <<"fmod", fidx>>)),
                           At(b3, <<"funcs", fidx>>))
     IN  /\ fbuf' = [b4 EXCEPT !.arr = NoArrays,
                       !.anys = @ \cup {<<fidx, b3.len, Len(fs)>>}]
         /\ finfo' = [finfo EXCEPT ![fidx] = b3.len]
  /\ fidx' = fidx + 1
  /\ UNCHANGED <<vars, fblocks, procs, pidx, pbuf, pinfo, pcount, counts>>

\* Fault model: the table registered without waiting for the loop's end.
FinishForeignEarly ==
  /\ Len(segments) = 3
  /\ LET d == NextDataId  n == Len(fblocks) IN
     /\ segments' = segments \o <<fbuf.len, n * PtrSize, 2 * PtrSize>>
     /\ patches' = patches
     /\ counts' = Append(counts, n)
  /\ UNCHANGED <<types, idx, buf, tableInfo, part, fblocks, fidx, fbuf, finfo,
                 procs, pidx, pbuf, pinfo, pcount>>

\* Fault model: the pointer table's length given in slots, not bytes.
ForeignTableLengthInSlots(n) == n

\* .length = block_count * POINTER_SIZE
ForeignTableLength(n) == n * PtrSize

\* After the loop: the content datum and its Relative patches, the
\* pointer table of block_count slots with a Data patch per slot, and the
\* {0, block_count} descriptor with its Data patch to the table.
FinishForeign ==
  /\ Len(segments) = 3
  /\ fidx > Len(fblocks)
  /\ LET d == NextDataId  n == Len(fblocks) IN
     /\ segments' = segments \o <<fbuf.len, ForeignTableLength(n), 2 * PtrSize>>
     /\ patches' = patches
          \cup {[kind |-> "Relative", data |-> d, offset |-> 0, index |-> d,
                 location |-> l] : l \in fbuf.rel}
          \cup {[kind |-> "Data", data |-> d, offset |-> finfo[i + 1],
                 index |-> d + 1, location |-> i * PtrSize] : i \in 0 .. n - 1}
          \cup {[kind |-> "Data", data |-> d + 1, offset |-> 0, index |-> d + 2,
                 location |-> 0]}
     /\ counts' = Append(counts, n)
  /\ UNCHANGED <<types, idx, buf, tableInfo, part, fblocks, fidx, fbuf, finfo,
                 procs, pidx, pbuf, pinfo, pcount>>

-----------------------------------------------------------------------------
(* build_tagged_procedures                                                 *)

\* Fault model: a skipped procedure leaves proc_count as it is.
SkipProcNoDecrement ==
  /\ Len(segments) = 6
  /\ pidx <= Len(procs)
  /\ ~procs[pidx].emit
  /\ pidx' = pidx + 1
  /\ UNCHANGED <<vars, fblocks, fidx, fbuf, finfo, procs, pbuf, pinfo, pcount,
                 counts>>

\* A procedure should_emit_function rejects: proc_count--, continue.
SkipProc ==
  /\ Len(segments) = 6
  /\ pidx <= Len(procs)
  /\ ~procs[pidx].emit
  /\ pcount' = pcount - 1
  /\ pidx' = pidx + 1
  /\ UNCHANGED <<vars, fblocks, fidx, fbuf, finfo, procs, pbuf, pinfo, counts>>

\* Fault model: tag_data_offsets[tag_index] taken before aligning.
ProcTagsBeforeAlign(b, n, tags) ==
  FoldIndices(LAMBDA a, j :
    Put(Mark(SetArr(Pad(a, tags[j].align), "tag", Append(a.arr["tag"], a.len)),
             <<"ptag", n, j>>), tags[j].size),
    SetArr(b, "tag", <<>>), tags)

\* The tags: align to the tag type, tag_data_offsets[tag_index] is the
\* length, the buffer grown by the type's size and the value encoded there
\* by emit_constexpr.
ProcTags(b, n, tags) ==
  FoldIndices(LAMBDA a, j :
    LET c == Pad(a, tags[j].align)
    IN  Put(Mark(SetArr(c, "tag", Append(c.arr["tag"], c.len)),
                 <<"ptag", n, j>>), tags[j].size),
    SetArr(b, "tag", <<>>), tags)

\* index: the procedures emitted before the current one.
ProcIndex == Cardinality({k \in 1 .. pidx - 1 : procs[k].emit})

\* One iteration for a procedure that is emitted: the tags, align 4, the
\* tag array {u32 offset (patched), u32 type id}, align 4, the record
\* {u32 element index, u32 type id, tags slice, u32 package id} at
\* tag_proc_info[index++].
EmitProc ==
  /\ Len(segments) = 6
  /\ pidx <= Len(procs)
  /\ procs[pidx].emit
  /\ LET p  == procs[pidx]
         b1 == Mark(Pad(ProcTags(pbuf, pidx, p.tags), 4), <<"parr", pidx>>)
         b2 == FoldIndices(LAMBDA a, j :
                 [Put(a, 8) EXCEPT !.rel = @ \cup {a.len},
                    !.ptrs = @ \cup {<<a.len, b1.arr["tag"][j]>>},
                    !.members = @ \cup {<<pidx, j, a.len, b1.arr["tag"][j],
                                          p.tags[j].id>>}],
                 b1, p.tags)
         b3 == Pad(b2, 4)
         b4 == Put(WriteSlice(Put(b3, 8), At(b1, <<"parr", pidx>>)), 4)
     IN  /\ pbuf' = [b4 EXCEPT !.arr = NoArrays,
                       !.anys = @ \cup {<<pidx, b3.len, Len(p.tags)>>}]
         /\ pinfo' = [pinfo EXCEPT ![ProcIndex + 1] = b3.len]
  /\ pidx' = pidx + 1
  /\ UNCHANGED <<vars, fblocks, fidx, fbuf, finfo, procs, pcount, counts>>

\* After the loop, as FinishForeign, with proc_count slots.  The content
\* datum's id is the one NEXT_DATA_ID gave before the loop, no data entry
\* being registered in between.
FinishProcs ==
  /\ Len(segments) = 6
  /\ pidx > Len(procs)
  /\ LET d == NextDataId IN
     /\ segments' = segments \o <<pbuf.len, pcount * PtrSize, 2 * PtrSize>>
     /\ patches' = patches
          \cup {[kind |-> "Relative", data |-> d, offset |-> 0, index |-> d,
                 location |-> l] : l \in pbuf.rel}
          \cup {[kind |-> "Data", data |-> d, offset |-> pinfo[i + 1],
                 index |-> d + 1, location |-> i * PtrSize] : i \in 0 .. pcount - 1}
          \cup {[kind |-> "Data", data |-> d + 1, offset |-> 0, index |-> d + 2,
                 location |-> 0]}
     /\ counts' = Append(counts, pcount)
  /\ UNCHANGED <<types, idx, buf, tableInfo, part, fblocks, fidx, fbuf, finfo,
                 procs, pidx, pbuf, pinfo, pcount>>

\* The three emitters have returned.
Emitted == Len(segments) = 9 /\ UNCHANGED allVars

MetaNext ==
  \/ TableStep
  \/ EmitForeignBlock \/ FinishForeign
  \/ SkipProc \/ EmitProc \/ FinishProcs
  \/ Emitted

MetaSpec == MetaInit /\ [][MetaNext]_allVars

-----------------------------------------------------------------------------
(* Properties.                                                             *)

MetaTypeOK ==
  /\ fidx \in 1 .. Len(fblocks) + 1
  /\ pidx \in 1 .. Len(procs) + 1
  /\ finfo \in [DOMAIN fblocks -> Nat]
  /\ pinfo \in [DOMAIN procs -> Nat]
  /\ pcount \in 0 .. Len(procs)
  /\ Len(segments) \in {0, 3, 6, 9}
  /\ Len(segments) >= 6 => fidx = Len(fblocks) + 1
  /\ Len(segments) = 9 => pidx = Len(procs) + 1

\* Each foreign function entry {name slice, type id} written for a block
\* is the j-th function of the block: its name pointer is where that
\* function's name was appended and its type id is that function's,
\* however many non-function symbols the scope holds before it.
ForeignEntriesMatch ==
  \A e \in fbuf.members :
    LET n == e[1]  k == Funcs(fblocks[n])[e[2]] IN
    /\ e[3] = At(fbuf, <<"fname", n, k>>)
    /\ e[4] = fblocks[n].syms[k].ty

\* Each tag entry {u32 offset, u32 type id} of a tagged procedure is the
\* j-th entry of that procedure's tag array and points at the bytes where
\* its j-th tag was encoded, with that tag's type id.
ProcTagEntriesMatch ==
  \A e \in pbuf.members :
    LET n == e[1]  j == e[2] IN
    /\ e[3] = At(pbuf, <<"parr", n>>) + 8 * (j - 1)
    /\ e[4] = At(pbuf, <<"ptag", n, j>>)
    /\ e[5] = procs[n].tags[j].id

\* The procedures should_emit_function accepts, in order.
EmittedProcs == SelectSeq([k \in DOMAIN procs |-> k], LAMBDA k : procs[k].emit)

\* Once both tables are registered, the foreign table has a slot per block
\* and the procedure table one per emitted procedure; slot i is patched to
\* the record of the i-th block or emitted procedure, and the count word
\* of each {start, count} descriptor equals its table's number of slots.
SlotsPointAtMetaRecords ==
  Len(segments) = 9 =>
    \A t \in {[seg |-> 5, cnt |-> 1, recs |-> fbuf.anys,
               ids |-> [k \in DOMAIN fblocks |-> k]],
              [seg |-> 8, cnt |-> 2, recs |-> pbuf.anys, ids |-> EmittedProcs]} :
      /\ counts[t.cnt] = Len(t.ids)
      /\ \A i \in 1 .. Len(t.ids) :
           \E p \in patches, r \in t.recs :
             /\ p.kind = "Data" /\ p.index = t.seg /\ p.location = (i - 1) * PtrSize
             /\ r[1] = t.ids[i] /\ p.offset = r[2]

\* Once all three emitters have returned, every patch of every table lies
\* in a registered segment: its location holds a whole pointer inside the
\* segment it is written to, a Relative patch writes into its own data,
\* and a Data patch points inside its target (or at the start of an empty
\* one): the data ids NEXT_DATA_ID handed out match the entries
\* registered, across the three emitters.
PatchesInSegments ==
  Len(segments) = 9 =>
    \A p \in patches :
      /\ p.index \in DOMAIN segments /\ p.data \in DOMAIN segments
      /\ p.location + PtrSize <= segments[p.index]
      /\ p.kind = "Relative" => p.data = p.index
      /\ p.kind = "Data" => p.offset < segments[p.data] \/ p.offset = 0

=============================================================================
