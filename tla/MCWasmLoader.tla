---------------------------- MODULE MCWasmLoader ----------------------------
(* Model values for the loader: a module importing onyx.memory twice and *)
(* host functions k1, k2; three libraries a, b, c, with k1 and k2 each    *)
(* defined twice, so that the first-match rule decides which definition   *)
(* an import is bound to.  The byte buffers are built from section lists  *)
(* by a reference encoder, and the names the _onyx_libs section lists are *)
(* read off the section list, not the bytes.                               *)
EXTENDS WasmLoader

CONSTANTS k1, k2

MCImports == <<k1, MemoryKey, k2, MemoryKey>>

\* Library names and other strings, as bytes.
LibA == <<97>>
LibB == <<98>>
LibC == <<99>>
LibZ == <<122>>
Slash == <<47>>
NameSec == <<110, 97, 109, 101>>
FnM == <<109>>
FnDo == <<100, 111>>
OnyxPrefix == <<95, 111, 110, 121, 120>>
WasmMagic == <<0, 97, 115, 109>>

MCLibDefs == (LibA :> <<k2, k1>>) @@ (LibB :> <<k1>>) @@ (LibC :> <<k2>>)

-----------------------------------------------------------------------------
(* The reference encoding of a module (spec 6).                           *)

RECURSIVE Uleb(_)
Uleb(n) == IF n < 128 THEN <<n>> ELSE <<128 + (n % 128)>> \o Uleb(n \div 128)

Str(s) == Uleb(Len(s)) \o s

Vec(v) == Uleb(Len(v)) \o FlattenSeq([i \in DOMAIN v |-> Str(v[i])])

Sec(id, name, paths, libs, junk) ==
  [id |-> id, name |-> name, paths |-> paths, libs |-> libs, junk |-> junk,
   fns |-> <<>>]
Plain(id, junk) == Sec(id, <<>>, <<>>, <<>>, junk)
Custom(name, junk) == Sec(0, name, <<>>, <<>>, junk)
Libs(paths, libs) == Sec(0, LibsName, paths, libs, <<>>)

\* A little-endian 32-bit field.
LE32(n) == <<n % 256, (n \div 256) % 256, (n \div 65536) % 256, n \div 16777216>>

\* The function-name table (spec 6): one 32-bit offset per function, from
\* the end of the section's name, then the NUL-terminated names.
FuncTable(names) ==
  LET off(i) == 4 * Len(names) + FoldLeft(LAMBDA a, x : a + Len(x) + 1, 0,
                                          SubSeq(names, 1, i - 1))
  IN  [Custom(FuncOffsetsName,
              FlattenSeq([i \in DOMAIN names |-> LE32(off(i))])
              \o FlattenSeq([i \in DOMAIN names |-> names[i] \o <<0>>]))
       EXCEPT !.fns = names]

Content(s) ==
  IF s.id # 0 THEN s.junk
  ELSE Str(s.name) \o IF s.name = LibsName THEN Vec(s.paths) \o Vec(s.libs)
                                           ELSE s.junk

Body(p) == FlattenSeq([i \in DOMAIN p |->
                         Uleb(p[i].id) \o Uleb(Len(Content(p[i]))) \o Content(p[i])])

Encode(magic, p) == magic \o <<1, 0, 0, 0>> \o Body(p)

\* The names of the first custom section named exactly _onyx_libs.
Wanted(p) ==
  LET k == SelectInSeq(p, LAMBDA s : s.id = 0 /\ s.name = LibsName)
  IN  IF k = 0 THEN <<>> ELSE p[k].libs

\* Modules as the compiler writes them: a type section, the function-name
\* table, the library list (with a name no library has) and a code section
\* long enough for a two-byte size; a name section, a library list without
\* paths, a second list the scan must ignore and the function-name table
\* behind them; no library list and no function-name table at all; a
\* library list alone.
P1 == <<Plain(1, <<96, 0, 0>>), FuncTable(<<FnM, FnDo>>),
        Libs(<<Slash>>, <<LibA, LibZ, LibB, LibC>>),
        Plain(10, [i \in 1 .. 130 |-> 0])>>
P2 == <<Custom(NameSec, <<1, 2>>), Libs(<<>>, <<LibC, LibA>>),
        Libs(<<Slash>>, <<LibB>>), FuncTable(<<FnDo, FnM>>)>>
P3 == <<Plain(1, <<96, 0, 0>>), Custom(NameSec, <<0>>)>>
P4 == <<Libs(<<>>, <<LibA>>)>>

\* Modules with a custom section whose name is a prefix of _onyx_libs
\* (empty, or "_onyx") ahead of the library list.
H1 == <<Custom(<<>>, <<0, 0>>), Libs(<<>>, <<LibA, LibB>>)>>
H2 == <<Custom(OnyxPrefix, Vec(<<>>) \o Vec(<<LibC>>)), Libs(<<>>, <<LibA>>)>>

MCModules == {Encode(OnyxMagic, P1), Encode(OnyxMagic, P2),
              Encode(OnyxMagic, P3), Encode(OnyxMagic, P4), Encode(WasmMagic, P3)}
MCPrefixModules == {Encode(OnyxMagic, H1), Encode(OnyxMagic, H2)}

Progs == {P1, P2, P3, P4, H1, H2}

\* The listed names, by the module's bytes past the header.
WantedOf == [x \in {Body(p) : p \in Progs} |->
               Wanted(CHOOSE p \in Progs : Body(p) = x)]

\* The function names of the first custom section named exactly
\* _onyx_func_offsets, by the module's bytes past the header.
Listed(p) ==
  LET k == SelectInSeq(p, LAMBDA s : s.id = 0 /\ s.name = FuncOffsetsName)
  IN  IF k = 0 THEN <<>> ELSE p[k].fns

NamesOf == [x \in {Body(p) : p \in Progs} |->
              Listed(CHOOSE p \in Progs : Body(p) = x)]

\* A trap's frames: innermost function first.
MCTraces == {<<0>>, <<1, 0>>}

\* Trap symbolication (onyx_print_trap, spec 4.5 and scenario 4): once the
\* loader has returned after a trap, it has printed one line per frame of
\* the trace, in order, each naming the function that the module's
\* _onyx_func_offsets table lists for the frame's index; and no frame line
\* when the module has no such table.
TraceSymbolicated ==
  pc = "done" /\ trapped =>
    LET names == NamesOf[SubSeq(bytes, 9, Len(bytes))]
    IN  printed = IF names = <<>> THEN <<>>
                  ELSE [i \in DOMAIN frames |->
                          [idx |-> frames[i], name |-> names[frames[i] + 1]]]

\* The custom-section scan as spec 4.5 describes it.
LibScan == INSTANCE LibraryScan WITH
  wanted  <- WantedOf[SubSeq(bytes, 9, Len(bytes))],
  scanned <- cursor > 0 /\ pc \notin {"scan", "path", "name"}

\* lookup_and_load_custom_libraries implements the scan of spec 4.5: it
\* hands onyx_load_library the names of the _onyx_libs section, in order,
\* and no others, and ends with all of them handed over.
LibraryScanRefined == LibScan!Spec
=============================================================================
