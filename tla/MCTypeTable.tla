---------------------------- MODULE MCTypeTable ----------------------------
EXTENDS MetaTables

\* Tag and value types: [id, size, align].
T4 == [id |-> 101, size |-> 4, align |-> 4]
T8 == [id |-> 102, size |-> 8, align |-> 8]

Member(n, d, t, g) == [name |-> n, def |-> d, dty |-> t, tags |-> g]

\* An anonymous struct whose first member has no default and whose second
\* has an encodable one, and whose first member carries no tags.
StructA == [kind |-> "Struct", name |-> 0,
            members |-> <<Member(1, "none", T4, <<>>), Member(2, "ok", T8, <<T4>>),
                          Member(1, "runtime", T4, <<T8>>)>>,
            poly |-> <<>>, tags |-> <<>>, methods |-> <<>>]

\* A named struct with every kind of polymorphic solution, a default that
\* fails to encode, member and struct tags, and a method.
StructB == [kind |-> "Struct", name |-> 3,
            members |-> <<Member(3, "fail", T4, <<T8, T4>>)>>,
            poly |-> <<[kind |-> "type", ty |-> T4], [kind |-> "value", ty |-> T8],
                       [kind |-> "fail", ty |-> T8]>>,
            tags |-> <<T4, T8>>, methods |-> <<5>>]

PolyTags(c1) == [kind |-> "PolyStruct", name |-> 2,
                 tags |-> <<[ty |-> T4, comptime |-> c1], [ty |-> T8, comptime |-> TRUE]>>]

BaseShapes ==
  {[kind |-> "Basic"], [kind |-> "Array"], [kind |-> "Compound", count |-> 1],
   [kind |-> "Function", count |-> 1], [kind |-> "Enum", values |-> <<3, 1>>, name |-> 5],
   [kind |-> "Distinct", name |-> 3], StructA, StructB}

MapsOver(shapes) == [1 .. 2 -> shapes] \cup [1 .. 3 -> shapes]

\* Every polymorphic-struct tag is compile-time known.
MCTypeMaps == MapsOver(BaseShapes \cup {PolyTags(TRUE)})

\* A polymorphic struct's first tag is not compile-time known.
MCTypeMapsRuntimeTag == MapsOver({[kind |-> "Basic"], PolyTags(FALSE)})
\* Foreign blocks: a block whose scope holds a non-function symbol before
\* two functions, and one with a single function; or none at all.
Sym(f, n, t) == [fn |-> f, name |-> n, ty |-> t]
Blk1 == [module |-> 4, syms |-> <<Sym(FALSE, 0, 0), Sym(TRUE, 3, 201), Sym(TRUE, 5, 202)>>]
Blk2 == [module |-> 2, syms |-> <<Sym(TRUE, 1, 203)>>]
MCForeignInputs == {<<>>, <<Blk1, Blk2>>}

\* Tagged procedures: one with a 4-byte then an 8-byte tag, one rejected by
\* should_emit_function, one without tags; or only a rejected one.
Proc(e, g) == [emit |-> e, ty |-> 301, tags |-> g]
MCProcInputs == {<<Proc(TRUE, <<T4, T8>>), Proc(FALSE, <<T4>>), Proc(TRUE, <<>>)>>,
                 <<Proc(FALSE, <<T8>>)>>}
=============================================================================
