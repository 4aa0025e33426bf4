------------------------- MODULE MCTypeCheckDriver -------------------------
(***************************************************************************)
(* A program for the type checker: an overload set add of add_i32 and     *)
(* add_f32, two intrinsics (clz_i32 is a known name, clz_i16 is not), the *)
(* exported function main with a body, an expression entity, a global and *)
(* a string literal, followed by at most one entity that fails its own    *)
(* check.  main's scope holds a constant x and an untyped y, both typed   *)
(* only by assignment, and z : i32; nested blocks declare an untyped v    *)
(* and w : i32.  Its body is one statement of a pool, two (the first one  *)
(* passing from the start), or one of a few longer ones.                  *)
(***************************************************************************)
EXTENDS TypeCheckDriver

Entity(k, n, e) == [kind |-> k, name |-> n, expr |-> e]

\* A statement: every kind has every field, the ones it does not use empty.
Stmt(k, op, l, r, c, as, v) ==
  [kind |-> k, op |-> op, left |-> l, right |-> r, callee |-> c, args |-> as,
   val |-> v, cond |-> Lit("-"), thenB |-> <<>>, elseB |-> <<>>,
   start |-> Lit("-"), end |-> Lit("-"), step |-> <<>>, stmts |-> <<>>,
   scope |-> {}]

Bin(op, l, r) == Stmt("binop", op, l, r, "", <<>>, Lit("-"))
CallOf(c, as) == Stmt("call", "", Lit("-"), Lit("-"), c, as, Lit("-"))
Ret(v)        == Stmt("return", "", Lit("-"), Lit("-"), "", <<>>, v)
RetVoid       == Stmt("return_void", "", Lit("-"), Lit("-"), "", <<>>, Lit("-"))

Blk(ss, sc) == [Stmt("block", "", Lit("-"), Lit("-"), "", <<>>, Lit("-"))
                  EXCEPT !.stmts = ss, !.scope = sc]
If(c, t, e) == [Stmt("if", "", Lit("-"), Lit("-"), "", <<>>, Lit("-"))
                  EXCEPT !.cond = c, !.thenB = t, !.elseB = e]
While(c, b) == [Stmt("while", "", Lit("-"), Lit("-"), "", <<>>, Lit("-"))
                  EXCEPT !.cond = c, !.thenB = <<b>>]
For(a, z, sp, b) == [Stmt("for", "", Lit("-"), Lit("-"), "", <<>>, Lit("-"))
                       EXCEPT !.start = a, !.end = z, !.step = sp, !.thenB = <<b>>]

Deref(e)      == Op("deref", "", <<e>>)
Addr(e)       == Op("addr", "", <<e>>)
Index(a, i)   == Op("index", "", <<a, i>>)
Neg(e)        == Op("neg", "", <<e>>)
Cast(t, e)    == Op("cast", t, <<e>>)
BinE(op, l, r) == Op("binop", op, <<l, r>>)

P  == Lit("*i32")
PP == Lit("**i32")

MCPtrElem == ("*i32" :> "i32") @@ ("**i32" :> "*i32")
MCPtrTo   == ("i32" :> "*i32") @@ ("*i32" :> "**i32")

X == Local("x")
Y == Local("y")
Z == Local("z")
V == Local("v")

FnRec(ps, r, fl, named, iname, hasBody) ==
  [params |-> ps, ret |-> r, flags |-> fl, named |-> named, iname |-> iname,
   body |-> hasBody]

MCFn ==
  [f \in {"add_i32", "add_f32", "clz", "bogus", "main", "exp_foreign",
          "exp_intrinsic", "exp_inline", "exp_noname", "p_unknown",
          "p_void"} |->
     CASE f = "add_i32" -> FnRec(<<"i32", "i32">>, "i32", {}, FALSE, "", FALSE)
       [] f = "add_f32" -> FnRec(<<"f32", "f32">>, "f32", {}, FALSE, "", FALSE)
       [] f = "clz"   -> FnRec(<<"i32">>, "i32", {"intrinsic"}, FALSE, "clz_i32", FALSE)
       [] f = "bogus" -> FnRec(<<"i32">>, "i32", {"intrinsic"}, FALSE, "clz_i16", FALSE)
       [] f = "main"  -> FnRec(<<>>, "i32", {"exported"}, TRUE, "", TRUE)
       [] f = "exp_foreign"   -> FnRec(<<>>, "void", {"exported", "foreign"}, TRUE, "", FALSE)
       [] f = "exp_intrinsic" -> FnRec(<<>>, "void", {"exported", "intrinsic"}, TRUE, "clz_i32", FALSE)
       [] f = "exp_inline"    -> FnRec(<<>>, "void", {"exported", "inline"}, TRUE, "", FALSE)
       [] f = "exp_noname"    -> FnRec(<<>>, "void", {"exported"}, FALSE, "", FALSE)
       [] f = "p_unknown"     -> FnRec(<<"NULL">>, "void", {}, FALSE, "", FALSE)
       [] f = "p_void"        -> FnRec(<<"void">>, "void", {}, FALSE, "", FALSE)]

MCOvl ==
  [o \in {"add", "nested", "not_fn"} |->
     CASE o = "add"    -> <<"add_i32", "add_f32">>
       [] o = "nested" -> <<"add_i32", "add">>
       [] o = "not_fn" -> <<"g">>]

MCWiden == {<<"i64", "i32">>}

MCGlobalTy == [g \in {"g", "g_untyped"} |-> IF g = "g" THEN "i32" ELSE "NULL"]

MCDeclType == [l \in {"x", "y", "z", "v", "w"} |->
                IF l \in {"z", "w"} THEN "i32" ELSE "NULL"]

Base ==
  << Entity("overloaded", "add", ""), Entity("function", "add_i32", ""),
     Entity("function", "add_f32", ""), Entity("function", "clz", ""),
     Entity("function", "bogus", ""), Entity("function", "main", ""),
     Entity("expression", "", CallOf("clz", <<Lit("i32")>>)),
     Entity("global", "g", ""), Entity("strlit", "", "") >>

Failing ==
  {Entity("function", f, "") : f \in {"exp_foreign", "exp_intrinsic",
      "exp_inline", "exp_noname", "p_unknown", "p_void"}}
  \cup {Entity("overloaded", o, "") : o \in {"nested", "not_fn"}}
  \cup {Entity("global", "g_untyped", ""),
        Entity("expression", "", CallOf("add", <<Lit("i64")>>))}

MCEntities == {Base} \cup {Append(Base, e) : e \in Failing}

Pool ==
  { Bin("=", X, Lit("i32")), Bin("+=", X, Lit("i32")),
    Bin("=", Y, Lit("i64")), Bin("=", Y, Lit("i32")),
    Bin("==", Y, Z), Bin("==", Z, Lit("*i32")),
    Bin("=", SymOp, Lit("i32")), Bin("=", Lit("i32"), Z),
    CallOf("add", <<Lit("f32"), Lit("f32")>>), CallOf("add", <<Z, Y>>),
    CallOf("bogus", <<Z>>), CallOf("g", <<Lit("i32")>>),
    CallOf("add_i32", <<Z>>), CallOf("clz", <<Z, SymOp>>),
    CallOf("?", <<Z>>), CallOf("add", <<Z>>),
    Ret(Z), RetVoid, Ret(Lit("f32")),
    If(Lit("bool"), <<Blk(<<Bin("=", V, Lit("i32"))>>, {"v"})>>, <<>>),
    If(Lit("bool"), <<Blk(<<Bin("=", X, Lit("i32"))>>, {})>>,
                    <<Blk(<<Bin("=", X, Lit("i64"))>>, {})>>),
    If(Z, <<>>, <<>>), While(Y, Blk(<<>>, {})),
    While(Lit("bool"), Blk(<<Ret(SymOp)>>, {})),
    For(Z, Lit("i64"), <<>>, Blk(<<Bin("=", Y, Z)>>, {})),
    For(Lit("i32"), Z, <<Lit("f32")>>, Blk(<<>>, {})),
    For(Lit("i32"), Z, <<>>, Blk(<<Bin("=", X, Lit("i32"))>>, {"w"})),
    Blk(<<Blk(<<Bin("=", V, Z)>>, {"v"})>>, {}), Blk(<<>>, {"v"}),
    Bin("=", Deref(P), Neg(Z)), Bin("=", Index(P, Y), Lit("i32")),
    Bin("==", Index(P, Lit("f32")), Z), Bin("=", Y, Addr(Index(P, Z))),
    Bin("=", Deref(PP), Addr(Deref(P))), Bin("=", Y, Addr(Z)),
    Bin("=", Y, Deref(Lit("rawptr"))), Bin("=", Y, Deref(Z)),
    Bin("=", Y, Cast("f32", Index(Z, Z))),
    If(BinE("==", Y, Lit("i32")), <<>>, <<>>), If(BinE("+", Z, Z), <<>>, <<>>),
    CallOf("add_i32", <<Index(P, Cast("i64", Z))>>) }

\* The statements of the pool that pass from the start of the body; a body
\* whose first statement fails never reaches its second.
First ==
  {s \in Pool : CheckStmt(s, [l \in {"x", "y", "z", "v", "w"} |-> "NULL"],
                          <<6, 1>>, MCFn["main"].ret).ok}

MCBodies ==
  {<<s>> : s \in Pool} \cup {<<s, t>> : s \in First, t \in Pool} \cup
  { << Bin("=", X, Lit("i32")), Bin("=", Y, Lit("i64")), Bin("==", Y, Z) >>,
    << Bin("=", X, Lit("i32")), Bin("=", Y, Lit("i32")),
       CallOf("add", <<Z, Y>>), Ret(Z) >>,
    << Bin("=", Y, Lit("i64")), Bin("=", X, Lit("i32")),
       CallOf("add", <<Lit("f32"), Lit("f32")>>), Bin("==", Y, Z) >>,
    << Bin("=", X, Lit("i32")), Bin("=", Y, Lit("i32")),
       CallOf("bogus", <<Z>>) >> }

=============================================================================
