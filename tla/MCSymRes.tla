------------------------------ MODULE MCSymRes ------------------------------
(***************************************************************************)
(* Two packages.  A declares main, an overload set ovl, globals g and h  *)
(* and the struct S; B declares helper, bfn and the type T.                *)
(*                                                                         *)
(* main(x : i32) -> i32 has the body                                       *)
(*   { y : ^T; w; x; for i in y .. w step i { x; x; i }; i; bfn(w);       *)
(*     bp.bfn(w); y.bfn(); bp.nope(); if x { y; z } }                      *)
(* where y, w, the inner x and z are declarations (the inner x shadows    *)
(* the parameter) and the i after the loop is out of its scope.  bp is    *)
(* the alias a use-package entity may give B: bp.bfn collapses to B's     *)
(* bfn, y.bfn is uniform call syntax on a local, and bp.nope misses in B. *)
(* helper's body is { while T {}; {}; bfn }, with two empty blocks.       *)
(* g : T;  h : proc (i32, S) -> ^T, its i32 already a basic type node;   *)
(* S :: struct { ^S; [g] bp.T; bp.bfn }, whose last member is not a type. *)
(*                                                                         *)
(* The entity list is main, helper, ovl, g, h, S and an expression        *)
(* main(nope) in package B, after zero, one or two use-package entities,  *)
(* or with one use-package entity right after main.                       *)
(***************************************************************************)
EXTENDS SymRes, TLC

N == "NULL"

\* Each node with the fields its kind uses; the others are NULL (Blank).
Parts ==
     ("p1" :> [kind |-> "local", name |-> "x", type |-> "t1"])
  @@ ("t1" :> [kind |-> "use", name |-> "i32"])
  @@ ("b1" :> [kind |-> "block", head |-> "l1"])
  @@ ("l1" :> [kind |-> "local", name |-> "y", type |-> "t2", next |-> "l4"])
  @@ ("t2" :> [kind |-> "ptr", expr |-> "t3"])
  @@ ("t3" :> [kind |-> "use", name |-> "T"])
  @@ ("l4" :> [kind |-> "local", name |-> "w", next |-> "u1"])
  @@ ("u1" :> [kind |-> "use", name |-> "x", next |-> "f1"])
  @@ ("f1" :> [kind |-> "for", var |-> "v1", start |-> "u2", end |-> "u18", step |-> "u19",
               loop |-> "b2", next |-> "u3"])
  @@ ("u18" :> [kind |-> "use", name |-> "w"])
  @@ ("u19" :> [kind |-> "use", name |-> "i"])
  @@ ("tf" :> [kind |-> "fntype", ret |-> "t14", args |-> <<"t1">>])
  @@ ("v1" :> [kind |-> "local", name |-> "i"])
  @@ ("u2" :> [kind |-> "use", name |-> "y"])
  @@ ("b2" :> [kind |-> "block", head |-> "l2"])
  @@ ("l2" :> [kind |-> "local", name |-> "x", next |-> "u7"])
  @@ ("u7" :> [kind |-> "use", name |-> "x", next |-> "u8"])
  @@ ("u8" :> [kind |-> "use", name |-> "i"])
  @@ ("u3" :> [kind |-> "use", name |-> "i", next |-> "c1"])
  @@ ("c1" :> [kind |-> "call", callee |-> "u4", args |-> <<"u5">>, next |-> "c3"])
  @@ ("c3" :> [kind |-> "call", callee |-> "fa3", args |-> <<"u17">>, next |-> "c4"])
  @@ ("fa3" :> [kind |-> "field", name |-> "bfn", expr |-> "r3"])
  @@ ("r3" :> [kind |-> "use", name |-> "bp"])
  @@ ("u17" :> [kind |-> "use", name |-> "w"])
  @@ ("c4" :> [kind |-> "call", callee |-> "fa4", args |-> <<>>, next |-> "c5"])
  @@ ("fa4" :> [kind |-> "field", name |-> "bfn", expr |-> "r4"])
  @@ ("r4" :> [kind |-> "use", name |-> "y"])
  @@ ("c5" :> [kind |-> "call", callee |-> "fa5", args |-> <<>>, next |-> "i1"])
  @@ ("fa5" :> [kind |-> "field", name |-> "nope", expr |-> "r5"])
  @@ ("r5" :> [kind |-> "use", name |-> "bp"])
  @@ ("u4" :> [kind |-> "use", name |-> "bfn"])
  @@ ("u5" :> [kind |-> "use", name |-> "w"])
  @@ ("i1" :> [kind |-> "if", cond |-> "u6", then |-> "b3"])
  @@ ("u6" :> [kind |-> "use", name |-> "x"])
  @@ ("b3" :> [kind |-> "block", head |-> "u9"])
  @@ ("u9" :> [kind |-> "use", name |-> "y", next |-> "l3"])
  @@ ("l3" :> [kind |-> "local", name |-> "z"])
  @@ ("b5" :> [kind |-> "block", head |-> "wh"])
  @@ ("wh" :> [kind |-> "while", cond |-> "u10", loop |-> "b6", next |-> "b7"])
  @@ ("u10" :> [kind |-> "use", name |-> "T"])
  @@ ("b6" :> [kind |-> "block"])
  @@ ("b7" :> [kind |-> "block", next |-> "u11"])
  @@ ("u11" :> [kind |-> "use", name |-> "bfn"])
  @@ ("u12" :> [kind |-> "use", name |-> "helper"])
  @@ ("u13" :> [kind |-> "use", name |-> "bfn"])
  @@ ("u14" :> [kind |-> "use", name |-> "T"])
  @@ ("c2" :> [kind |-> "call", callee |-> "u15", args |-> <<"u16">>])
  @@ ("u15" :> [kind |-> "use", name |-> "main"])
  @@ ("u16" :> [kind |-> "use", name |-> "nope"])
  @@ ("t14" :> [kind |-> "use", name |-> "i32"])
  @@ ("t4" :> [kind |-> "fntype", ret |-> "t5", args |-> <<"t7", "t8">>])
  @@ ("t5" :> [kind |-> "ptr", expr |-> "t6"])
  @@ ("t6" :> [kind |-> "use", name |-> "T"])
  @@ ("t7" :> [kind |-> "basic"])
  @@ ("t8" :> [kind |-> "use", name |-> "S"])
  @@ ("s1" :> [kind |-> "struct", args |-> <<"t9", "t10", "t13">>])
  @@ ("t9" :> [kind |-> "ptr", expr |-> "t11"])
  @@ ("t11" :> [kind |-> "use", name |-> "S"])
  @@ ("t10" :> [kind |-> "array", count |-> "u19", expr |-> "t12"])
  @@ ("u19" :> [kind |-> "use", name |-> "g"])
  @@ ("t12" :> [kind |-> "field", name |-> "T", expr |-> "r6"])
  @@ ("r6" :> [kind |-> "use", name |-> "bp"])
  @@ ("t13" :> [kind |-> "field", name |-> "bfn", expr |-> "r7"])
  @@ ("r7" :> [kind |-> "use", name |-> "bp"])

Blank ==
  [name |-> N, head |-> N, next |-> N, var |-> N, start |-> N, end |-> N, step |-> N, cond |-> N,
   then |-> N, else |-> N, loop |-> N, callee |-> N, args |-> <<>>, expr |-> N,
   type |-> N, ret |-> N, count |-> N]

\* The node table, built once.
MCAst == CHOOSE ast \in {[n \in DOMAIN Parts |-> Parts[n] @@ Blank]} : TRUE

MCFn ==
  [f \in {"main", "helper"} |->
     IF f = "main" THEN [pkg |-> "A", params |-> <<"p1">>, type |-> "tf", body |-> "b1"]
                   ELSE [pkg |-> "B", params |-> <<>>, type |-> N, body |-> "b5"]]

MCOptions == "ovl" :> <<"u12", "u13">>

MCGType == [x \in {"g", "h"} |-> IF x = "g" THEN "u14" ELSE "t4"]

MCInc == [p \in {"A", "B"} |-> "inc" \o p]

MCNames == {"x", "y", "w", "i", "z", "bfn", "helper", "T", "main", "ovl",
            "g", "bp", "nope", "i32", "h", "S"}

MCPkgSyms ==
  [p \in {"A", "B"} |-> [nm \in MCNames |->
     IF p = "A" THEN IF nm \in {"main", "ovl", "g", "h", "S"} THEN "A." \o nm ELSE N
                ELSE IF nm \in {"helper", "bfn", "T"} THEN "B." \o nm ELSE N]]

Ent(k, p, nm, nd, tg, al, ho, on) ==
  [kind |-> k, pkg |-> p, name |-> nm, node |-> nd, target |-> tg,
   alias |-> al, hasOnly |-> ho, only |-> on]

UseOf(p, tg, al, ho, on) == Ent("use_package", p, N, N, tg, al, ho, on)

Uses ==
  { UseOf("A", "B", N, FALSE, <<>>),
    UseOf("A", "B", "bp", FALSE, <<>>),
    UseOf("A", "B", N, TRUE, <<"bfn", "T">>),
    UseOf("A", "B", N, TRUE, <<"nope", "bfn">>),
    UseOf("A", "B", N, TRUE, <<"bfn", "nope">>),
    UseOf("A", "C", N, FALSE, <<>>),
    UseOf("A", "A", N, FALSE, <<>>),
    UseOf("B", "A", N, FALSE, <<>>) }

Rest ==
  << Ent("function", "A", "main", N, N, N, FALSE, <<>>),
     Ent("function", "B", "helper", N, N, N, FALSE, <<>>),
     Ent("overloaded", "A", "ovl", N, N, N, FALSE, <<>>),
     Ent("global", "A", "g", N, N, N, FALSE, <<>>),
     Ent("global", "A", "h", N, N, N, FALSE, <<>>),
     Ent("struct", "A", N, "s1", N, N, FALSE, <<>>),
     Ent("expression", "B", N, "c2", N, N, FALSE, <<>>) >>

MCEntities ==
  {Rest} \cup {<<u>> \o Rest : u \in Uses} \cup {<<u, v>> \o Rest : u, v \in Uses}
  \cup {<<Rest[1], u>> \o Tail(Rest) : u \in Uses}

=============================================================================
