--------------------------- MODULE TypeCheckDriver ---------------------------
(***************************************************************************)
(* The type checker, src/src/onyxchecker.c: the entity driver             *)
(* onyx_type_check and the checks it calls for functions, overload sets,  *)
(* globals, expression entities, and the statements of a function body:   *)
(* assignments and binary operations, calls (with overload resolution and *)
(* the intrinsic rewrite), returns, if, while and for statements, nested *)
(* blocks, and each block's untyped-symbol check.                        *)
(*                                                                         *)
(* A type is a name; NULL is None.  An operand is a local, a literal of   *)
(* a type, or an identifier left unresolved.  Only one function (the one  *)
(* whose record says body = TRUE) has a body; its statements are the      *)
(* variable body, chosen in Init, and its scope holds Locals; a nested    *)
(* block's scope holds locals of Inner.                                   *)
(* Operands are records: Local(l), Lit(t) or SymOp.                        *)
(***************************************************************************)
EXTENDS Naturals, Sequences, SequencesExt, FiniteSets

CONSTANTS
  Entities,  \* the entity list the driver walks, a set of possible lists
  Bodies,    \* the possible statement lists of the function with a body
  Fn,        \* function name -> [params, ret, flags, named, iname, body]
  Ovl,       \* overload-set name -> its options, in declaration order
  GlobalTy,  \* global name -> the type its type expression builds, or None
  Locals,    \* the locals of the body's scope
  Inner,     \* the locals declared in nested blocks' scopes
  Const,     \* the locals flagged Ast_Flag_Const
  DeclType,  \* local -> the type its type expression builds, or None
  Widen,     \* pairs <<t1, t2>> that types_are_compatible accepts, t1 # t2
  Known,     \* the intrinsic names the strcmp chain recognises
  Void,      \* the zero-sized type
  Bool,      \* the type type_is_bool accepts
  I32,       \* &basic_types[Basic_Kind_I32]
  PtrElem,   \* pointer type -> the type it points to
  PtrTo,     \* type -> the pointer type type_make_pointer builds for it
  Rawptr,    \* the untyped raw pointer
  Integers,  \* the basic types with Basic_Flag_Integer
  Sym,       \* an identifier symres left unresolved (Ast_Kind_Symbol)
  None       \* NULL

VARIABLES
  ents,      \* program->entities (input, fixed)
  body,      \* the body's statement chain (input, fixed)
  ent,       \* the entity the driver is at
  st,        \* position in a function: 0 before check_function's prologue,
             \* k for the k-th statement, Len(body) + 1 for the scope check
  halted,    \* onyx_type_check has returned early
  ltype,     \* local (of any scope) -> its type field
  calls,     \* call position -> what check_call settled, or None
  assigns,   \* local -> successful assignments to it
  msgs       \* the message log

vars == <<ents, body, ent, st, halted, ltype, calls, assigns, msgs>>

Undefined == "UNDEFINED"   \* ONYX_INTRINSIC_UNDEFINED

AllLocals == Locals \cup Inner

\* An expression: a local, a literal of a type, an unresolved symbol, or
\* a node of kind k with operands sub: "binop" (v the operator), "neg",
\* "cast" (v the target type), "addr", "deref" or "index" (sub is the
\* address, then the index).
Op(k, v, sub) == [kind |-> k, v |-> v, sub |-> sub]
Local(l) == Op("local", l, <<>>)
Lit(t)   == Op("lit", t, <<>>)
SymOp    == Op("sym", Sym, <<>>)

\* Binary_Op_Equal .. Binary_Op_Greater_Equal.
Comparison == {"==", "!=", "<", "<=", ">", ">="}

\* types_are_compatible: the same type (NULL included), or a declared
\* widening.
Compat(t1, t2) == t1 = t2 \/ <<t1, t2>> \in Widen

\* type_is_pointer: a pointer type or rawptr; not NULL.
IsPtr(t) == t \in DOMAIN PtrElem \/ t = Rawptr

\* is_lval: a local, a dereference or an array access.
IsLval(e) == e.kind \in {"local", "deref", "index"}

\* A check's outcome: success or the diagnostic, and the type fields after.
\* An expression check also gives the expression's type (a list check the
\* list of types), a call check what it settled (nothing before the callee
\* is), and a statement check the locals it assigned successfully.
Ok(lt) == [ok |-> TRUE, code |-> "none", lt |-> lt, call |-> {}, asg |-> <<>>,
           ty |-> None]
Fail(c, lt) == [Ok(lt) EXCEPT !.ok = FALSE, !.code = c]
Typed(lt, t) == [Ok(lt) EXCEPT !.ty = t]

\* A NULL type read through: the process dies.
Crash(lt) == Fail("Crash", lt)

\* One check after another: r2, run on r's type fields, counts only if r
\* succeeded, and what both settled and assigned is kept.
Then(r, r2) ==
  IF ~r.ok THEN r
  ELSE [r2 EXCEPT !.call = r.call \cup @, !.asg = r.asg \o @]

-----------------------------------------------------------------------------
(* check_binaryop, once both operands are checked: L and R are their     *)
(* types, lt the type fields after.                                       *)

\* Fault model: the const check is dropped.
AssignNoConstCheck(op, left, lt, L, R) ==
  LET assign == op \in {"=", "+="}
      lt3 == IF op = "=" /\ L = None /\ left.kind = "local"
             THEN [lt EXCEPT ![left.v] = R] ELSE lt
      L3 == IF op = "=" /\ L = None THEN R ELSE L
  IN  CASE assign /\ ~IsLval(left)           -> Fail("NotLvalue", lt)
        [] ~assign /\ (IsPtr(L) \/ IsPtr(R)) -> Fail("Literal", lt)
        [] L3 = None \/ R = None             -> Fail("UnresolvedType", lt3)
        [] ~Compat(L3, R)                    -> Fail("BinopMismatch", lt3)
        [] assign /\ left.kind = "local"     -> [Typed(lt3, L3) EXCEPT !.asg = <<left.v>>]
        [] OTHER -> Typed(lt3, IF op \in Comparison THEN Bool ELSE L3)

\* Fault model: a raw assignment to a local always takes the right side's
\* type.
AssignOverwrite(op, left, lt, L, R) ==
  LET assign == op \in {"=", "+="}
      lt3 == IF op = "=" /\ left.kind = "local" THEN [lt EXCEPT ![left.v] = R] ELSE lt
      L3 == IF op = "=" /\ L = None THEN R ELSE L
  IN  CASE assign /\ ~IsLval(left)           -> Fail("NotLvalue", lt)
        [] assign /\ left.kind = "local" /\ left.v \in Const /\ L # None ->
             Fail("AssignConst", lt)
        [] ~assign /\ (IsPtr(L) \/ IsPtr(R)) -> Fail("Literal", lt)
        [] L3 = None \/ R = None             -> Fail("UnresolvedType", lt3)
        [] ~Compat(L3, R)                    -> Fail("BinopMismatch", lt3)
        [] assign /\ left.kind = "local"     -> [Typed(lt3, L3) EXCEPT !.asg = <<left.v>>]
        [] OTHER -> Typed(lt3, IF op \in Comparison THEN Bool ELSE L3)

\* The l-value and const checks of an assignment and the type inference
\* of a raw one (a compound one is desugared into left = left op right,
\* the new node typed as the right side, so the checks below see the same
\* types), or the pointer check of any other operation; then the NULL and
\* compatibility checks.  A comparison is bool, anything else has the
\* left side's type.
Assign(op, left, lt, L, R) ==
  LET assign == op \in {"=", "+="}
      lt3 == IF op = "=" /\ L = None /\ left.kind = "local"
             THEN [lt EXCEPT ![left.v] = R] ELSE lt
      L3 == IF op = "=" /\ L = None THEN R ELSE L
  IN  CASE assign /\ ~IsLval(left)           -> Fail("NotLvalue", lt)
        [] assign /\ left.kind = "local" /\ left.v \in Const /\ L # None ->
             Fail("AssignConst", lt)
        [] ~assign /\ (IsPtr(L) \/ IsPtr(R)) -> Fail("Literal", lt)
        [] L3 = None \/ R = None             -> Fail("UnresolvedType", lt3)
        [] ~Compat(L3, R)                    -> Fail("BinopMismatch", lt3)
        [] assign /\ left.kind = "local"     -> [Typed(lt3, L3) EXCEPT !.asg = <<left.v>>]
        [] OTHER -> Typed(lt3, IF op \in Comparison THEN Bool ELSE L3)

-----------------------------------------------------------------------------
(* check_call and match_overloaded_function.                               *)

\* Every parameter type is compatible with the argument in its place.
ArgsFit(ps, at) ==
  /\ Len(ps) = Len(at)
  /\ \A k \in 1 .. Len(at) : Compat(ps[k], at[k])

\* The loop over the options from the i-th on: the first whose parameter
\* count is the argument count and whose parameters take the arguments,
\* or NULL ("unable to match overloaded function").
RECURSIVE Match(_, _, _)
Match(opts, at, i) ==
  IF i > Len(opts) THEN None
  ELSE IF ArgsFit(Fn[opts[i]].params, at) THEN opts[i]
  ELSE Match(opts, at, i + 1)

\* The strcmp chain over the intrinsic name.
IntrinsicOf(f) ==
  IF "intrinsic" \notin Fn[f].flags THEN None
  ELSE IF Fn[f].iname \in Known THEN Fn[f].iname ELSE Undefined

\* The pairwise walk over formals and actuals, then the arity checks.
ParamCheck(ps, at) ==
  CASE \E k \in 1 .. Len(ps) \cap 1 .. Len(at) : ~Compat(ps[k], at[k])
                          -> "FunctionParamMismatch"
    [] Len(ps) > Len(at) -> "Literal"       \* too few arguments
    [] Len(ps) < Len(at) -> "Literal"       \* too many arguments
    [] OTHER             -> "none"

\* Once the arguments are checked: overload resolution, the callee's type,
\* the intrinsic rewrite and the parameter checks.  What was settled is
\* recorded at position pos.
Settle(s, lt, at, pos) ==
  LET f  == IF s.callee \in DOMAIN Ovl THEN Match(Ovl[s.callee], at, 1)
                                      ELSE s.callee
      rec(ok) == [pos |-> pos, via |-> s.callee, fn |-> f, args |-> at,
                  intr |-> IF f \in DOMAIN Fn THEN IntrinsicOf(f) ELSE None,
                  ok |-> ok]
      code == ParamCheck(Fn[f].params, at)
  IN  CASE f = None ->
             [Fail("Literal", lt) EXCEPT !.call = {rec(FALSE)}]
        [] f \in DOMAIN GlobalTy ->
             [Fail("CallNonFunction", lt) EXCEPT !.call = {rec(FALSE)}]
        [] code # "none" ->
             [Fail(code, lt) EXCEPT !.call = {rec(FALSE)}]
        [] OTHER ->
             [Ok(lt) EXCEPT !.call = {rec(TRUE)}]

-----------------------------------------------------------------------------
(* check_expression and the checks it calls.                              *)

\* Each check below hands the result of a sub-check to the operator that
\* continues from it, so that a result is named once.

\* The list of two checked prefixes: the first result, then the rest's.
Prefixed(r, rs) ==
  IF ~rs.ok THEN rs ELSE [Then(r, rs) EXCEPT !.ty = <<r.ty>> \o rs.ty]

\* check_binaryop once both operands are checked: Assign on their type
\* fields, a local's read after both checks.
BinopOf(op, left, r) ==
  Assign(op, left, r.lt, IF left.kind = "local" THEN r.lt[left.v] ELSE r.ty[1],
         r.ty[2])

\* An operation once its operands are checked (r): up to the first that
\* failed, then by kind.  A negation has its operand's type and a cast its
\* own.  Address-of takes only an array access or a dereference.  A
\* dereference needs a typed pointer, not rawptr.  An array access needs a
\* pointer address, then reads its index's type's kind (line 426) and needs
\* an integer.
ExprOf(e, r) ==
  LET t == r.ty
  IN  CASE ~r.ok              -> r
        [] e.kind = "binop" -> BinopOf(e.v, e.sub[1], r)
        [] e.kind = "neg"   -> Typed(r.lt, t[1])
        [] e.kind = "cast"  -> Typed(r.lt, e.v)
        [] e.kind = "addr"  ->
             IF e.sub[1].kind \in {"index", "deref"} THEN Typed(r.lt, PtrTo[t[1]])
             ELSE Fail("Literal", r.lt)
        [] e.kind = "deref" ->
             IF IsPtr(t[1]) /\ t[1] # Rawptr THEN Typed(r.lt, PtrElem[t[1]])
             ELSE Fail("Literal", r.lt)
        [] e.kind = "index" ->
             CASE ~IsPtr(t[1])          -> Fail("Literal", r.lt)
               [] t[2] = None           -> Crash(r.lt)
               [] t[2] \notin Integers  -> Fail("Literal", r.lt)
               [] OTHER                 -> Typed(r.lt, PtrElem[t[1]])

RECURSIVE CheckExpr(_, _), CheckList(_, _), ListFrom(_, _)

\* check_expression on each expression of es in order, up to the first
\* that fails; ty is the list of their types.
CheckList(es, lt) ==
  IF es = <<>> THEN Typed(lt, <<>>) ELSE ListFrom(CheckExpr(Head(es), lt), Tail(es))

ListFrom(r, es) == IF ~r.ok THEN r ELSE Prefixed(r, CheckList(es, r.lt))

\* fill_in_type on the node, then by kind: a local needs nothing more; an
\* operation's operands are checked first.
CheckExpr(e, lt) ==
  CASE e.kind = "local" ->
         IF lt[e.v] = None THEN Typed([lt EXCEPT ![e.v] = DeclType[e.v]], DeclType[e.v])
         ELSE Typed(lt, lt[e.v])
    [] e.kind = "lit"   -> Typed(lt, e.v)
    [] e.kind = "sym"   -> Fail("UnresolvedSymbol", lt)
    [] OTHER            -> ExprOf(e, CheckList(e.sub, lt))

CheckBinop(s, lt) == CheckExpr(Op("binop", s.op, <<s.left, s.right>>), lt)

\* check_call once its arguments are checked (r).
CallFrom(s, r, pos) == IF ~r.ok THEN r ELSE Settle(s, r.lt, r.ty, pos)

\* check_call: an unresolved callee is reported first; the arguments are
\* checked in order up to the first that fails.
CheckCall(s, lt, pos) ==
  IF s.callee = Sym THEN Fail("UnresolvedSymbol", lt)
  ELSE CallFrom(s, CheckList(s.args, lt), pos)

-----------------------------------------------------------------------------
(* check_return, check_if, check_while, check_for, check_statement,      *)
(* check_statement_chain and check_block.                                  *)

\* check_return once the value is checked (r): it must be compatible with
\* the function's return type.
ReturnOf(r, ret) ==
  CASE ~r.ok -> r
    [] ~Compat(r.ty, ret) -> Fail("FunctionReturnMismatch", r.lt)
    [] OTHER -> Ok(r.lt)

\* Without a value, the return type must be zero-sized.
CheckReturn(s, lt, ret) ==
  IF s.kind = "return_void" THEN IF ret = Void THEN Ok(lt) ELSE Fail("Literal", lt)
  ELSE ReturnOf(CheckExpr(s.val, lt), ret)

\* type_is_bool for a condition; types_are_compatible with i32 for a
\* for statement's start, end and step.
Fits(t, want) == IF want = Bool THEN t = Bool ELSE Compat(t, want)

\* The type test on the checked operands (r): the first whose check failed
\* or whose type does not fit want is reported.
OperandsOf(r, want) ==
  CASE ~r.ok -> r
    [] \E k \in DOMAIN r.ty : ~Fits(r.ty[k], want) -> Fail("Literal", r.lt)
    [] OTHER -> Ok(r.lt)

\* check_expression on the operands os in order, then their type test.
CheckOperands(os, lt, want) == OperandsOf(CheckList(os, lt), want)

\* The end of check_block once its chain is checked (r): every symbol of
\* the block's scope must have a type.
BlockEnd(b, r) ==
  Then(r, IF \A l \in b.scope : r.lt[l] # None THEN Ok(r.lt)
          ELSE Fail("UnresolvedType", r.lt))

RECURSIVE CheckStmt(_, _, _, _), CheckChainOf(_, _, _, _), ChainFrom(_, _, _, _),
          CheckBlock(_, _, _, _), CheckOpt(_, _, _, _), BodyFrom(_, _, _, _),
          ElseFrom(_, _, _, _)

\* Fault model: a nested block's scope is not checked.
CheckBlockNoScope(b, lt, pos, ret) == CheckChainOf(b.stmts, lt, pos, ret)

\* check_block: the statement chain, then the scope.
CheckBlock(b, lt, pos, ret) == BlockEnd(b, CheckChainOf(b.stmts, lt, pos, ret))

\* check_statement_chain: up to the first statement that fails.
CheckChainOf(ss, lt, pos, ret) ==
  IF ss = <<>> THEN Ok(lt) ELSE ChainFrom(CheckStmt(Head(ss), lt, pos, ret), Tail(ss), pos, ret)

ChainFrom(r, ss, pos, ret) == Then(r, CheckChainOf(ss, r.lt, pos, ret))

\* An optional statement (a sequence of at most one block).
CheckOpt(o, lt, pos, ret) ==
  IF o = <<>> THEN Ok(lt) ELSE CheckBlock(o[1], lt, pos, ret)

\* The statement's body (its thenB) once its operands are checked (c).
BodyFrom(s, c, pos, ret) == Then(c, CheckOpt(s.thenB, c.lt, pos, ret))

\* check_if's false statement once the true one is checked (t).
ElseFrom(s, t, pos, ret) == Then(t, CheckOpt(s.elseB, t.lt, pos, ret))

\* check_if: the condition must be bool, then the true and false
\* statements.  check_while: the condition, then the body.  check_for:
\* start, end and step are checked, then each must be compatible with i32,
\* then the body.
CheckStmt(s, lt, pos, ret) ==
  CASE s.kind = "call"  -> CheckCall(s, lt, pos)
    [] s.kind = "binop" -> CheckBinop(s, lt)
    [] s.kind = "if"    ->
         ElseFrom(s, BodyFrom(s, CheckOperands(<<s.cond>>, lt, Bool), pos, ret), pos, ret)
    [] s.kind = "while" -> BodyFrom(s, CheckOperands(<<s.cond>>, lt, Bool), pos, ret)
    [] s.kind = "for"   ->
         BodyFrom(s, CheckOperands(<<s.start, s.end>> \o s.step, lt, I32), pos, ret)
    [] s.kind = "block" -> CheckBlock(s, lt, pos, ret)
    [] OTHER            -> CheckReturn(s, lt, ret)

-----------------------------------------------------------------------------
(* onyx_type_check: one action per check the driver makes.                *)

E == ents[ent]

Running == ~halted /\ ent <= Len(ents)

\* Fault model: the driver logs the diagnostic but does not return.
ReportNoHalt(code, at) ==
  /\ msgs' = Append(msgs, [code |-> code, ent |-> ent, st |-> at])
  /\ UNCHANGED <<ent, halted>>

\* A check failed: its diagnostic is logged and the driver returns.
Report(code, at) ==
  /\ msgs' = Append(msgs, [code |-> code, ent |-> ent, st |-> at])
  /\ halted' = TRUE
  /\ UNCHANGED ent

\* A check failed: the diagnostic is reported, or, on a NULL type read
\* through, the process dies with nothing logged.
Fails(code, at) ==
  IF code = "Crash" THEN halted' = TRUE /\ UNCHANGED <<ent, msgs>>
  ELSE Report(code, at)

\* The entity is done; the driver moves to the next one.
Advance ==
  /\ ent' = ent + 1
  /\ st' = 0
  /\ UNCHANGED <<halted, msgs>>

Init ==
  /\ ents \in Entities
  /\ body \in Bodies
  /\ ent = 1
  /\ st = 0
  /\ halted = FALSE
  /\ ltype = [l \in AllLocals |-> None]
  /\ calls = {}
  /\ assigns = [l \in AllLocals |-> 0]
  /\ msgs = <<>>

\* check_function up to its body: every parameter's type is known and not
\* void, and an exported function is not foreign, intrinsic or inline and
\* has an exported name.  A function without a body is then done.
CheckFunction ==
  /\ Running /\ E.kind = "function" /\ st = 0
  /\ LET f == Fn[E.name]
         bad == CASE \E k \in DOMAIN f.params : f.params[k] \in {None, Void}
                       -> "Literal"
                  [] "exported" \in f.flags /\
                       ({"foreign", "intrinsic", "inline"} \cap f.flags # {}
                        \/ ~f.named) -> "Literal"
                  [] OTHER -> "none"
     IN  \/ /\ bad # "none"
            /\ Report(bad, 0)
            /\ UNCHANGED st
         \/ /\ bad = "none" /\ f.body
            /\ st' = 1
            /\ UNCHANGED <<ent, halted, msgs>>
         \/ /\ bad = "none" /\ ~f.body
            /\ Advance
  /\ UNCHANGED <<ents, body, ltype, calls, assigns>>

\* The driver's side of a checked statement (r): the locals' types, the
\* calls and assignments it settled, then the next statement or the report.
StatementDone(r) ==
  /\ ltype' = r.lt
  /\ calls' = calls \cup r.call
  /\ assigns' = [l \in AllLocals |->
                   assigns[l] + Len(SelectSeq(r.asg, LAMBDA v : v = l))]
  /\ \/ r.ok /\ st' = st + 1 /\ UNCHANGED <<ent, halted, msgs>>
     \/ ~r.ok /\ Fails(r.code, st) /\ UNCHANGED st

\* One turn of check_statement_chain over the body.
CheckStatement ==
  /\ Running /\ E.kind = "function" /\ st \in 1 .. Len(body)
  /\ StatementDone(CheckStmt(body[st], ltype, <<ent, st>>, Fn[E.name].ret))
  /\ UNCHANGED <<ents, body>>

\* Fault model: the scope's symbols are not checked.
CheckScopeNoSymbols(lt) == TRUE

\* After the body: every symbol of the block's scope has a type.
ScopeTyped(lt) == \A l \in Locals : lt[l] # None

\* The end of check_block, and of check_function.
CheckScope ==
  /\ Running /\ E.kind = "function" /\ st = Len(body) + 1
  /\ \/ ScopeTyped(ltype) /\ Advance
     \/ ~ScopeTyped(ltype) /\ Report("UnresolvedType", st) /\ UNCHANGED st
  /\ UNCHANGED <<ents, body, ltype, calls, assigns>>

\* check_overloaded_function: every option is a plain function.
CheckOverloaded ==
  /\ Running /\ E.kind = "overloaded"
  /\ \/ \A k \in DOMAIN Ovl[E.name] : Ovl[E.name][k] \in DOMAIN Fn
        /\ Advance
     \/ \E k \in DOMAIN Ovl[E.name] : Ovl[E.name][k] \notin DOMAIN Fn
        /\ Report("Literal", 0) /\ UNCHANGED st
  /\ UNCHANGED <<ents, body, ltype, calls, assigns>>

\* check_global: its type is known.
CheckGlobal ==
  /\ Running /\ E.kind = "global"
  /\ \/ GlobalTy[E.name] # None /\ Advance
     \/ GlobalTy[E.name] = None /\ Report("UnresolvedType", 0) /\ UNCHANGED st
  /\ UNCHANGED <<ents, body, ltype, calls, assigns>>

\* The driver's side of a checked expression entity (r).
ExpressionDone(r) ==
  /\ ltype' = r.lt
  /\ calls' = calls \cup r.call
  /\ \/ r.ok /\ Advance
     \/ ~r.ok /\ Fails(r.code, 0) /\ UNCHANGED st

\* check_expression on an expression entity (a call).
CheckExpression ==
  /\ Running /\ E.kind = "expression"
  /\ ExpressionDone(CheckCall(E.expr, ltype, <<ent, 0>>))
  /\ UNCHANGED <<ents, body, assigns>>

\* A string literal entity needs no check.
SkipStringLiteral ==
  /\ Running /\ E.kind = "strlit"
  /\ Advance
  /\ UNCHANGED <<ents, body, ltype, calls, assigns>>

\* onyx_type_check has returned, early or at the end of the list.
Returned ==
  /\ ~Running
  /\ UNCHANGED vars

Next ==
  \/ CheckFunction \/ CheckStatement \/ CheckScope \/ CheckOverloaded
  \/ CheckGlobal \/ CheckExpression \/ SkipStringLiteral \/ Returned

Spec == Init /\ [][Next]_vars
-----------------------------------------------------------------------------
(* Properties.                                                             *)

TypeOK ==
  /\ ent \in 1 .. Len(ents) + 1
  /\ st \in 0 .. Len(body) + 1
  /\ halted \in BOOLEAN
  /\ ltype \in [AllLocals -> STRING]
  /\ \A c \in calls : c.ok \in BOOLEAN /\ c.pos \in (1 .. Len(ents)) \X (0 .. Len(body))
  /\ assigns \in [AllLocals -> 0 .. 2 * Len(body)]
  /\ Len(msgs) <= 1

\* A constant local is assigned successfully at most once: the first raw
\* assignment gives it its type, and check_binaryop rejects every later one
\* (Ast_Flag_Const with a non-NULL type), whatever statements come between.
ConstAssignedOnce == \A l \in Const : assigns[l] <= 1

\* A local's type, once set by fill_in_type or by the inference of a raw
\* assignment, never changes: a later assignment of a compatible but
\* different type does not retype it.
LocalTypeStable ==
  [][\A l \in AllLocals : ltype[l] # None => ltype'[l] = ltype[l]]_vars

\* The locals declared in the scopes of the blocks nested in statement s.
RECURSIVE Declared(_)
Declared(s) ==
  (IF s.kind = "block" THEN s.scope \cup UNION {Declared(t) : t \in Range(s.stmts)}
                       ELSE {})
  \cup UNION {Declared(b) : b \in Range(s.thenB) \cup Range(s.elseB)}

\* When the driver has walked every entity without a diagnostic, every
\* local of the body and of the blocks nested in it has a type, and every
\* call was settled on a function with typed arguments (spec section 8: every typed node has a type).
CleanRunTyped ==
  (ent > Len(ents) /\ msgs = <<>>) =>
    /\ \A l \in Locals \cup UNION {Declared(s) : s \in Range(body)} :
         ltype[l] # None
    /\ \A c \in calls : c.ok /\ c.fn \in DOMAIN Fn /\ None \notin Range(c.args)

\* Spec 4.2 fill-in: a node with a type expression gets its type built
\* from it, so the block's scope check reports a symbol only when some
\* local has neither a type expression nor an inferred type.
ScopeReportsOnlyUntypeable ==
  \A i \in DOMAIN msgs :
    msgs[i].st = Len(body) + 1 =>
      \E l \in Locals : ltype[l] = None /\ DeclType[l] = None

=============================================================================
