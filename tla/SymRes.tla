------------------------------- MODULE SymRes -------------------------------
(***************************************************************************)
(* The symbol resolver, src/src/onyxsymres.c: onyx_resolve_symbols and    *)
(* the walkers it calls for use-package, function, overloaded-function,   *)
(* global, expression and struct entities, and symres_type for the type  *)
(* expressions of parameters, locals, return types, globals and structs. *)
(*                                                                         *)
(* The AST is a constant Ast: node -> record (kind, name, head, next,     *)
(* var, start, end, step, cond, then, else, loop, callee, args, expr,     *)
(* type, ret, count); the fields a kind does not use are None.  A field   *)
(* access a.f has kind "field", its receiver a in expr and f in name.     *)
(* What the walk changes is state: the statement chains (head of each     *)
(* block, next of each node), the scopes (parent, symbols), curr_scope,   *)
(* curr_function, each function's local list, the resolution of every    *)
(* symbol node (and what each field access became), the implicit first   *)
(* argument of each call rewritten by uniform call syntax, the struct     *)
(* types flagged as resolved, and the message log.  The walk of one       *)
(* entity is one step; the recursive walkers thread a record S holding    *)
(* that state.  A scope is named by its owner: "global", a package, its   *)
(* include scope, a function, or a block or for node.                      *)
(***************************************************************************)
EXTENDS Naturals, Sequences, SequencesExt, FiniteSets

CONSTANTS
  Ast,        \* node -> its fields
  Fn,         \* function name -> [pkg, params, type, body]
  Options,    \* overloaded-function name -> the option symbols, in order
  GType,      \* global name -> the symbol of its type expression
  Entities,   \* the possible entity lists
  Packages,   \* the package names
  Inc,        \* package -> the name of its include scope
  PkgSyms,    \* package -> name -> the declaration bound at top level
  Builtins,   \* the names builtin_symbols puts in the global scope
  Names,      \* every identifier
  TypeDecls,  \* the declarations that are types (node_is_type)
  None        \* NULL

VARIABLES
  ents,       \* program->entities (input, fixed)
  ent,        \* the entity the driver is at
  st          \* the resolver's state: the record S below

vars == <<ents, ent, st>>

Nodes == DOMAIN Ast
Scopes == {"global"} \cup Packages \cup {Inc[p] : p \in Packages}
          \cup DOMAIN Fn \cup {n \in Nodes : Ast[n].kind \in {"block", "for"}}

-----------------------------------------------------------------------------
(* Scopes and symbols (scope_enter, scope_leave; symbol_introduce,        *)
(* symbol_resolve and scope_include are in onyxutils.c, outside src/).    *)

\* onyx_message_add.
Report(S, code, nm) == [S EXCEPT !.msgs = Append(@, [code |-> code, name |-> nm])]

\* scope_create(allocator, curr_scope).
Create(S, sc) == [S EXCEPT !.parent[sc] = S.cur]

\* scope_enter: the parent is set only if it is unset.
Enter(S, sc) ==
  [S EXCEPT !.parent[sc] = IF @ = None THEN S.cur ELSE @, !.cur = sc]

\* scope_leave: back to the parent, whatever was current before.
Leave(S) == [S EXCEPT !.cur = S.parent[S.cur]]

\* symbol_introduce: a name already bound in the scope is reported and the
\* first binding kept.
Introduce(S, sc, nm, d) ==
  IF S.syms[sc][nm] # None
  THEN Report(S, "Redeclare", nm)
  ELSE [S EXCEPT !.syms[sc][nm] = d]

\* symbol_resolve: the scope and its parents, innermost first.
RECURSIVE Lookup(_, _, _)
Lookup(S, sc, nm) ==
  IF sc = None THEN None
  ELSE IF S.syms[sc][nm] # None THEN S.syms[sc][nm]
  ELSE Lookup(S, S.parent[sc], nm)

\* A symbol node is replaced by what it resolves to; NULL is reported
\* (by symbol_resolve).
Resolve(S, u) ==
  LET d == Lookup(S, S.cur, Ast[u].name)
  IN  IF d = None THEN [Report(S, "UnresolvedSymbol", Ast[u].name) EXCEPT !.res[u] = d]
                  ELSE [S EXCEPT !.res[u] = d]

-----------------------------------------------------------------------------
(* The walkers.                                                            *)

\* The local is put on curr_function's list and introduced into the
\* current scope.  With no function yet, curr_function is NULL and the
\* push dereferences it.
PushLocal(S, l) ==
  IF S.fn = None THEN [S EXCEPT !.crashed = TRUE]
  ELSE [S EXCEPT !.flocals[S.fn] = Append(@, l)]

\* *trailer = v, the trailer being <<"head", block>> (the block's body
\* field) or <<"next", node>> (the node's next field).
SetTrailer(S, tr, v) ==
  IF tr[1] = "head" THEN [S EXCEPT !.head[tr[2]] = v]
                    ELSE [S EXCEPT !.next[tr[2]] = v]

RECURSIVE ResolveArgs(_, _, _)
ResolveArgs(S, as, i) ==
  IF i > Len(as) THEN S ELSE ResolveArgs(Resolve(S, as[i]), as, i + 1)

\* Fault model: the field is looked up in the current scope.
FieldInCurrentScope(S, fa, n) ==
  LET m == Lookup(S, S.cur, Ast[fa].name)
  IN  CASE S.res[Ast[fa].expr] \notin Packages -> S
        [] m = None -> Report(S, "UnresolvedSymbol", Ast[fa].name)
        [] OTHER    -> [S EXCEPT !.res[fa] = m]

\* The rest of symres_field_access once the receiver is resolved: when it
\* is a package node, the field is resolved in the package's scope (n,
\* by symbol_resolve, which reports a miss) and, if found, replaces the
\* field access.  res of the field access is what replaced it, or None.
FieldIn(S, fa, n) ==
  CASE S.res[Ast[fa].expr] \notin Packages -> S
    [] n = None -> Report(S, "UnresolvedSymbol", Ast[fa].name)
    [] OTHER    -> [S EXCEPT !.res[fa] = n]

FieldOf(S, fa) == FieldIn(S, fa, Lookup(S, S.res[Ast[fa].expr], Ast[fa].name))

\* symres_field_access: the receiver first.
FieldAccess(S, fa) == FieldOf(Resolve(S, Ast[fa].expr), fa)

\* The rest of symres_call once a field-access callee fa is walked: a
\* receiver that did not resolve ends the call's walk; a field access
\* left in place is rewritten by uniform call syntax (the receiver becomes
\* the implicit first argument and the callee is the field's name
\* resolved in the current scope, NULL on a miss).  Then the arguments.
Ufcs(S, c, fa) ==
  CASE S.res[fa] # None           -> ResolveArgs(S, Ast[c].args, 1)
    [] S.res[Ast[fa].expr] = None -> S
    [] OTHER ->
         ResolveArgs([Resolve(S, fa) EXCEPT !.implicit[c] = S.res[Ast[fa].expr]],
                     Ast[c].args, 1)

\* symres_call: the callee, then (if it resolved) the arguments; a
\* field-access callee goes through symres_field_access and Ufcs.
CallFrom(S, c) ==
  IF S.res[Ast[c].callee] = None THEN S ELSE ResolveArgs(S, Ast[c].args, 1)

SymresCall(S, c) ==
  IF Ast[Ast[c].callee].kind = "field"
  THEN Ufcs(FieldAccess(S, Ast[c].callee), c, Ast[c].callee)
  ELSE CallFrom(Resolve(S, Ast[c].callee), c)

\* The kinds of type nodes.
TypeKinds == {"use", "field", "basic", "ptr", "fntype", "struct", "array"}

\* The rest of symres_type's field-access case: a field that did not
\* become a type is reported.
\* Fault model: accept any symbol the field access resolved to as a type.
TypeOfFieldResolved(S, t) ==
  IF S.res[t] # None THEN S ELSE Report(S, "NotAType", Ast[t].name)

TypeOfField(S, t) ==
  IF S.res[t] \in TypeDecls THEN S ELSE Report(S, "NotAType", Ast[t].name)

\* The symbol symres_type(t) resolves first: a symbol itself, a field
\* access's receiver (symres_field_access walks it first), an array's
\* count (an expression, here a symbol).
TypeSym(t) ==
  CASE Ast[t].kind = "use"   -> t
    [] Ast[t].kind = "field" -> Ast[t].expr
    [] Ast[t].kind = "array" -> Ast[t].count
    [] OTHER                 -> None

\* The rest of symres_type(t) at one node: a field access becomes what
\* symres_field_access made of it; a struct's resolved flag is set before
\* its members are walked; a basic type is already resolved; any other
\* kind fails the "Bad type node" assertion.
TypeRest(S, t) ==
  CASE Ast[t].kind = "field"  -> TypeOfField(FieldOf(S, t), t)
    [] Ast[t].kind = "struct" -> [S EXCEPT !.typed = @ \cup {t}]
    [] Ast[t].kind \in TypeKinds -> S
    [] OTHER -> [S EXCEPT !.crashed = TRUE]

\* symres_type(t), one node: a symbol is replaced by what it resolves to
\* (kept in res).
TypeNode(S, t) ==
  TypeRest(IF TypeSym(t) = None THEN S ELSE Resolve(S, TypeSym(t)), t)

\* The structs a walk w visits, each of which it flags as resolved.
Flagged(w) == {x \in Range(w) : Ast[x].kind = "struct"}

\* The type nodes symres_type walks from t, in its order (depth first,
\* each node before what is below it): a pointer's or array's element, a
\* function type's return type and then its parameters, and the members
\* of a struct whose resolved flag is not yet set.  done holds the
\* structs flagged so far: a struct is flagged before its members are
\* walked, and a sibling walked later sees the flags an earlier one set.
RECURSIVE WalkOrder(_, _), WalkAll(_, _), WalkOrderLastSkipped(_, _)

\* Fault model: the parameter loop stops one short (an exclusive
\* fori (i, 0, param_count - 1)).
WalkOrderLastSkipped(t, done) ==
  LET a == Ast[t]
  IN  <<t>> \o
      CASE a.kind \in {"ptr", "array"} -> WalkAll(<<a.expr>>, done)
        [] a.kind = "fntype" ->
             WalkAll(<<a.ret>> \o SubSeq(a.args, 1, Len(a.args) - 1), done)
        [] a.kind = "struct" /\ t \notin done -> WalkAll(a.args, done \cup {t})
        [] OTHER -> <<>>

WalkOrder(t, done) ==
  LET a == Ast[t]
  IN  <<t>> \o
      CASE a.kind \in {"ptr", "array"} -> WalkAll(<<a.expr>>, done)
        [] a.kind = "fntype" -> WalkAll(<<a.ret>> \o a.args, done)
        [] a.kind = "struct" /\ t \notin done -> WalkAll(a.args, done \cup {t})
        [] OTHER -> <<>>

\* symres_type on each of ms in turn; NULL returns at once.
WalkAll(ms, done) ==
  CASE ms = <<>>       -> <<>>
    [] Head(ms) = None -> WalkAll(Tail(ms), done)
    [] OTHER           -> LET w == WalkOrder(Head(ms), done)
                          IN  w \o WalkAll(Tail(ms), done \cup Flagged(w))

\* Each type node of the walk in turn.
RECURSIVE TypeFold(_, _)
TypeFold(S, ts) == IF ts = <<>> THEN S ELSE TypeFold(TypeNode(S, Head(ts)), Tail(ts))

\* symres_type(t).
SymresType(S, t) == TypeFold(S, WalkAll(<<t>>, S.typed))

\* symres_local once its type is resolved: the push and symbol_introduce.
LocalTyped(T, l) == Introduce(PushLocal(T, l), T.cur, Ast[l].name, l)

\* symres_local.
SymresLocal(S, l) == LocalTyped(SymresType(S, Ast[l].type), l)

\* Before the sub-statements of an if or a while: the condition; of a for:
\* its scope is created and entered, its variable pushed and introduced,
\* and its start, end and step (if any) resolved.
Header(S, n) ==
  LET a == Ast[n]
      T == Resolve(Resolve(Introduce(PushLocal(Enter(Create(S, n), n), a.var),
                                     n, Ast[a.var].name, a.var), a.start), a.end)
  IN  CASE a.kind # "for"  -> Resolve(S, a.cond)
        [] a.step = None   -> T
        [] OTHER           -> Resolve(T, a.step)

\* The sub-statements of an if (the branches present), a while or a for.
Bodies(n) ==
  LET a == Ast[n]
      opt(m) == IF m = None THEN <<>> ELSE <<m>>
  IN  IF a.kind = "if" THEN opt(a.then) \o opt(a.else) ELSE <<a.loop>>

\* After them: a for's scope is left.
Footer(S, n) == IF Ast[n].kind = "for" THEN Leave(S) ELSE S

RECURSIVE Statement(_, _), Chain(_, _, _), ChainStep(_, _, _), Block(_, _),
          Branches(_, _)
RECURSIVE ChainNoUnlink(_, _, _), NoUnlinkStep(_, _, _)
RECURSIVE ChainClearFirst(_, _, _), ClearFirstStep(_, _, _)
RECURSIVE BlockNoLeave(_, _), BlockEnterIfBody(_, _)

\* The sub-statements ms walked in order.
Branches(S, ms) ==
  IF ms = <<>> THEN S ELSE Branches(Statement(S, Head(ms)).s, Tail(ms))

\* symres_statement: the new state, and whether the statement is to be
\* taken out of its chain (a local declaration).  An if's branches are
\* walked, but a local that is a branch by itself is not taken out.
Statement(S, n) ==
  LET k == Ast[n].kind
      keep(T) == [s |-> T, rm |-> FALSE]
  IN  CASE k = "local" -> [s |-> SymresLocal(S, n), rm |-> TRUE]
        [] k \in {"if", "while", "for"} ->
             keep(Footer(Branches(Header(S, n), Bodies(n)), n))
        [] k = "call"  -> keep(SymresCall(S, n))
        [] k = "block" -> keep(Block(S, n))
        [] OTHER       -> keep(Resolve(S, n))

\* Fault model: a removed statement is not unlinked (*trailer unchanged).
ChainNoUnlink(S, w, tr) ==
  IF w = None THEN S ELSE NoUnlinkStep(Statement(S, w), w, tr)

NoUnlinkStep(r, w, tr) ==
  IF r.rm THEN ChainNoUnlink(r.s, r.s.next[w], tr)
  ELSE ChainNoUnlink(r.s, r.s.next[w], <<"next", w>>)

\* Fault model: walker->next is cleared before it is read.
ChainClearFirst(S, w, tr) ==
  IF w = None THEN S ELSE ClearFirstStep(Statement(S, w), w, tr)

ClearFirstStep(r, w, tr) ==
  IF r.rm
  THEN ChainClearFirst(SetTrailer([r.s EXCEPT !.next[w] = None], tr, None), None, tr)
  ELSE ChainClearFirst(r.s, r.s.next[w], <<"next", w>>)

\* symres_statement_chain from walker w, tr being where the pointer to w
\* is stored.
Chain(S, w, tr) ==
  IF w = None THEN S ELSE ChainStep(Statement(S, w), w, tr)

\* One turn once statement w is walked (r): a removed statement is
\* unlinked (the trailer takes its next, and its next is cleared);
\* otherwise the trailer moves on to it.
ChainStep(r, w, tr) ==
  LET nx == r.s.next[w]
  IN  Chain(IF r.rm THEN [SetTrailer(r.s, tr, nx) EXCEPT !.next[w] = None] ELSE r.s,
            nx, IF r.rm THEN tr ELSE <<"next", w>>)

\* Fault model: the block's scope is never left.
BlockNoLeave(S, b) ==
  LET S1 == Enter(IF S.parent[b] = None THEN Create(S, b) ELSE S, b)
  IN  IF S1.head[b] = None THEN S1 ELSE Chain(S1, S1.head[b], <<"head", b>>)

\* Fault model: the scope is entered only for a non-empty body, but
\* always left.
BlockEnterIfBody(S, b) ==
  LET S0 == IF S.parent[b] = None THEN Create(S, b) ELSE S
  IN  Leave(IF S0.head[b] = None THEN S0
            ELSE Chain(Enter(S0, b), S0.head[b], <<"head", b>>))

\* symres_block: a scope is created if the block has none, entered for
\* the chain and left.
Block(S, b) ==
  LET S1 == Enter(IF S.parent[b] = None THEN Create(S, b) ELSE S, b)
  IN  Leave(IF S1.head[b] = None THEN S1
            ELSE Chain(S1, S1.head[b], <<"head", b>>))
-----------------------------------------------------------------------------
(* The entity walkers.                                                     *)

\* Fault model: the parameters are introduced before scope_enter.
SymresFunctionParamsFirst(S, f) ==
  LET ps == Fn[f].params
      RECURSIVE Params(_, _)
      Params(T, i) ==
        IF i > Len(ps) THEN T
        ELSE Params(Introduce(SymresType(T, Ast[ps[i]].type), T.cur,
                              Ast[ps[i]].name, ps[i]), i + 1)
      S1 == Params(S, 1)
      S2 == Enter(IF S1.parent[f] = None THEN Create(S1, f) ELSE S1, f)
  IN  Leave(Block([SymresType(S2, Fn[f].type) EXCEPT !.fn = f], Fn[f].body))

\* symres_function: the function's scope (created if absent) is entered,
\* each parameter's type is resolved and the parameter introduced, the
\* function's type node (its return and parameter types) is resolved,
\* curr_function is set, and the body is walked; curr_function is left
\* set afterwards.
SymresFunction(S, f) ==
  LET S1 == Enter(IF S.parent[f] = None THEN Create(S, f) ELSE S, f)
      ps == Fn[f].params
      RECURSIVE Params(_, _)
      Params(T, i) ==
        IF i > Len(ps) THEN T
        ELSE Params(Introduce(SymresType(T, Ast[ps[i]].type), f,
                              Ast[ps[i]].name, ps[i]), i + 1)
  IN  Leave(Block([SymresType(Params(S1, 1), Fn[f].type) EXCEPT !.fn = f],
                  Fn[f].body))

\* Each listed name is resolved in the package's scope and introduced
\* into the include scope; the first that is missing is reported and
\* ends symres_use_package.
OnlyList(S, p, only) ==
  LET inc == Inc[S.pkg]
      RECURSIVE Loop(_, _)
      Loop(T, i) ==
        IF i > Len(only) THEN T
        ELSE LET d == Lookup(T, p, only[i])
             IN  IF d = None
                 THEN Report(T, "NotFoundInPackage", only[i])
                 ELSE Loop(Introduce(T, inc, only[i], d), i + 1)
  IN  Loop(S, 1)

\* scope_include: every binding of the package's scope whose name is not
\* yet bound in the include scope is added (spec 4.1: the first binding
\* wins).
Merge(S, p) ==
  LET inc == Inc[S.pkg]
  IN  [S EXCEPT !.syms[inc] =
         [nm \in Names |-> IF @[nm] = None THEN S.syms[p][nm] ELSE @[nm]]]

\* symres_use_package: a missing package is reported; using the current
\* package does nothing; an alias binds a package node, an only-list its
\* names, and neither merges the whole scope.
SymresUsePackage(S, e) ==
  LET p == e.target
      S1 == IF e.alias = None THEN S
            ELSE Introduce(S, Inc[S.pkg], e.alias, p)
      S2 == IF e.hasOnly THEN OnlyList(S1, p, e.only) ELSE S1
  IN  CASE p \notin Packages -> Report(S, "PackageNotFound", p)
        [] p = S.cur          -> S
        [] OTHER ->
             IF e.alias = None /\ ~e.hasOnly THEN Merge(S2, p) ELSE S2

\* symres_overloaded_function: each option symbol is resolved.
SymresOverloaded(S, o) == ResolveArgs(S, Options[o], 1)

\* The walk of one entity: its package's scope is entered and
\* curr_package set, the entity's walker runs, and the scope is left.
SymresEntity(S, e) ==
  LET S1 == [Enter(S, e.pkg) EXCEPT !.pkg = e.pkg]
      S2 == CASE e.kind = "use_package" -> SymresUsePackage(S1, e)
              [] e.kind = "function"    -> SymresFunction(S1, e.name)
              [] e.kind = "overloaded"  -> SymresOverloaded(S1, e.name)
              [] e.kind = "global"      -> SymresType(S1, GType[e.name])
              [] e.kind = "expression"  -> Statement(S1, e.node).s
              [] e.kind = "struct"      -> SymresType(S1, e.node)
  IN  Leave(S2)

-----------------------------------------------------------------------------

\* The state after the builtins are put into the global scope: a package's
\* scope has its include scope as parent and that has the global scope.
InitialState ==
  [cur     |-> "global",
   pkg     |-> None,
   parent  |-> [sc \in Scopes |->
                  CASE sc \in Packages -> Inc[sc]
                    [] sc \in {Inc[p] : p \in Packages} -> "global"
                    [] OTHER -> None],
   syms    |-> [sc \in Scopes |-> [nm \in Names |->
                  CASE sc = "global" /\ nm \in Builtins -> "builtin"
                    [] sc \in Packages -> PkgSyms[sc][nm]
                    [] OTHER -> None]],
   fn      |-> None,
   flocals |-> [f \in DOMAIN Fn |-> <<>>],
   head    |-> [b \in Nodes |-> Ast[b].head],
   next    |-> [n \in Nodes |-> Ast[n].next],
   res     |-> [n \in Nodes |-> None],
   implicit |-> [n \in Nodes |-> None],
   msgs    |-> <<>>,
   typed   |-> {},
   crashed |-> FALSE]

Init ==
  /\ ents \in Entities
  /\ ent = 1
  /\ st = InitialState

\* One turn of the loop over program->entities.
ResolveEntity ==
  /\ ent <= Len(ents) /\ ~st.crashed
  /\ st' = SymresEntity(st, ents[ent])
  /\ ent' = ent + 1
  /\ UNCHANGED ents

\* onyx_resolve_symbols has returned (or the process has crashed).
Resolved ==
  /\ ent > Len(ents) \/ st.crashed
  /\ UNCHANGED vars

Next == ResolveEntity \/ Resolved

Spec == Init /\ [][Next]_vars
-----------------------------------------------------------------------------
(* Reference definitions over the original AST.                           *)

\* The statements of block b's original chain, in order.
RECURSIVE ChainFrom(_)
ChainFrom(w) == IF w = None THEN <<>> ELSE <<w>> \o ChainFrom(Ast[w].next)

OrigChain(b) == ChainFrom(Ast[b].head)

\* The chain of block b now.
RECURSIVE ChainNow(_, _)
ChainNow(w, k) == IF w = None \/ k = 0 THEN <<>>
                  ELSE <<w>> \o ChainNow(st.next[w], k - 1)

IsLocal(n) == Ast[n].kind = "local"

\* The nodes directly below node n, in the order the walk visits them: a
\* for node's variable, start, end, step and body; an if's condition and branches.
Children(n) ==
  LET a == Ast[n]
      opt(m) == IF m = None THEN <<>> ELSE <<m>>
  IN  CASE a.kind = "block" -> OrigChain(n)
        [] a.kind = "for"   -> <<a.var, a.start, a.end>> \o opt(a.step) \o <<a.loop>>
        [] a.kind = "if"    -> <<a.cond>> \o opt(a.then) \o opt(a.else)
        [] a.kind = "while" -> <<a.cond, a.loop>>
        [] a.kind = "call"  -> <<a.callee>> \o a.args
        [] a.kind = "field" -> <<a.expr>>
        [] OTHER            -> <<>>

\* The subtree of n in walk order.
RECURSIVE Order(_)
Order(n) == <<n>> \o FlattenSeq([k \in DOMAIN Children(n) |-> Order(Children(n)[k])])

\* Pairs <<m, sc>>: node m below n is in scope sc, n being in scope sc0.
\* A block and a for open their own scope.
RECURSIVE HomeIn(_, _)
HomeIn(n, sc0) ==
  LET inner == IF Ast[n].kind \in {"block", "for"} THEN n ELSE sc0
  IN  {<<n, sc0>>} \cup UNION {HomeIn(c, inner) : c \in ToSet(Children(n))}

Homes == UNION {{<<p, f>> : p \in ToSet(Fn[f].params)} \cup HomeIn(Fn[f].body, f)
                : f \in DOMAIN Fn}

InFunctions == {h[1] : h \in Homes}

\* The scope each node of a function is in.
HomeOf == [m \in InFunctions |-> CHOOSE sc \in Scopes : <<m, sc>> \in Homes]

Home(m) == HomeOf[m]

\* The scope a block, for or function scope lies in, statically.
StaticParent(sc) == IF sc \in DOMAIN Fn THEN Fn[sc].pkg ELSE Home(sc)

\* sc and the scopes around it, up to its function's package.
RECURSIVE AroundOf(_)
AroundOf(sc) == IF sc \in Packages THEN {sc} ELSE {sc} \cup AroundOf(StaticParent(sc))

AroundMap == [sc \in {Home(m) : m \in InFunctions} |-> AroundOf(sc)]

Around(sc) == AroundMap[sc]

\* Each function body in walk order, and each node's position in it.
BodyOrder == [f \in DOMAIN Fn |-> Order(Fn[f].body)]

PosMap == [f \in DOMAIN Fn |->
             [n \in ToSet(BodyOrder[f]) |->
                CHOOSE k \in DOMAIN BodyOrder[f] : BodyOrder[f][k] = n]]
-----------------------------------------------------------------------------
(* Properties.                                                             *)

TypeOK ==
  /\ ent \in 1 .. Len(ents) + 1
  /\ st.cur \in Scopes
  /\ st.parent \in [Scopes -> Scopes \cup {None}]
  /\ st.fn \in DOMAIN Fn \cup {None}
  /\ st.head \in [Nodes -> Nodes \cup {None}]
  /\ st.next \in [Nodes -> Nodes \cup {None}]
  /\ st.typed \subseteq Nodes
  /\ st.crashed \in BOOLEAN

\* The functions whose entities have been walked.
Walked == {ents[i].name : i \in {i \in 1 .. ent - 1 : ents[i].kind = "function"}}

\* Each walked function's local list holds the locals and for variables
\* of its body, each once, in the order they are declared (spec 4.1 and
\* section 8), though the chain walk unlinks each local as it goes.
LocalsOfFunction ==
  \A f \in Walked : st.flocals[f] = SelectSeq(BodyOrder[f], IsLocal)

\* After a function is walked, each of its blocks' chains is the original
\* chain without the local declarations, in the original order, and each
\* unlinked local's next is NULL.
ChainsWithoutLocals ==
  \A f \in Walked :
    \A b \in {n \in ToSet(BodyOrder[f]) : Ast[n].kind = "block"} :
      /\ ChainNow(st.head[b], Cardinality(Nodes))
           = SelectSeq(OrigChain(b), LAMBDA n : ~IsLocal(n))
      /\ \A l \in ToSet(OrigChain(b)) : IsLocal(l) => st.next[l] = None

\* A parameter, local or for variable is bound only in the scope of the
\* function, block or for that declares it: scope_enter and scope_leave
\* keep curr_scope in step with the walk.
BindingsInOwnScope ==
  \A sc \in Scopes, nm \in Names :
    st.syms[sc][nm] \in InFunctions => Home(st.syms[sc][nm]) = sc

\* A symbol in a function resolves to a parameter or local only if it is
\* declared in a scope around the symbol and, for a local, before it.
UsesSeeEnclosingDecls ==
  \A u \in InFunctions :
    LET d == st.res[u]
    IN  d \in InFunctions =>
          /\ Home(d) \in Around(Home(u))
          /\ \A f \in DOMAIN Fn :
               d \in DOMAIN PosMap[f] /\ u \in DOMAIN PosMap[f]
                 => PosMap[f][d] < PosMap[f][u]

\* The type expressions an entity's walk starts from: a global's type, a
\* struct, a function's parameter, return and local types.
TypeRoots(e) ==
  CASE e.kind = "global" -> {GType[e.name]}
    [] e.kind = "struct" -> {e.node}
    [] e.kind = "function" ->
         {Ast[p].type : p \in ToSet(Fn[e.name].params)} \cup {Fn[e.name].type}
         \cup {Ast[l].type : l \in {n \in ToSet(BodyOrder[e.name]) : IsLocal(n)}}
    [] OTHER -> {}

\* The type nodes below type node t, t included.
RECURSIVE TypeTree(_)
TypeTree(t) ==
  IF t = None THEN {}
  ELSE LET a == Ast[t]
       IN  {t} \cup CASE a.kind \in {"ptr", "array"} -> TypeTree(a.expr)
                      [] a.kind = "fntype" -> TypeTree(a.ret) \cup UNION {TypeTree(p) : p \in ToSet(a.args)}
                      [] a.kind = "struct" -> UNION {TypeTree(m) : m \in ToSet(a.args)}
                      [] OTHER -> {}

\* The type nodes of the entities walked so far.
WalkedTypes == UNION {UNION {TypeTree(t) : t \in TypeRoots(ents[i])} : i \in 1 .. ent - 1}

Reported(code, nm) == [code |-> code, name |-> nm] \in Range(st.msgs)

\* Spec 4.1: every type expression is filled in, and a name that cannot be
\* resolved is reported.  After an entity is walked, every symbol in its
\* type expressions (below pointers, arrays, struct members, and function
\* types' return and parameter types) is resolved, or its name is
\* reported.
TypeNamesResolvedOrReported ==
  \A u \in WalkedTypes :
    Ast[u].kind = "use" => st.res[u] # None \/ Reported("UnresolvedSymbol", Ast[u].name)

\* A package-qualified name in a type expression (symres_type's field
\* access case) ends as a type declaration of the package the receiver
\* names (its own declaration first), or the walk reports that it did not result in a type; the
\* receiver itself is resolved in the current scope or reported.
TypeFieldsAreTypes ==
  \A t \in WalkedTypes :
    Ast[t].kind = "field" =>
      /\ st.res[t] # None =>
           LET p == st.res[Ast[t].expr]
           IN  p \in Packages /\ PkgSyms[p][Ast[t].name] \in {None, st.res[t]}
      /\ st.res[t] \in TypeDecls \/ Reported("NotAType", Ast[t].name)
      /\ st.res[Ast[t].expr] # None \/ Reported("UnresolvedSymbol", Ast[Ast[t].expr].name)

\* The calls of walked functions whose callee is a field access.
QualifiedCallsOf == {c \in InFunctions : Ast[c].kind = "call" /\ Ast[Ast[c].callee].kind = "field"}

\* Package-qualified names and uniform call syntax (spec 4.1): after its
\* function is walked, a call a.f(args) whose receiver a resolved to a
\* package that declares f calls that declaration, with its arguments as
\* written; one whose receiver resolved to a value is rewritten to call f
\* with the value as its first argument; and a rewritten call's callee is
\* resolved or its name is reported.
QualifiedCalls ==
  \A f \in Walked, c \in QualifiedCallsOf :
    LET fa == Ast[c].callee
        d  == st.res[Ast[fa].expr]
        nm == Ast[fa].name
    IN  c \in ToSet(BodyOrder[f]) /\ d # None =>
          /\ d \in Packages /\ PkgSyms[d][nm] # None =>
               st.res[fa] = PkgSyms[d][nm] /\ st.implicit[c] = None
          /\ d \notin Packages => st.implicit[c] = d
          /\ st.implicit[c] # None =>
               \/ st.res[fa] # None
               \/ Reported("UnresolvedSymbol", nm)

=============================================================================
