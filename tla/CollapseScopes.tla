--------------------------- MODULE CollapseScopes ---------------------------
(***************************************************************************)
(* The local collapser, collapse_scopes in src/src/onyxsempass.c.          *)
(*                                                                         *)
(* Every function body is walked breadth first through a queue of blocks; *)
(* the local list of each nested block's scope (last_local, threaded      *)
(* backwards through prev_local) is spliced onto the front of the         *)
(* function scope's list and the nested scope's list is emptied.  The AST *)
(* is a constant; the state is the queue and the two pointer fields.      *)
(***************************************************************************)
EXTENDS Naturals, Sequences, SequencesExt, FiniteSets

CONSTANTS
  Funcs,     \* program->functions: the body block of each function, in order
  Kind,      \* node -> "block", "if", "while" or "stmt"
  Body,      \* block -> its statement list (block->body, walker->next)
  TrueB,     \* if -> its true block, or None
  FalseB,    \* if -> its false block (a block or an else-if), or None
  WBody,     \* while -> its body block
  ScopeOf,   \* block -> block->scope
  Scopes,    \* the scopes
  Locals,    \* the locals
  None       \* NULL

VARIABLES
  home,      \* the scope each local was declared in (input, fixed)
  fn,        \* the index of the function being collapsed (0 before any)
  queue,     \* traversal_queue
  last,      \* scope -> scope->last_local
  prev       \* local -> local->prev_local

vars == <<home, fn, queue, last, prev>>

Nodes == DOMAIN Kind

\* The scope of the function being collapsed: (*func)->body->scope.
TopScope == ScopeOf[Funcs[fn]]

\* Fault model: the branches pushed without the NULL checks.
BranchesUnchecked(n) == <<TrueB[n], FalseB[n]>>

\* The branches of an if node that are present, true block first.
Branches(n) == SelectSeq(<<TrueB[n], FalseB[n]>>, LAMBDA x : x # None)

\* Fault model: a while body is not pushed.
PushedNoWhile(w) ==
  CASE Kind[w] = "block" -> <<w>>
    [] Kind[w] = "if"    -> Branches(w)
    [] OTHER             -> <<>>

\* What the walker pushes for one statement of a block's body.
Pushed(w) ==
  CASE Kind[w] = "block" -> <<w>>
    [] Kind[w] = "while" -> <<WBody[w]>>
    [] Kind[w] = "if"    -> Branches(w)
    [] OTHER             -> <<>>

\* The walker over block->body, in statement order.
Children(b) == FlattenSeq([k \in DOMAIN Body[b] |-> Pushed(Body[b][k])])

\* Fault model: the walk to the first local is skipped.
FirstLocalNoWalk(l) == l

\* while (last_local && last_local->prev_local != NULL)
\*   last_local = last_local->prev_local;
RECURSIVE FirstLocal(_)
FirstLocal(l) == IF prev[l] = None THEN l ELSE FirstLocal(prev[l])

\* The initial lists: the locals of a scope chained in declaration order.
InitialLast(h) ==
  [s \in Scopes |-> LET ls == {l \in Locals : h[l] = s}
                    IN  IF ls = {} THEN None ELSE Max(ls)]

InitialPrev(h) ==
  [l \in Locals |-> LET ps == {p \in Locals : h[p] = h[l] /\ p < l}
                    IN  IF ps = {} THEN None ELSE Max(ps)]

Init ==
  /\ home \in [Locals -> Scopes]
  /\ fn = 0
  /\ queue = <<>>
  /\ last = InitialLast(home)
  /\ prev = InitialPrev(home)

-----------------------------------------------------------------------------
(* One action per turn of the loops.                                       *)

\* bh_arr_each over program->functions: the body block is pushed.
NextFunction ==
  /\ queue = <<>>
  /\ fn < Len(Funcs)
  /\ fn' = fn + 1
  /\ queue' = <<Funcs[fn + 1]>>
  /\ UNCHANGED <<home, last, prev>>

\* The head of the queue is an if node: its branches are pushed.
VisitIf ==
  /\ queue # <<>>
  /\ Kind[Head(queue)] = "if"
  /\ queue' = Tail(queue) \o Branches(Head(queue))
  /\ UNCHANGED <<home, fn, last, prev>>

\* Fault model: the nested scope's list is not cleared after the splice.
SpliceNoClear(s) ==
  \/ /\ s # TopScope /\ last[s] # None
     /\ prev' = [prev EXCEPT ![FirstLocal(last[s])] = last[TopScope]]
     /\ last' = [last EXCEPT ![TopScope] = last[s]]
  \/ /\ s = TopScope \/ last[s] = None
     /\ UNCHANGED <<last, prev>>

\* Unless s is the function's own scope or has no locals, its list is put
\* in front of the function scope's list (its first local now points back
\* to the function scope's old last local) and s's list is cleared.
Splice(s) ==
  \/ /\ s # TopScope /\ last[s] # None
     /\ prev' = [prev EXCEPT ![FirstLocal(last[s])] = last[TopScope]]
     /\ last' = [last EXCEPT ![TopScope] = last[s], ![s] = None]
  \/ /\ s = TopScope \/ last[s] = None
     /\ UNCHANGED <<last, prev>>

\* The head of the queue is a block: its scope is spliced, then the nested
\* blocks, while bodies and if branches of its body are pushed, and the
\* head is removed.
VisitBlock ==
  /\ queue # <<>>
  /\ Kind[Head(queue)] # "if"
  /\ Splice(ScopeOf[Head(queue)])
  /\ queue' = Tail(queue) \o Children(Head(queue))
  /\ UNCHANGED <<home, fn>>

\* Every function has been collapsed.
Collapsed ==
  /\ queue = <<>>
  /\ fn = Len(Funcs)
  /\ UNCHANGED vars

Next == NextFunction \/ VisitIf \/ VisitBlock \/ Collapsed

Spec == Init /\ [][Next]_vars

-----------------------------------------------------------------------------
(* Properties.                                                             *)

TypeOK ==
  /\ home \in [Locals -> Scopes]
  /\ fn \in 0 .. Len(Funcs)
  /\ queue \in Seq(Nodes)
  /\ last \in [Scopes -> Locals \cup {None}]
  /\ prev \in [Locals -> Locals \cup {None}]

\* The list of scope s, from its last local back, cut off after one more
\* than the number of locals so that a cycle shows as a too-long list.
RECURSIVE Walk(_, _)
Walk(l, k) == IF l = None \/ k = 0 THEN <<>> ELSE <<l>> \o Walk(prev[l], k - 1)

ListOf(s) == Walk(last[s], Cardinality(Locals) + 1)

\* At every step each local is on exactly one scope's list and no list runs
\* into a cycle: a splice neither loses, duplicates nor re-links a local.
LocalsPartitioned ==
  /\ \A s \in Scopes : Len(ListOf(s)) <= Cardinality(Locals)
  /\ \A l \in Locals : Cardinality({s \in Scopes : l \in ToSet(ListOf(s))}) = 1

\* The nodes of the tree below n (the statements, while bodies and
\* branches a walk can reach).
RECURSIVE Below(_)
Below(n) ==
  LET kids == CASE Kind[n] = "block" -> ToSet(Body[n])
                [] Kind[n] = "while" -> {WBody[n]}
                [] Kind[n] = "if"    -> ToSet(Branches(n))
                [] OTHER             -> {}
  IN  {n} \cup UNION {Below(c) : c \in kids}

\* The scopes of the blocks of function f's body.
ScopesOf(f) == {ScopeOf[b] : b \in {n \in Below(Funcs[f]) : Kind[n] = "block"}}

\* Once every function is done, each local declared anywhere in a
\* function's body is on that function scope's list, and the nested
\* scopes' lists are empty (spec 4.3).
CollapsedAtEnd ==
  (queue = <<>> /\ fn = Len(Funcs)) =>
    \A f \in 1 .. Len(Funcs) :
      /\ \A l \in Locals : home[l] \in ScopesOf(f) =>
                             l \in ToSet(ListOf(ScopeOf[Funcs[f]]))
      /\ \A s \in ScopesOf(f) \ {ScopeOf[Funcs[f]]} : last[s] = None

=============================================================================
