-------------------------- MODULE MCCollapseScopes --------------------------
EXTENDS CollapseScopes

(* Function 1's body (block 1, scope s1) holds a block (2, scope s2) with *)
(* a while (5) whose body is block 6 (s3) and a block 11 that shares the  *)
(* function's scope; an if (3) with a true block 7 (s4) and an else-if    *)
(* (8) whose true block is 9 (s5); and two plain statements.  Function 2 *)
(* (block 12, s6) holds one nested block 13 (s7).                         *)
MCFuncs == <<1, 12>>

MCKind ==
  [n \in 1 .. 13 |->
     CASE n \in {1, 2, 6, 7, 9, 11, 12, 13} -> "block"
       [] n \in {3, 8} -> "if"
       [] n = 5        -> "while"
       [] OTHER        -> "stmt"]

MCBody ==
  [n \in 1 .. 13 |->
     CASE n = 1  -> <<2, 3, 4, 10>>
       [] n = 2  -> <<5, 11>>
       [] n = 12 -> <<13>>
       [] OTHER  -> <<>>]

MCTrueB  == [n \in 1 .. 13 |-> CASE n = 3 -> 7 [] n = 8 -> 9 [] OTHER -> 0]
MCFalseB == [n \in 1 .. 13 |-> IF n = 3 THEN 8 ELSE 0]
MCWBody  == [n \in 1 .. 13 |-> IF n = 5 THEN 6 ELSE 0]

MCScopeOf ==
  [n \in 1 .. 13 |->
     CASE n \in {1, 11} -> "s1"
       [] n = 2  -> "s2"
       [] n = 6  -> "s3"
       [] n = 7  -> "s4"
       [] n = 9  -> "s5"
       [] n = 12 -> "s6"
       [] n = 13 -> "s7"
       [] OTHER  -> "none"]

MCScopes == {"s1", "s2", "s3", "s4", "s5", "s6", "s7"}
=============================================================================
