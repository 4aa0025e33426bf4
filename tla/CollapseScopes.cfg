CONSTANTS
  Funcs <- MCFuncs
  Kind <- MCKind
  Body <- MCBody
  TrueB <- MCTrueB
  FalseB <- MCFalseB
  WBody <- MCWBody
  ScopeOf <- MCScopeOf
  Scopes <- MCScopes
  Locals = {1, 2, 3}
  None = 0
SPECIFICATION Spec
INVARIANTS
  TypeOK
  LocalsPartitioned
  CollapsedAtEnd
