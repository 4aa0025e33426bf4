CONSTANTS
  Ast <- MCAst
  Fn <- MCFn
  Options <- MCOptions
  GType <- MCGType
  Entities <- MCEntities
  Packages = {"A", "B"}
  Inc <- MCInc
  PkgSyms <- MCPkgSyms
  Builtins = {"i32"}
  Names <- MCNames
  TypeDecls = {"builtin", "B.T", "A.S"}
  None = "NULL"
SPECIFICATION Spec
INVARIANTS
  TypeOK
  LocalsOfFunction
  ChainsWithoutLocals
  BindingsInOwnScope
  UsesSeeEnclosingDecls
  QualifiedCalls
  TypeFieldsAreTypes
  TypeNamesResolvedOrReported
