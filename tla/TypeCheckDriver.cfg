CONSTANTS
  Entities <- MCEntities
  Bodies <- MCBodies
  Fn <- MCFn
  Ovl <- MCOvl
  GlobalTy <- MCGlobalTy
  Locals = {"x", "y", "z"}
  Inner = {"v", "w"}
  Const = {"x"}
  DeclType <- MCDeclType
  Widen <- MCWiden
  Known = {"clz_i32", "memory_size"}
  Void = "void"
  Bool = "bool"
  I32 = "i32"
  PtrElem <- MCPtrElem
  PtrTo <- MCPtrTo
  Rawptr = "rawptr"
  Integers = {"i32", "i64"}
  Sym = "?"
  None = "NULL"
SPECIFICATION Spec
INVARIANTS
  TypeOK
  ConstAssignedOnce
  CleanRunTyped
PROPERTIES
  LocalTypeStable
