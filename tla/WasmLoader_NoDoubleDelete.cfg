CONSTANTS
  MemoryKey = MemoryKey
  NotBound = NotBound
  k1 = k1
  k2 = k2
  Imports <- MCImports
  Modules <- MCModules
  LibDefs <- MCLibDefs
  Traces <- MCTraces
SPECIFICATION Spec
INVARIANT NoDoubleDelete
