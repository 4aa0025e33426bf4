CONSTANTS
  PtrSize = 8
  TypeMaps <- MCTypeMaps
  ForeignInputs <- MCForeignInputs
  ProcInputs <- MCProcInputs
SPECIFICATION MetaSpec
INVARIANT
  RecordsPointerAligned
