CONSTANTS
  PtrSize = 4
  TypeMaps <- MCTypeMapsRuntimeTag
  ForeignInputs <- MCForeignInputs
  ProcInputs <- MCProcInputs
SPECIFICATION MetaSpec
INVARIANT
  TagEntriesMatchData
