CONSTANTS
  PtrSize = 4
  TypeMaps <- MCTypeMaps
  ForeignInputs <- MCForeignInputs
  ProcInputs <- MCProcInputs
SPECIFICATION MetaSpec
INVARIANTS
  TypeOK
  RecordsPointerAligned
  PointersInSegment
  MemberEntriesMatch
  TagEntriesMatchData
  SlotsPointAtRecords
  MetaTypeOK
  ForeignEntriesMatch
  ProcTagEntriesMatch
  SlotsPointAtMetaRecords
  PatchesInSegments
