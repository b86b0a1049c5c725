CONSTANTS
  v1 = v1
  v2 = v2
  i1 = i1
  f1 = f1
  f2 = f2
  a = a
  b = b
  NoFile = NoFile
  Empty = Empty
  VersionId = VersionId
  Firmwares <- MCFirmwares
  Ids <- MCIds
  Names <- MCNames
  Values <- MCValues
  Junk = Junk
SPECIFICATION Spec
INVARIANTS
  StorageIsOurs
  PutOldOrNew
  MoveKeepsData
PROPERTIES
  SameFirmwareNoChange
