SPECIFICATION Spec
CONSTANTS
  RecordSize <- MCRecordSize
  InputSize <- MCInputSize
  Tickets = 2
  Answers = 3
INVARIANTS
  TlsTypeOK
  BytesAddUp
  WaitsOnlyWhenDry
  AloneUnlessUnasked
PROPERTIES
  KeepsTransfer
  DeliversRecords
  EndNoticed
CHECK_DEADLOCK FALSE
