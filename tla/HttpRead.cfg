SPECIFICATION Spec
CONSTANTS
  CR = CR
  Crlf = CR
  NoText = NoText
  Chars <- Bytes
  Headers <- ShortHeaders
  Bodies <- ShortBodies
  BufferSize = 6
INVARIANTS
  NothingStale
  ExactBody
PROPERTIES
  KeepsTransfer
