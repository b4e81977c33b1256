SPECIFICATION Spec
CONSTANTS
  Short = 5
  Radix = 4
  MaxFrame = 18
  Threshold = 4
  MaxMessage = 8
  Streams <- ManyStreams
  Keys <- OwnKeys
  Xor <- ByteXor
  MasksMeet = FALSE
  MaxChunks = 3
INVARIANTS
  TypeOK
  NothingWaits
  MessagesJoin
PROPERTIES
  PipeSpec
