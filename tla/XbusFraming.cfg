\* Bytes of four values; two frames and four bytes of noise in any order.
CONSTANTS
  Base = 4
  PREAMBLE = 2
  EXTLEN = 3
  MAX_STD = 2
  MAX_EXT = 3
  BID = 3
  MIDs = {1}
  Payloads <- MCPayloads
  MaxFrames = 2
  MaxNoise = 4
SPECIFICATION Spec
INVARIANTS
  TypeOK
  ChunkingIsInvisible
  NoFrameIsSkipped
  CleanStreamIsExact
  DecodersAgree
CHECK_DEADLOCK FALSE
