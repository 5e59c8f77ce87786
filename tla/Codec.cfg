SPECIFICATION Spec
CONSTANTS
  MAX_METADATA = 47
  MAX_CANON_DEPTH = 3
  IntMax = 1023
  WordMax = 2047
  ByteMax = 255
  PortMax = 999
  NoNode = NoNode
  NoRevision = NoRevision
  MAX_PADDING = 2
  MAX_RECORD_PLAINTEXT = 56
  MAX_TCP_PAYLOAD = 2
  MAX_UDP_PAYLOAD = 3
  MaxEdits = 2
  Damages = {"cut", "trailing", "field"}
  MAX_CARRIER_RECORD = 2
  MAX_POST_BATCH_RECORDS = 2
  MAX_POST_BATCH_BYTES = 11
  MAX_HTTP_BODY = 14
  MAX_SSE_EVENT = 7
  MaxEvents = 3
  Envelopes <- MCEnvelopes
  Batches <- MCBatches
  LineEnds <- MCLineEnds
  KeyOrder <- MCKeyOrder
  NoText <- MCNoText
  Slugs <- MCSlugs
  Samples <- MCSamples
  Payloads <- MCPayloads
  Paddings <- MCPaddings
  Values <- MCValues
  Lexemes <- MCLexemes
INVARIANTS ReadsBackAsWritten  AcceptedHasOneForm  BodyGivesBackItsEnvelopes
CHECK_DEADLOCK FALSE
