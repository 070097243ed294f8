CONSTANTS
  Token = {a, b}
  LayerSeq <- OneOfEach
  Limits <- ReuseAndSpeculate
  Window = 2
  RotStep = 1
  PrefillChunk = 2
  SnapshotInterval = 2
  PreThinking = 1
  MaxPagedOut = 4
  Lazy = Lazy
  None = None
SPECIFICATION PrefixSpec
SYMMETRY TokenSymmetry
INVARIANTS PrefixTypeOK SnapshotsMatchNodes PagedOutBytesExact
PROPERTIES ImplementsConversation
CHECK_DEADLOCK FALSE
