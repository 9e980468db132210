CONSTANTS
  Execution = {1, 2}
  Wasm = {1, 2}
  MaxStreams = 1
  MaxOps = 2
SPECIFICATION FairSpec
CONSTRAINT NamedInOrder
INVARIANTS
  CallsMatched
  StreamsReleased
PROPERTY ExecutionsEnd
