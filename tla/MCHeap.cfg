CONSTANTS
  MaxPages = 3
  Class = {c1}
  CellsPerPage <- MCCells
  LinkChunk = 1
  EntriesPerPage = 1
  LargeSize = {2}
  Nil = nil
  Slots = 2
  Fields = 1
  MaxObjects = 3
SPECIFICATION Spec
INVARIANTS
  SpaceSound
PROPERTIES
  ImplementsObjectHeap
  CollectionExact
