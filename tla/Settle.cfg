\* Paired nodes on a document, two windows on a draft, a node joining a mesh.
SPECIFICATION AllSpec
CONSTANTS
  a = a
  b = b
  w1 = w1
  w2 = w2
  NoTag = NoTag
  Draft = Draft
  Old = Old
  NoFile = NoFile
  Node = {1, 2, 3}
  Mesh = {1, 2}
  MaxCodes = 1
  MaxJoins = 2
  MaxMoves = 2
  Window = {w1, w2}
  Remote <- MCRemote
  Cap = 16
  MaxEdits = 2
  MaxReads = 1
  MaxMishaps = 2
  MaxActs = 2
  Now = 40
  TombstoneTTL = 30
INVARIANT SameVersionSameFile
INVARIANT OneNodePerCode
PROPERTY VectorsConverge
PROPERTY DiskNeverOlder
PROPERTY TypedWordsKept
PROPERTY SavesSettle
PROPERTY MeshCloses
\* A mesh or a desk rests once its edits are used up.
CHECK_DEADLOCK FALSE
