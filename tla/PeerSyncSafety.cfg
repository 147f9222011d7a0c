\* Two paired nodes: edits under two loops, one fault anywhere, WebDAV and a
\* body over the size cap, documents that merge.
SPECIFICATION PartsSpec
CONSTANTS
  a = a
  b = b
  NoFile = NoFile
  Node = {a, b}
  Content <- MCContent
  Saves = {{10}, {20}}
  Over = {}
  Docs <- MCDocs
  InitFiles = {NoFile}
  Hash <- MCHash
  Merge <- MCMerge
  Guard <- MCMerge
  EditKinds = {"write", "delete", "direct"}
  MaxEdits = 2
  MaxFaults = 0
  MaxUnsaved = 0
  MaxLoops = 2
SYMMETRY Symmetry
INVARIANT OriginOwnsCounter
INVARIANT WritesSurvive
PROPERTY UnseenNotClobbered
PROPERTY VectorsGrow
\* The mesh rests when its edits are used up and its loops are not scheduled.
CHECK_DEADLOCK FALSE
