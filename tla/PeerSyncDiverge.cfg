\* resolveConcurrent is meant to make every node converge.
SPECIFICATION Spec
CONSTANTS
  a = a
  b = b
  Node = {a, b}
  Content = {1, 2}
  NoFile = NoFile
  Over = {}
  Docs = {}
  Hash <- MCHash
  Merge <- MCMerge
  Guard <- MCGuard
  Saves = {1, 2}
  InitFiles = {NoFile}
  EditKinds = {"write"}
  MaxEdits = 3
  MaxFaults = 0
  MaxUnsaved = 0
  MaxLoops = 1
SYMMETRY Symmetry
INVARIANT SameVersionSameFile
\* The mesh rests when its edits are used up and its loops are not scheduled.
CHECK_DEADLOCK FALSE
