\* Two clients and two runs in Chat, two VMs and two requests, two agents'
\* windows: requests, crashes and failing steps beside each other.
SPECIFICATION AllSpec
CONSTANTS
  c1 = c1
  c2 = c2
  m1 = m1
  m2 = m2
  Gone = Gone
  Msg = {m1, m2}
  Client = {c1, c2}
  Ops = {"send", "queue", "delete"}
  MaxRuns = 2
  MaxTurns = 2
  MaxTools = 0
  MaxFaults = 1
  v1 = v1
  v2 = v2
  r1 = r1
  r2 = r2
  VM = {v1, v2}
  Req = {r1, r2}
  MaxAddr = 2
  MaxProcs = 2
  MaxAsks = 4
  MaxDeaths = 1
  Names = 3
  Window = {r1, r2}
  MaxConv = 2
  MaxBoots = 2
  MaxStarts = 3
SYMMETRY Symmetry
INVARIANT AcceptedKept
INVARIANT CleanEndAnswered
PROPERTY HistoryAppendOnly
INVARIANT OneQemuPerDisk
INVARIANT DistinctAddresses
INVARIANT NothingLost
\* Every request may be done and nothing running.
CHECK_DEADLOCK FALSE
