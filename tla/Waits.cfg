\* One reply with tools and confirmations, answered, stopped,
\* drained or left alone; a relayed screen; two desks' Terminals; updates;
\* lookups; the setup of two emulated Macs.
SPECIFICATION AllSpec
CONSTANTS
  c1 = c1
  m1 = m1
  m2 = m2
  Gone = Gone
  d1 = d1
  d2 = d2
  Mac = {m1, m2}
  MediaSize = 2
  MaxSetups = 2
  MaxCrashes = 1
INVARIANT RanOnlyApproved
INVARIANT RuntimeKept
INVARIANT InstallerOffInstalled
PROPERTY RunsEnd
PROPERTY AcceptedSaved
PROPERTY FramesKeepComing
PROPERTY GoneWindowsClose
PROPERTY RestartHonored
PROPERTY FlightsEnd
\* Every run may be used up and nobody at work.
CHECK_DEADLOCK FALSE
