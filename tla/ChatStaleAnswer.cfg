\* An answer that arrives when the next reply is asking.
SPECIFICATION Spec
CONSTANTS
  m1 = m1
  m2 = m2
  c1 = c1
  c2 = c2
  Gone = Gone
  Msg = {m1, m2}
  Client = {c1, c2}
  Ops = {"send", "answer"}
  MaxRuns = 2
  MaxTurns = 1
  MaxTools = 1
  MaxFaults = 0
SYMMETRY Symmetry
INVARIANT RanOnlyApproved
\* Every run may be used up and nobody at work.
CHECK_DEADLOCK FALSE
