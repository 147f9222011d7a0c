\* A second SIGTERM while the first autostart is still under way.
SPECIFICATION Spec
CONSTANTS
  a = a
  b = b
  c1 = c1
  c2 = c2
  Starter = Starter
  Name = {a, b}
  Client = {c1, c2}
  Subnets = 2
  Ops = {"create"}
  Keep = FALSE
  MaxOps = 2
  MaxFaults = 0
  MaxDowns = 2
SYMMETRY Symmetry
PROPERTY AutostartNotForgotten
\* All requests may be done and every guest off.
CHECK_DEADLOCK FALSE
