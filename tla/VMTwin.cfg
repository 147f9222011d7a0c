\* Delete takes the name's mutex out of the map while others wait for it.
SPECIFICATION Spec
CONSTANTS
  a = a
  b = b
  c1 = c1
  c2 = c2
  Starter = Starter
  Name = {a}
  Client = {c1, c2}
  Subnets = 2
  Ops = {"create", "delete"}
  Keep = TRUE
  MaxOps = 5
  MaxFaults = 0
  MaxDowns = 0
SYMMETRY Symmetry
INVARIANT OneGuestPerDisk
\* All requests may be done and every guest off.
CHECK_DEADLOCK FALSE
