\* Two requests at once on one name: a failing step, stops, crashes, reboots.
SPECIFICATION AllSpec
CONSTANTS
  a = a
  c1 = c1
  c2 = c2
  Starter = Starter
  Name = {a}
  Client = {c1, c2}
  Subnets = 2
  Ops = {"create", "start", "stop"}
  Keep = TRUE
  MaxOps = 3
  MaxFaults = 1
  MaxDowns = 1
INVARIANT OneGuestPerDisk
INVARIANT RecordedIsManaged
PROPERTY GuestKeepsTap
PROPERTY RequestsReturn
\* All requests may be done and every guest off.
CHECK_DEADLOCK FALSE
