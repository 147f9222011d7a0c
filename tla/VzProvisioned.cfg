\* Two requests for the one name; one step fails.
SPECIFICATION Spec
CONSTANTS
  Req = {r1, r2}
  MaxFails = 1
PROPERTY ProvisionedKept
\* Both requests may be done.
CHECK_DEADLOCK FALSE
