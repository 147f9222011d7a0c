\* Two of each: apps, places, destinations, names, readers, logs, publishes,
\* browsers; crashes, failed calls and the owner's own changes beside them.
SPECIFICATION AllSpec
CONSTANTS
  x = x
  y = y
  App = {x, y}
  MaxRelease = 2
  MaxStops = 2
  MaxMoves = 2
  Host = {x, y}
  Step = 2
  PingMaxTime = 4
  MaxAdds = 2
  MaxEdits = 1
  MaxFails = 1
  HostView = {"h"}
  All = "all"
  Reader = {1, 2}
  Fresh = 1
  Stale = 2
  ErrTTL = 1
  WarmAtOnce = 1
  MaxTime = 4
  MaxAsks = 3
  Pub = {x, y}
  Repo = {"own", "copy"}
  Folder = "own"
  Branch = {"main", "side"}
  Main = "main"
  MaxGuestEdits = 2
  Browser = {x, y}
  MaxWrites = 2
  MaxJobs = 1
  MaxChats = 1
  MaxCrashes = 1
  City = {"here", "there"}
  Hazard = {"fire", "wind"}
  RainCap = 1
  RainCooldown = 2
  RainDay = 4
  MaxRainTime = 6
  MaxTopMoves = 2
  MaxRainCrashes = 1
  Tokens <- MCTokens
  AlertCap = 1
  AlertCooldown = 1
  AlertDay = 3
  MaxAlertTime = 7
  MaxAlertCrashes = 1
  Hostname = {"a", "b"}
  OtherHost = {"x"}
  Caller = {1}
  Overlap = FALSE
  StartRules <- MCStartRules
  MaxCallers = 3
  MaxCallFails = 1
  MaxTheirEdits = 1
  LogFile = {x, y}
  Week = 2
  MaxDay = 3
  MaxLines = 2
  MaxLogMoves = 2
  MaxAsked = 2
  MaxClaude = 1
SYMMETRY Symmetry
PROPERTY KeepsPromise
INVARIANT CapHolds
INVARIANT BudgetHolds
INVARIANT NoStrayDatabase
INVARIANT RoutesAgree
INVARIANT OneFetchPerView
INVARIANT EachCountedOnce
INVARIANT DoneIsThere
INVARIANT SubscribersKept
PROPERTY TurnEndsHandled
\* The clocks, the requests and the failures end.
CHECK_DEADLOCK FALSE
