\* balq index against a node that moves, with failures, kills and --once.
CONSTANTS
  Hash <- LowHash
  NoHash <- MCNoHash
  MaxHeight <- LowHeight
  Num <- LowNum
  Line <- LowLine
  Addr = {"x"}
  Slot = {"s"}
  Value <- MCValue
  Zero = 0
  MaxIndex <- MCMaxIndex
  Genesis <- LowGenesis
  Changes <- LowChanges
  Deploys <- LowDeploys
  Committed <- LowHash
  FullDetail = FALSE
  FinalityLag = 2
  FetchAhead = 2
  Targets = {}
  Budgets = {}
  Starts = {}
  Step = 1
  MaxFailures = 1
  HistoryDepth = 0
  MaxKills = 1
SPECIFICATION IndexSpec
INVARIANTS
  SlotIsFree
PROPERTIES
  FollowsToTheHead
  OnceEnds
CHECK_DEADLOCK FALSE
