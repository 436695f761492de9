\* Everything on several threads, with unwatch() and a node that reorgs past the horizon.
CONSTANTS
  Hash <- LowHash
  NoHash <- MCNoHash
  MaxHeight <- LowHeight
  Num <- LowNum
  Line <- LowLine
  Addr = {"x"}
  Slot = {"s"}
  Value <- MCValue
  Zero = 0
  MaxIndex <- MCMaxIndex
  Genesis <- LowGenesis
  Changes <- LowChanges
  Deploys <- LowDeploys
  Committed = {"g0", "a1", "a2", "a3"}
  FullDetail = FALSE
  Window = 1
  Horizon = 1
  FinalityLag = 3
  FetchAhead = 1
  ProofChunk = 1
  AllowUnverified = FALSE
  Budgets = {}
  Threaded = TRUE
  Starts = {2, 3}
SPECIFICATION SystemSpec
INVARIANTS
  NothingForUnwatched
  IndexMatchesRecords
  SnapshotIsCurrent
