\* Passes and watch() against a moving node, on one thread.
CONSTANTS
  Hash <- MCHash
  NoHash <- MCNoHash
  MaxHeight <- MCMaxHeight
  Num <- MCNum
  Line <- MCLine
  Addr = {"x"}
  Slot = {"s", "t"}
  Value <- MCValue
  Zero = 0
  MaxIndex <- MCMaxIndex
  Genesis <- OldGenesis
  Changes <- OldChanges
  Deploys <- NoDeploys
  Committed <- MCHash
  FullDetail = FALSE
  Window = 1
  Horizon = 3
  FinalityLag = 2
  FetchAhead = 2
  ProofChunk = 1
  AllowUnverified = FALSE
  Budgets = {1}
  Threaded = FALSE
  Starts = {1, 2}
SPECIFICATION FollowSpec
PROPERTIES
  KeepsTheOrder
