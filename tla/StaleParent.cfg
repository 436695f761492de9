\* A header remembered from the branch the node switched to.
CONSTANTS
  Hash <- MCHash
  NoHash <- MCNoHash
  MaxHeight <- MCMaxHeight
  Num <- MCNum
  Line <- MCLine
  Addr = {"x"}
  Slot = {"s", "t"}
  Value <- MCValue
  Zero = 0
  MaxIndex <- MCMaxIndex
  Genesis <- OldGenesis
  Changes <- OldChanges
  Deploys <- NoDeploys
  Committed <- MCHash
  FullDetail = FALSE
  Window = 1
  Horizon = 3
  FinalityLag = 2
  FetchAhead = 1
  ProofChunk = 1
  AllowUnverified = FALSE
  Budgets = {}
  Threaded = FALSE
  Starts = {3}
SPECIFICATION ThreadSpec
INVARIANTS
  ReadsAreTrue
