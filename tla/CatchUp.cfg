\* Passes that are called again and again.
CONSTANTS
  Hash <- MCHash
  NoHash <- MCNoHash
  MaxHeight <- MCMaxHeight
  Num <- MCNum
  Line <- MCLine
  Addr = {"x"}
  Slot = {"s"}
  Value <- MCValue
  Zero = 0
  MaxIndex <- MCMaxIndex
  Genesis <- LowGenesis
  Changes <- ThinChanges
  Deploys <- NoDeploys
  Committed <- MCHash
  FullDetail = FALSE
  Window = 1
  Horizon = 3
  FinalityLag = 2
  FetchAhead = 2
  ProofChunk = 1
  AllowUnverified = FALSE
  Budgets = {}
  Threaded = FALSE
  Starts = {1}
SPECIFICATION FairSpec
PROPERTIES
  CatchesUp
