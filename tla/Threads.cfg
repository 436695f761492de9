\* Passes, watch() and lazy proofs on several threads, with crashes.
CONSTANTS
  Hash <- LowHash
  NoHash <- MCNoHash
  MaxHeight <- LowHeight
  Num <- LowNum
  Line <- LowLine
  Addr = {"x"}
  Slot = {"s"}
  Value <- MCValue
  Zero = 0
  MaxIndex <- MCMaxIndex
  Genesis <- LowGenesis
  Changes <- LowChanges
  Deploys <- LowDeploys
  Committed = {"g0", "a1", "a3", "b2"}
  FullDetail = FALSE
  Window = 1
  Horizon = 3
  FinalityLag = 2
  FetchAhead = 1
  ProofChunk = 1
  AllowUnverified = TRUE
  Budgets = {}
  Threaded = TRUE
  Starts = {1, 2}
SPECIFICATION ThreadSpec
INVARIANTS
  HoldsTheChain
  ReadsAreTrue
  UnknownIsExact
  NoInternal
