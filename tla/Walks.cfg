\* Walks down the chain between passes, with unwatch() and a node that moves.
CONSTANTS
  Hash <- MCHash
  NoHash <- MCNoHash
  MaxHeight <- MCMaxHeight
  Num <- MCNum
  Line <- MCLine
  Addr = {"x", "y"}
  Slot = {"s", "t"}
  Value <- MCValue
  Zero = 0
  MaxIndex <- MCMaxIndex
  Genesis <- MCGenesis
  Changes <- MCChanges
  Deploys <- MCDeploys
  Committed <- MCHash
  FullDetail = FALSE
  FinalityLag = 2
  FetchAhead = 2
  Targets = {1}
  Budgets = {1}
  Starts = {1, 3}
SPECIFICATION WalksSpec
INVARIANTS
  WalkersHoldTheirStarts
PROPERTIES
  WalksDown
