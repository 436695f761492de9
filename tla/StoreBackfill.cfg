\* The store: blocks, reorgs and backfill, no proofs; full detail.
CONSTANTS
  Hash <- MCHash
  NoHash <- MCNoHash
  MaxHeight <- MCMaxHeight
  Num <- MCNum
  Line <- MCLine
  Addr = {"x", "y"}
  Slot = {"s", "t"}
  Value <- MCValue
  Zero = 0
  MaxIndex <- MCMaxIndex
  Genesis <- MCGenesis
  Changes <- MCChanges
  Deploys <- MCDeploys
  Committed <- MCHash
  FullDetail = TRUE
  Calls <- MCCalls
SPECIFICATION ReadSpec
INVARIANTS
  HoldsTheChain
  ReadsAreTrue
  UnknownIsExact
  AnswersUnlessReorged
PROPERTIES
  SeekIsTrue
CHECK_DEADLOCK FALSE
