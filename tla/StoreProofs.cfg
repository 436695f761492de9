\* The store: blocks, reorgs, proofs and expiry, no backfill.
CONSTANTS
  Hash <- MCHash
  NoHash <- MCNoHash
  MaxHeight <- MCMaxHeight
  Num <- MCNum
  Line <- MCLine
  Addr = {"x", "y"}
  Slot = {"s", "t"}
  Value <- MCValue
  Zero = 0
  MaxIndex <- MCMaxIndex
  Genesis <- MCGenesis
  Changes <- MCChanges
  Deploys <- MCDeploys
  Committed <- MCHash
  FullDetail = FALSE
SPECIFICATION ProofSpec
INVARIANTS
  TypeOK
  PendingMirrorsBoot
  NothingForUnwatched
  RecordsInRange
  HoldsTheChain
  ReadsAreTrue
  UnknownIsExact
  HistoryIsBlockData
CHECK_DEADLOCK FALSE
