\* The functions over small inputs.
CONSTANTS
  Hash <- MCHash
  NoHash <- MCNoHash
  MaxHeight <- MCMaxHeight
  Num <- MCNum
  Line <- MCLine
  Addr = {"x", "y"}
  Slot = {"s", "t"}
  Value <- MCValue
  Zero = 0
  MaxIndex <- MCMaxIndex
  Genesis <- MCGenesis
  Changes <- MCChanges
  Deploys <- MCDeploys
  Committed <- MCHash
  MaxSearch = 8
  Server = {1, 2}
  Client = {1, 2}
  Url = {"u"}
  NoUrl = "none"
  NoServer = 0
  Retries = 2
  Id = {1, 2}
  NoId = 0
  MaxU32 = 2
  Byte = 15
  AddrLen = 1
  WordLen = 4
  BlockLen = 2
  IndexLen = 1
  SchemaVersion = 3
  OldestUpgradable = 1
  Slots = 10000000
  Keccak <- MCKeccak
  KeccakKey <- MCKeccakKey
  MaxNesting = 4
  MaxChunks = 4
SPECIFICATION FnSpec
CHECK_DEADLOCK FALSE
INVARIANTS
  GettersStayInBounds
