-------------------------------- MODULE Chain --------------------------------
(***************************************************************************)
(* The Ethereum chain as the archive sees it: a tree of blocks, the        *)
(* block-level access list (BAL, EIP-7928) each block commits to, and the  *)
(* storage those lists determine.  The archive never computes any of this: *)
(* it is the consensus data it verifies against block headers, so here it  *)
(* is CONSTANT.  A block is named by its hash, and a hash determines the   *)
(* header (parent, state root, BAL hash) and the list.                     *)
(***************************************************************************)
EXTENDS Integers, FiniteSets, FiniteSetsExt

CONSTANTS
  Hash,        \* block hashes of every branch
  NoHash,      \* "no block"
  MaxHeight,   \* the highest block number of the tree
  Num,         \* Num[h]: the block number of h
  Line,        \* Line[h][n]: the ancestor of h at number n
  Addr,        \* contract addresses
  Slot,        \* storage slots
  Value,       \* storage words
  Zero,        \* the zero word
  MaxIndex,    \* u32::MAX, above every block access index
  Genesis,     \* Genesis[a][s]: storage before the first block of the tree
  Changes,     \* Changes[h]: the storage changes of the BAL of h
  Deploys,     \* Deploys[h]: addresses whose code h sets (creation_in)
  Committed    \* the blocks whose header carries a BAL hash

Heights == 0 .. MaxHeight

\* One entry of an access list: slot of addr set to value by transaction index.
Change == [addr : Addr, slot : Slot, index : 0 .. MaxIndex - 1, value : Value]

(***************************************************************************)
(* The tree: a block is its own ancestor at its own number, and an         *)
(* ancestor's line is a prefix of the line through it.                     *)
(***************************************************************************)
ASSUME TreeAssumption ==
  /\ MaxHeight \in Nat
  /\ NoHash \notin Hash
  /\ Num \in [Hash -> Heights]
  /\ Line \in [Hash -> [Heights -> Hash \cup {NoHash}]]
  /\ \A h \in Hash : Line[h][Num[h]] = h
  /\ \A h \in Hash, n \in Heights : n <= Num[h] =>
       /\ Line[h][n] \in Hash
       /\ Num[Line[h][n]] = n
       /\ \A m \in 0 .. n : Line[Line[h][n]][m] = Line[h][m]

(***************************************************************************)
(* What a valid list holds: a slot changes at most once per index, and     *)
(* (EIP-7610) code is only deployed where no storage was ever written.     *)
(***************************************************************************)
ASSUME DataAssumption ==
  /\ MaxIndex \in Nat \ {0}
  /\ Zero \in Value
  /\ Genesis \in [Addr -> [Slot -> Value]]
  /\ Changes \in [Hash -> SUBSET Change]
  /\ Deploys \in [Hash -> SUBSET Addr]
  /\ Committed \subseteq Hash
  /\ \A h \in Hash : \A c, d \in Changes[h] :
       c.addr = d.addr /\ c.slot = d.slot /\ c.index = d.index => c = d

ASSUME DeployAssumption ==
  \A h \in Hash : \A a \in Deploys[h], s \in Slot :
    /\ Genesis[a][s] = Zero
    /\ \A n \in Heights : n < Num[h] =>
         ~ \E c \in Changes[Line[h][n]] : c.addr = a /\ c.slot = s

Parent(h) == IF Num[h] = 0 THEN NoHash ELSE Line[h][Num[h] - 1]

\* The slots of a that block h writes.
Written(h, a) == {c.slot : c \in {d \in Changes[h] : d.addr = a}}

\* The last change of a slot in a block: the value the block leaves behind.
FinalChange(h, a, s) ==
  LET all == {c \in Changes[h] : c.addr = a /\ c.slot = s}
  IN  CHOOSE c \in all : \A d \in all : d.index <= c.index

\* The blocks up to n, on the line of h, that write slot s of a.
WriteBlocks(h, n, a, s) == {m \in 0 .. n : s \in Written(Line[h][m], a)}

\* The value of a slot at the end of block n on the line of h: the last
\* write at or before n, or the genesis value if there was none.
ValueAt(h, n, a, s) ==
  LET ws == WriteBlocks(h, n, a, s)
  IN  IF ws = {} THEN Genesis[a][s]
      ELSE FinalChange(Line[h][Max(ws)], a, s).value
=============================================================================
