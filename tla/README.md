# balq in TLA+

balq keeps a local, verified history of the storage of chosen Ethereum
contracts. It reads the block-level access lists (BALs, EIP-7928) of a node,
checks each against its header, and files the changes in a redb database, the
*archive*. This directory models the archive, the passes and walks that fill it,
the program around them, its readers, and the functions at its edges (sources,
encodings, storage layouts, batches); checks the models with TLC; and proves part
of what is checked with TLAPS.

Sources are named relative to `src/crates/`; `PROJECT.json` maps every
definition to its lines.

## 1. The system

| Component | State it keeps | Operations | Talks to |
|---|---|---|---|
| **bal-archive, store** (`lib.rs`, `writes.rs`, `reads.rs`, `keys.rs`) | redb tables WATCH, SLOTS, BLOCKIDX, BOOT, PENDING, CREATED, HASHES, META (head, `anchor:<addr>`); volatile `watch_gate`, `in_flight`, `syncing` | `watch`, `unwatch`, `apply_block`, `remember_header`, `rollback_to`, `put_bootstrap`, `mark_lost`, `backfill_block`; reads `storage_at`, `history`, `changed_slots` | called by sync, backfill, CLI, serve and the Node binding, from several threads |
| **bal-archive, sync** (`sync.rs`) | the locals of one pass: next block, source head, horizon, prefetch queue, watchlist snapshot, proofs to do | `sync_step`, `find_fork`, early bootstrap, `retry_pending`, `bootstrap_slot` | awaits the source; commits one store transaction at a time |
| **bal-archive, backfill** (`backfill.rs`) | one walker per address, expected hash, budget | `backfill_many` | awaits the source; takes the same `syncing` slot as sync |
| **bal-source** (`lib.rs`, `fallback.rs`, `jsonrpc.rs`, `proof.rs`) | HTTP client; primary and backup | `head`, `finalized`, `header`, `block`, `proof`; retries; `find_bal_fork` | an execution client, or a pool behind one URL |
| **bal-codec** | none | decode, order check, hash, `account`, `slot`, `final_change` | sync, backfill |
| **bal-layout** | parsed layout | name and decode slots | CLI, Node binding |
| **bal-cli** | follow loop (`commands/index.rs`), server threads and sidecar file (`serve.rs`) | `index`, `sync`, `backfill`, `serve`, … | drives the archive |
| **bal-node** | `Arc<Archive>` | N-API mirror of the archive | thread pool of Node.js |

### What is hard

* *Interleaving.* `&self` methods run concurrently. A pass awaits the node
  between transactions, takes the watchlist in one transaction and uses it in
  another; `watch` and `unwatch` come in between; a lazy proof spans five
  transactions.
* *Ordering and reorgs.* A batch of blocks is fetched concurrently while the
  node moves. Each answer may be of another branch. A reorg is seen at the head
  check or in the middle of a batch.
* *Failure.* Any await may fail or its future be dropped; the process may die
  between two transactions; a lagging client denies a block it has announced.
* *Derived state.* BOOT, PENDING, BLOCKIDX, CREATED and the anchor repeat facts
  of SLOTS and WATCH and are maintained by eight operations.
* *Limits.* Headers are pruned, the reorg horizon is bounded, the window in
  which a node still proves old state closes.
* *Retries on retries.* A call is retried by the client, a walk or a pass by the
  loop around it, the loop by whoever restarts the program; an error must say
  which of them can help.
* *Readers.* `storage_at` is three read transactions, a getter several of those,
  and the remote client may send a request twice.

### What makes each part correct

* store: the derived tables agree with the records; the records of a watch are
  the writes of the chain its head is on; a read is true or gives a true reason;
  nothing is stored for an address that is not watched.
* sync: whatever the node does, the transactions of a pass are those a careful
  single caller would make; a snapshot is current when it is used; the sync slot
  is released; the archive catches up with a node that settles.
* backfill: the history grows downward without a gap, on the same chain, and
  what is unknown of a slot moves below its new first change.
* index: it gets to the head of a node that settles, whatever failed before, and
  with `--once` it ends.
* readers: an answer is one that a single read would have given.
* sources: a block is the primary's whoever serves its list; the end of history is
  told from a broken connection; only what is under the block's state root is
  filed as proven; a fork block called exact is exact.
* codec, encodings, layout, serve: what is written is what is read; a list that
  passes is the only one with its contents; a value is found where Solidity put
  it; an answer goes to the request it answers.

`PROJECT.json` lists the hazards one by one with the line where each bites.

## 2. Modules

| Module | Models | Uses |
|---|---|---|
| `Chain` | the block tree, the access lists and the storage they determine: CONSTANTS | |
| `Archive` | the tables and the volatile fields; one operator per write transaction and per read; three specifications of a single caller | `Chain` |
| `Node` | the data source: a head that moves over the tree, a finalized block it never leaves | `Chain` |
| `Sync` | one pass of `sync_step` as a process | `Archive`, `Node` |
| `System` | the pass with `watch()`, `unwatch()`, `bootstrap_slot`, dropped futures, crashes; fairness | `Sync` |
| `Backfill` | one walk of `backfill_many` as a process, beside `watch()`, `unwatch()` and passes | `Archive`, `Node` |
| `Reads` | a caller whose reads are several transactions, beside blocks, reorgs, walks and watches | `Archive` |
| `Index` | `balq index`: new watches, catch-up, walks, following, failures, `--once`, kills and restarts | `Backfill` |
| `ForkSearch` | `find_bal_fork`, one header at a time | |
| `Source` | the retries of a call, the decoding of its answers, `Fallback`, the verification of lists and proofs | `Chain` |
| `Relay` | a batch split between archive and upstream, and put together again | |
| `Sidecar` | who holds the file, the sidecar that names a server, and the commands that look for it | |
| `Codec` | the order and uniqueness rules of a list, and its decoding | |
| `Keys` | keys and values as bytes, prefixes and seeks over them | |
| `Opening` | `open_with` on files of any schema | |
| `Layout` | paths to storage locations and back, fields and strings out of words | `Keys` |
| `Abi` | getters: from a call to reads, from values to return data | `Layout` |
| `MCChain`, `MCArchive`, `MCReads`, `MCSystem`, `MCBackfill`, `MCIndex`, `MCFunctions` | small trees, lists and inputs; the combinations that are checked | |
| `ArchiveProofs`, `ReadsProofs` | theorems about the store, each module on the one before | `Archive`, `TLAPS` |
| `SystemProofs` | theorems about the processes interleaved in any way | `System`, `ReadsProofs` |
| `OrderProofs` | what the processes are to the store on one thread | `SystemProofs` |
| `BackfillProofs` | theorems about the walk and the program around it: what they are to the store, and that all that is proved of the store holds of them | `Index`, `ReadsProofs` |
| `ReaderProofs` | theorems about reads of several transactions | `Reads`, `ReadsProofs` |
| `Questions` | what may be asked of the functions of nodes, proofs, lists, batches, keys, values and files, and what the answer must be | `Source`, `Codec`, `Relay`, `Keys`, `Opening` |
| `KeyProofs` | theorems about keys and values | `Questions`, `TLAPS` |
| `EdgeProofs` | theorems about the fork search, the sidecar and the other questions | `KeyProofs`, `ForkSearch`, `Sidecar` |

**Chain.** A block is named by its hash; `Num[h]` is its number and
`Line[h][n]` its ancestor at `n`. `Changes[h]` is the list a valid block
commits to, `ValueAt(h, n, a, s)` the storage it implies. This is the one part
that is not balq's: the archive accepts a list only if it hashes to the header's
field, so the list of a hash is a function of the hash. `Committed` are the
blocks whose header has such a field. The assumptions say that a tree is a
tree, that a slot changes at most once per access index, and EIP-7610.

**Archive.** A table is a function or a set of records keyed as in `keys.rs`:
`slots` holds records `(addr, slot, block, index)` with value and provenance,
`boot[a][s]` the bootstrap state, `hashes[n]` the retained header, and a deleted
entry is `0`, `Unseen` or `NoHash`. An operator such as `ApplyBlock(h, snap,
below)` is one redb transaction: guards are the re-checks inside it, arguments
are what its caller read before. `unwatch`'s effect is one step as it is one
transaction. `Spec` runs these operators with current arguments in the order the
loops keep, one transaction at a time; it is the abstract specification of
what sync does to the store. `ProofSpec` leaves out backfill, `BackfillSpec`
leaves out proofs. `Reorg(b)` may go to the head itself, when the node is back on
its branch by the time `find_fork` asks; `ProveBefore(a, n, S)` files some of the
slots block `n` wrote first, a chunk or what is left of one.

**Node.** `SetCanon` moves the head along or across branches, forward or back (a
lagging member of a pool), never off the finalized block and never more than
`FinalityLag` above it. `SourceBlock(n)` is the answer to `header(n)` and
`block(n)`.

**Sync.** `sync.pc` says what comes next; a step ends where the code awaits or
commits. `Begin`, `Claim`, `AskHead`, `AskFinalized`, `CheckHead` start a pass;
`ForkStep`, `RollbackScan`, `Rollback` are `find_fork` and `rollback_to`;
`StartFetch`, `FetchServed`, `FetchFailed`, `TakeBlock`, `Snapshot`, `Apply`
are the block loop; `RetryScan` to `WorkDone` the early bootstrap and
`retry_pending`, which share `bootstrap_at`. `Abort` is a dropped future or an
error returned from an await; `EndPass` is what `SyncGuard` does on each of them.

**System.** `watch()` is two steps because it reads the head and `in_flight`
one after the other. `bootstrap_slot` is six. With `Threaded` the processes
interleave at every step, as under bal-node; without, only where another one
awaits, as on one executor thread. `Crash` keeps the tables and resets the rest:
redb commits atomically. The step relation is a disjunction of groups (`Syncs`,
`Watches`, `Unwatches`, `Lazies`, `Moves`, `Crash`) and each specification a choice of
them: `SystemSpec` has all, `FollowSpec` is a follow loop without `unwatch` and lazy
calls. The last two sections of the module are the parts of the inductive invariants
behind the theorems.

**Backfill.** `walk.pc` says what comes next. `WalkBegin`, `PlanStart`,
`PlanKnown`, `PlanDone` build one walker per address, each read in a transaction
of its own; `AskAbove` fetches the header of the highest start; `WalkBatch` and
`WalkAnswer` are a `join_all` whose answers may be of different branches;
`WalkTake` checks a block against the one above it, `WalkApply` is the join check
and the transaction of one walker, `WalkNext` goes down by one. `EndWalk`, which
releases the sync slot, is every return and every dropped future. As the slot is
held, a pass runs only between walks, and is there the forward step of `Archive`
that `follow` shows it to be. `walk.out` keeps how the walk ended for the caller.

**Index.** `loop.at` is where `run()` of `commands/index.rs` is. `IndexStart` and
`IndexWatch` read the heads and start new watches. In `catch_up` and `follow` a pass
runs: `PassBegin`, `Applies`, `RollsBack`, `PassEnds`, `PassFails`; that these are the
transactions of a pass is what `follow` shows. `BackfillPlan`, `IndexWalk` and
`IndexWalked` are `backfill_all` around a walk of module Backfill, whose steps are
all here. `AfterFailure` counts and gives up. `IndexKilled` keeps the tables and
forgets the rest; `UnwatchCommand` needs the file and so comes while the program is
down.

**Reads.** `ReadStart`, `ReadHead` and `Seek` are the three transactions of
`storage_at`; `EndRead` is what serve does with a value (the next slot of the getter)
or a miss, and what the remote client does with a miss (the request again).
`Elsewhere` is any transaction of a pass or walk.

**ForkSearch.** `top` is the head, `fork` the true first block with a list, and
any block below the head may be pruned; `lo`, `hi` and `loSeen` are the locals of
the search.

**Sidecar.** `holder[s]` is a process that opens the file, with `--serve` or
without; `Bind`, `ClearSidecar` and `WriteSidecar` are `serve::start` (`fs::write`
empties the file before it writes), `DropSidecar` and `Ends` its end, `Killed` any
other. `OpenArchive`, `ReadSidecar`, `AskHead` and `RemoveSidecar` are `Ctx::open` of
a command; `Stranger` is a server of another archive at the same address. `side`
also remembers, beside the address, who wrote it: the code does not, the property
needs it.

**Source, Relay, Codec, Keys, Opening, Layout, Abi.** Definitions without state: an
operator per function of the code, parameterised by the sizes the code fixes.
`Source` takes what a node replies to each attempt, so a reply of another branch or
another moment is one more reply. `Keys` has a byte of any size and fields of any
width; `Layout` has slots modulo any number, and for keccak functions that do not
collide. What a function must do is stated of an `input`, against a definition of its
own: in `Questions` which list is canonical, what a proof is a proof of, how a node may
answer a batch, which order records have, what a file of each version holds; in `MCFunctions` what Solidity's
documentation says of storage. `MCFunctions` chooses a small input in its initial states,
and its `QuestionsAssumption` has TLC check that they are among those of `Questions`,
which the theorems are about.

## 3. What TLC checks

Every property of a passing run is also violated by at least one small mutation
of the modelled code (`PROJECT.json`, "mutants"; the mutated operators stand
before the ones they replace).

| Run | Question | Shows | Distinct states |
|---|---|---|---|
| `store_proofs` | do the tables stay consistent and the reads true with blocks, reorgs, proofs, expiry and unwatching in any order? | yes, for all eight invariants | 14,203 |
| `store_backfill` | and with blocks going backward, keeping full detail, and read in several transactions? | yes | 121,767 |
| `follow` | does a pass do to the store only what the single caller may, dropped and restarted too? | yes: `KeepsTheOrder`, a refinement of `Archive` | 968,739 |
| `threads` | do reads stay true with a pass, `watch`, lazy proofs and crashes at every interleaving? | yes, within its bounds | 639,122 |
| `unwatching` | does `unwatch` leave nothing behind, whenever it comes, and do errors past the horizon do no harm? | yes | 894,144 |
| `catch_up` | does a followed archive catch up? | yes, under fairness | 26,013 |
| `walks` | does a walk do to the store only what the single caller may, whoever unwatches or watches meanwhile? | yes: `WalksDown`, and `WalkersHoldTheirStarts` | 1,140,338 |
| `index` | is the sync slot free whenever the program needs it, and does the program get to the head, or end, whatever fails? | yes, the latter under fairness and two premises | 69,451 |
| `functions` | do the functions do what their definitions say, on all small inputs, and does the sidecar lead to the server? | yes, for all thirteen | 215,704 |
| `index_stuck` | does `index` recover when the start of a walk is reorged? | no | |
| `stale_parent` | are reads true when the node switches between a block and the header before it? | no | |
| `getters` | is a getter past the end of an array left to the node? | no | |

### Invariants and action properties

* `TypeOK`: the type invariant of the store.
* `PendingMirrorsBoot`: the retry table and the read table agree.
* `NothingForUnwatched`, `IndexMatchesRecords`, `RecordsInRange`: deletion finds
  all there is; what it relies on is complete; records lie in start .. head.
* `HoldsTheChain`: over start .. head the store holds exactly the writes of the
  head's chain.
* `ReadsAreTrue`, `UnknownIsExact`, `NoInternal`: a value is the chain's value,
  "unknown before f" names the true first write, and no read falls in a hole.
* `HistoryIsBlockData`: `history` never returns a proven pre-value (without
  backfill).
* `SnapshotIsCurrent`: at `apply_block` the snapshot has every start up to the
  block that is watched now.
* `KeepsTheOrder`: every step of the system that changes a table is a step of
  `Archive`'s single caller. In particular blocks are applied in parent order
  even where the parent's header has been pruned, and a rollback goes to an
  ancestor of the head.
* `WalksDown`: every step of a walk that changes a table is `Lower` of the single
  caller with current arguments: the block below the start, on the head's chain,
  for a watch that is still there.
* `WalkersHoldTheirStarts`: as long as the walk goes on, the watch of each walker
  is where the walker is, or was ended and renewed above the head. It is what
  makes the start comparison in `backfill_block` enough, and it needs the sync
  slot: were a pass to run, a renewed watch could come to lie in the walk's way.
* `SeekIsTrue`: what the seek of a read finds is the chain's value at that moment,
  though the range check was made earlier on other tables, unless a rollback left
  the block above the head.
* `AnswersUnlessReorged`: as long as nothing is reorged or unwatched, the
  transactions of a call read as one: its answer is one that a single transaction
  would have given during the call, and the slots of a getter belong together.
* `CatchesUp`: if the node settles on a block, the archive reaches it.
* `SlotIsFree`: wherever the program is about to run a pass or a walk, the sync slot
  is free, so `SyncInProgress` is never what a loop of its own retries.
* `FollowsToTheHead`: the same of the program: through failures, walks, kills and
  restarts. Its premises are that some header the archive keeps is on the node's
  branch and that the start of a walk in progress is; what happens without them
  is shown by `index_stuck` and told under "findings".
* `OnceEnds`: with `--once`, the program ends when the node settles.

Of the functions:

* `ExactIsTheFork`: whichever headers the node withholds, now or then, the answer is
  never below the fork, and one that is called exact is the fork.
* `EndOfHistoryIsAnswered`: a walk takes history to end at a block only if every node
  there is said that it does not have it, never for a connection that failed.
  `PrimaryDecides`: a block that passes verification is the primary's block with its
  own list, and a primary without the list does not stop what the backup can help.
* `ProvenIsTheState`: what is filed from a proof is the value under the block's state
  root, whatever account, slot or block the node answered for.
* `RelayKeepsOrder`: in whatever order the node answers its part of a batch, and also if
  it keeps the order but gives no ids, every request with an id gets the answer to it, in
  its place; and reads of a tag are the node's.
* `ValidListsAreCanonical`: a list that passes is the canonical one of its contents.
* `KeysKeepOrder`, `EncodingsReadBack`: byte order is the order the store is modelled
  with, a prefix scan and a seek find exactly the keys meant, and each encoding
  is read back, the older one of a value included.
* `OpenedFilesAreConsistent`: a file of an older schema holds after opening what it
  held, and awaits the proofs its states say; one that is refused is not touched.
* `LocateNamesSlots`, `VariablesReadBack`, `ReturnsReadBack`: paths lead where Solidity
  puts values and back, no two share a byte, values and return data decode to what
  was stored, and a call of anything that is no getter is not answered.
* `SidecarLeadsToTheServer`: a command is answered by the server that was advertised
  from its beginning to its end, through kills and successors; it hears from somebody
  else only where the server that wrote the sidecar has ended; and a running server
  is not advertised only because a command that read an earlier sidecar, or this one
  while it was empty, removed it.

### Violations

* `index_stuck` (`commands/index.rs:447`): the archive holds `b2` at the start of its
  watch and is walking down from it when the node finalizes `a2`. Every walk now
  ends in `StartReplaced`, `backfill_all` tries again without limit, and the forward
  sync that would resolve it is never reached.
* `stale_parent` (`lib.rs:651`), on a single thread: block 3 of branch A is
  applied; `header_of(2)` answers from branch B, where the node is by now, and
  is remembered without comparing it with block 3's parent. The next pass finds
  that header agreeing with the node and rolls back to 2 only, though the branches
  part at 1. With start 3 the pre-value (proven lazily on branch A) is kept, and
  on branch B, where block 2 wrote the slot, it is wrong.
* `getters` (`abi.rs:200`): the getter of `uint8[8]` called with 8 reads what lies
  behind the array; the contract would revert.

Further divergences of code and comments are listed without a run under
"findings". Four of them were found by TLC in runs of this project: a watch
accepted for a block already applied (`lib.rs:457`), a block written for a watch
renewed above it (`writes.rs:248`), `Done` states left behind by a reorg below a
deployment (`writes.rs:198`), and an anchor left behind by a rollback
(`backfill.rs:181`). To see the first again, check `HoldsTheChain` with two addresses
of one slot under `SystemSpec` with `Threaded`; the third, `NoInternal` in `store_proofs`. Two
more concern the two kinds of evidence mixed: a pre-value proven at `start - 1`
leaves the slot `Done`, backfill moves the start below it, and a read under the
pre-value ends in `Internal` (`NoInternal` fails under `Spec`); and when a reorg then
replaces that block, the pre-value of the old branch stays, as a rollback wipes by the
new start (`writes.rs:132`), and hides what the block writes (`ReadsAreTrue` fails
under `Spec`).

### Bounds

* Trees: `g0-a1-a2-a3-a4` with `b2-b3` on `a1` (height 4), or `g0-a1-a2-a3` with
  `b2` (height 3) where everything interleaves. They contain reorgs of depth 1
  to 3, to a longer and to a shorter branch, and a fork above, at and below
  `start - 1`.
* Data: `x` exists before the tree, with one slot that is not zero and one that is;
  one slot changes twice within a block; slots change on both branches and on one
  only. `y` is deployed in `a2`, and on the other branch in `b3`.
* `MaxIndex` is 3 for `u32::MAX`; only its order above every index matters.
* `Window` 1 for `bootstrap_window` (default 120), so slots expire and are
  proven in time. `Horizon` 3 for `REORG_HORIZON_FALLBACK` (4096), deeper than
  any reorg of the tree, and 1 in `unwatching`, where reorgs reach past it.
  `FetchAhead` 2 for 16 in `follow` and `catch_up`, so a batch can mix
  branches, and 2 for backfill's 8 in `walks`; 1 elsewhere. `ProofChunk` 1 for 256: two slots take two proofs.
* `FinalityLag` 2 keeps reorgs within the horizon as `finalized` does;
  `unwatching` has 3 with horizon 1.
* `Budgets` {1} in `follow`: the caller may limit a pass to one block, or not at
  all; elsewhere passes are unlimited.
* `Targets` {1}: `walks` walks down to block 1, the default, with
  a budget of one block or none. Starts are {1, 3}: a
  watch from the bottom keeps the low headers in the store, so that reorgs reach
  below a backfilled start, and a second walk finds one address at 3 and one at 2,
  so that a walker joins where the other has arrived.
* `Starts`: the starts a caller passes. `threads` has one address and starts 1
  and 2, `follow` the same: there the race at `lib.rs:457` (a second
  address must be watched for a pass to run) and that of `stale_parent` (a start of
  at least 3) cannot occur, so these runs say what holds *besides* them.
* `Calls` in `store_backfill`: a getter of two slots that one block writes, and a
  remote read of either contract, at blocks that are below the start, inside the
  range and above the head at different times. A call is in progress over any
  number of transactions; one caller is enough, as readers do not see each other.
* `index`: one address and slot, height 3, both branches at block 2; `Step` 1 for
  32, so that every block is a pass and a walk of its own; `MaxFailures` 1 for 10;
  one kill, which may come anywhere, and a restart with or without `--once`.
* `functions`: searches from heads up to 8 with any header withheld; two attempts
  of a call with every pair of replies, of the primary and of the backup; proofs of
  up to two slots for any contract and block; batches of up to three requests, with
  the node's answers in every order, or without ids; lists with up to two slots, or up to three
  accounts; keys of one or two bytes per field,
  with a byte of 16 values, so that values reach the end of a field and prefixes end
  in the largest byte; files of every version, and of one to come; one contract with every shape of
  variable, words of four bytes and strings that fill less than a word, a word and
  three words; two servers, each started once, at one address or without one, and two
  commands that run again and again, so that both can hold an old sidecar.
* `CHECK_DEADLOCK FALSE` in `functions`, where most inputs are judged as they stand,
  in `index`, where `--once` ends, and in the store's runs: the tree is finite, and a store at
  its top, with nothing to prove, has no step left.

### Fairness

`FairSpec` is the follow loop of `bal-cli/src/commands/index.rs:250-281`, which
polls `sync` forever and goes on after an error, without a `StateSource` and
without dropping the future. `WF(Passes)`: a pass that can go on does.
`WF(WatchEnd)`: a `watch()` returns. `SF(Served(n))`: a node asked for the same
block again and again answers sometime; failing answers are allowed any finite
number of times. The node itself is not fair, it may stop moving, and the
property assumes it settles and that some watched start is at or below its head.

`IndexSpec` has weak fairness on what the program does by itself (`Proceeds`: it is
one task, never disabled for longer than its sleeps) and strong fairness on a
request being answered: `PassServed`, `AboveServed`, `BlockServed`. Any answer may
fail, any finite number of times in a row. Nothing is assumed of the node's moves,
of kills, or of the program being started again.

## 4. What is proved

For all values of the constants that satisfy `TreeAssumption`,
`DataAssumption` and `DeployAssumption`, and for the full `Spec` (blocks, reorgs, unwatching, proofs,
expiry and backfill together, of which the two specifications TLC runs are
parts):

* `TypeCorrect`: `Spec => []TypeOK`. Inductive as it stands. Its steps need the
  bounds of the data (`ValueAtType`, `FinalChangeExists`: a written slot has a
  last change), proved in `ArchiveProofs` from least and greatest elements of
  sets of naturals.
* `MirrorHolds`: `Spec => []PendingMirrorsBoot`, with `TypeOK` as its
  strengthening: `pending` is a number and `0` means none, so no block 0 may be a
  first change, and starts are at least 1. Each of the eight transactions that
  write one table writes the other from the same facts, slot by slot.
* `UnwatchedHolds`: `Spec => []NothingForUnwatched`. Every step writes only for
  addresses it finds watched, and `unwatch` clears every table.
* `IndexHolds` and `RangeHolds`: `Spec => []IndexMatchesRecords` and
  `[]RecordsInRange`, from one inductive invariant, `IndexInv`.
  `IndexMatchesRecords` alone is not inductive: writing the entry of a block
  *replaces* the entry of that address and block, so the step is safe only because
  no record of that block can exist yet, and that is what `RecordsInRange` says
  (records lie in start .. head; a block applied is above the head, a block
  backfilled below the start). It also says block records never have index
  `u32::MAX`, so a pre-value never overwrites one.
* `ChainHolds`: `Spec => []HoldsTheChain`. The invariant, `HoldInv`, is said block by
  block: at a covered block the records of an address are those the list of that
  block leaves, all of them and no others. It rests on `IndexInv` twice: a block is
  written where `RecordsInRange` says nothing is yet, and a rollback deletes what the
  index finds, which `IndexMatchesRecords` says is all.
* `UnknownHolds`: `Spec => []UnknownIsExact`. The strengthening, `StateInv`, says what
  each bootstrap state tells of the head's line: unseen, that no covered block
  writes the slot; pending or lost since f, that f is the first that does. Rollback
  has to forget just the states first seen above the fork, and backfill to lower
  them. It also says that a creation is a deployment on the head's line.
* `ReadsHold` and `BackfilledReadsHold`: `[]ReadsAreTrue` under `ProofSpec` and under
  `BackfillSpec`. A read ends at a record (`HoldInv`: the last one at or before the
  block is the last write), at a creation (EIP-7610: storage is zero until then), or at a
  pre-value. Of those the invariant, `PreValuesAreTrue`, says that they lie right under
  the start and are the value there; a rollback below that block has to wipe them.
  They are separate theorems because under `Spec` it is not so (see the findings): a
  backfill moves the start away from a pre-value.
* `HistoryHolds`: `ProofSpec => []HistoryIsBlockData`, by the same invariant: a
  pre-value lies below every block that can be asked for.
* `NoHoleWithoutDeploys`: where no block deploys a watched contract,
  `ProofSpec => []NoInternal`. A slot is then `Done` only by a proof, whose record stays
  as long as the state. The premise is needed: a state that a deployment settled is
  not brought back when the deployment is rolled back (see the findings).

For `Backfill`, a walk of any number of addresses, any batch size, target and budget, on
any tree, with users and a node that move between all its steps:

* `WalksGoDown`: `WalksSpec => WalksDown`. The process implements the store under a
  single caller: a step of it that changes a table is `Lower` with the *current* start
  and the block the head's line has below it, a step of a pass or a user is that of
  `Archive`, all others are stutters. The strengthening, `WalkInv`, follows a walker
  from its plan to its end. The walk holds the sync slot, so the head stays
  (`SlotIsTaken`). A watch that is ended and begun again lies above the head, where no
  walker is (`WalkersHold`). The blocks taken are an unbroken chain (`ChainIsUnbroken`:
  answers may be of any branch, but one is used only as the parent of the block above).
  That this chain is the store's is `WalkersAreOnTheChain`: a walker that may still
  write has joined at a block of the head's line, or knows the hash of its start, or has
  a start that is final. The last case is where the header is pruned and no walk has
  left an anchor, and the node never leaves a final block (`StartsAreKnown`; passes
  prune nothing above what is final).
* `WalkersHoldStarts`: `[]WalkersHoldTheirStarts`, from the same invariant.
* `WalkedChainHolds`, `WalkedReadsHold`, `WalkedUnknownHolds`: `[]HoldsTheChain`,
  `[]ReadsAreTrue` and `[]UnknownIsExact` under `WalksSpec`: as each step is one of the store's, the invariants of the store carry over.

For `Index`, any number of addresses, batches and steps of any size, any number of failures
and kills, on any tree (`IndexSpec`; its fairness is not used):

* `SlotStaysFree`: `[]SlotIsFree`. The strengthening, `LoopInv`, says for each place of the
  loop who holds the sync slot: in `catch_up` and `follow` the pass that runs there, in
  `walk` the walk until it is over (`SlotIsHeld`); and that
  it never asks for a watch or a walk from or to block 0 (`ArgumentsAreBlocks`).
* `IndexGoesDown`: `WalksDown` again, now of the whole program. `WalksSpec` lets a pass run
  only where no walk does; that `index` keeps to this is `SlotIsHeld`, and so `WalkInv` is
  an invariant of it too. A kill ends a walk at any of its steps and keeps the tables.
* `IndexedStartsHold`, `IndexedChainHolds`, `IndexedReadsHold`, `IndexedUnknownHolds`:
  `[]WalkersHoldTheirStarts`, `[]HoldsTheChain`, `[]ReadsAreTrue` and `[]UnknownIsExact`
  of the archive that `balq index` keeps.

For `ForkSearch`, of any height and with any headers pruned:

* `SearchHolds`: `SearchSpec => []ExactIsTheFork`. The strengthening, `SearchInv`, is
  the loop invariant of the bisection: `lo < hi`, the fork is at most `hi`, and above
  `lo` *if* the header of `lo` was read. A header that is not served counts as one
  before the fork, so the interval may lose the fork on its lower side; `loSeen`
  is what tells.

For `Sidecar`, of any number of processes, commands and addresses:

* `SidecarHolds`: `SidecarSpec => []SidecarLeadsToTheServer`. In `SidecarInv` the lock
  on the file makes its holder unique; the name in a sidecar is that of the process
  that wrote it, and what a server has written is there unless a command removed
  another one's or an empty one; and each command keeps what its reading and its
  question told it: one that is about to remove a sidecar has read a name whose
  server is gone.

For the questions of `Questions`, of any size (`input` is any of them, and the theorem is
about each state; there is no step):

* `HistoryEndsWhereItIsAnswered` and `BranchIsThePrimarys`:
  `input \in BlockQuestions => EndOfHistoryIsAnswered` and `... => PrimaryDecides`, for any
  number of attempts, any replies and any tree. A call ends with the first attempt that got
  through (`CallEnds`, `AnswerIsTaken`, `TakenIsAnswered`), which makes a header or a list
  one the node served (`HeaderIsServed`, `ListIsServed`); with a backup, two missing lists
  make an error of transport, so history never ends there (`FallbackList`).
* `ProofsProve`: `input \in ProofQuestions => ProvenIsTheState`. An account proof that holds
  claims the account's storage (`ClaimIsTheStorage`). The delicate case is a claim that there
  is no account: it must be a claim of no storage, and is, because an account is in the trie
  from its first write on (`NoAccountNoStorage`).
* `OpeningKeepsAll`: `IsAFile => OpenedFilesAreConsistent`, for any history, states and version.
* `TakenListsAreCanonical`: `input \in ListQuestions => ValidListsAreCanonical`, for lists of any
  length. Two arguments are inductions, done with a least counterexample (`LeastOf`): that
  neighbours in order are all in order, and that the merge ends early only at a shared key,
  which needs where it may stand after n steps (`MergeStands`) and that it is defined
  at all (`MergeGoesOn`).
* `BatchesAreAnswered`: `input \in BatchQuestions => RelayKeepsOrder`, for batches of any
  length. What is sent upstream is all the archive does not answer, once each and in order
  (`RelayedAre`), so the answer at the place of a request is the one to it where the node
  gives no ids, and elsewhere the first with its id is (`HitIsTheAnswer`); entry by entry, the
  answers then stand in the client's order (`OutGoesOn`, `EntriesJoined`).
* `KeysStayInOrder`: `input \in KeyQuestions => KeysKeepOrder`, for bytes of any size and
  fields of any width. A recursive function is what it says only if there is one that does
  (`StepsGoOn`); what holds of its first value and is kept by each step holds of the last
  (`AllUpTo`). By these a number of a field is the number of its bytes, and the bytes are
  those of the number (`BeOfFromBe`). Byte strings of one length are ordered as their
  numbers are, as at the first byte that differs the rest cannot make up for it
  (`OrderOfNumbers`), and a string of two parts by the first part and then the second
  (`JoinedLess`). The range of a prefix is what begins with it (`RangeIsPrefix`), also where
  it ends in largest bytes, or has no other, and so no end (`PrefixEndIs`). A seek's upper end
  is above all indices of its block because `u32::MAX` is the last number of its field
  (`LastIsLast`).
* `EncodingsAreReadBack`: `input \in StoredQuestions => EncodingsReadBack`. Zeros in front do
  not change a number (`ZerosInFront`), so a value is read from either form
  (`ValueReadsBack`, `ShortestReadsBack`); the slots of a list of any length are read back
  word by word (`SlotsReadBack`). That a list cut short is refused needs words of two bytes
  or more; with one byte each a list of words one shorter would be read.

For `System`, any number of addresses, on one thread or many, with `unwatch`, lazy
proofs, dropped futures, crashes and a node that may go anywhere (`SystemSpec`):

* `SnapshotsHoldWatches`: `[]SnapshotIsCurrent`; `NothingComesBack`:
  `[]NothingForUnwatched`; `IndexStaysExact`: `[]IndexMatchesRecords`. The three need each
  other and come from one invariant, `TablesInv /\ ProcessesInv`. Here the arguments of a
  transaction may be stale, so what `HoldInv` says of the chain is not available and
  in its place stands what survives staleness: no record lies above the head
  (`RecordsUnderHead`), the block in work is the one above the head (`NextIsAbove`),
  and at `apply` each watch is what the snapshot says, gone, or begins later
  (`SnapshotsHold`, from `in_flight` and the gate). With the first two, the entry of a
  block replaces none; with the last, nothing is written for an address that left. That a
  rollback finds in its snapshot every address the index names is the part of
  `SnapshotsHold` about `undo`.

For `System` on one thread, without `unwatch` and lazy calls (`FollowSpec`):

* `FollowsTheOrder`: `FollowSpec => KeepsTheOrder`. The processes implement the store
  under a single caller: `Apply` is `Extend` with the *current* watchlist and a child of
  the head, `Rollback` is `Reorg` to an ancestor, `StoreProof` is `ProveBefore` at the
  block under a first change, an expiry is `Expire` of all that is left of it, and every
  other step leaves the tables alone. The strengthening is `FollowInv`: the invariants above,
  those of the store, and `OrderInv`. Its heart is pruning. A header that is missing was
  pruned at or under the finalized block, or lies under every start
  (`MissingAreSettled`); where the head's header is missing, no check links the next
  block, but each block of the batch was fetched from a node that does not leave the
  finalized line, so it is above the head (`BatchIsAbove`, `BlockIsAbove`). The work of
  a bootstrap is what the pending table says until it is done (`WorkIsPending`,
  `ItemIsPending`).
* `ReadsStayCurrent`: `[]OrderInv`: what a pass read before an await, a commit or a prune
  is still so where it uses it. TLC confirms it in 15 seconds more than `follow` takes, as an
  `INVARIANT` of that configuration; it is not one of its own accord because the
  refinement fails wherever it does.
* `FollowedChainHolds`, `FollowedReadsHold`, `FollowedUnknownHolds`: `[]HoldsTheChain`,
  `[]ReadsAreTrue` and `[]UnknownIsExact` under `FollowSpec`; and `FollowedNoHole`, where no
  block deploys a watched contract, `[]NoInternal`.

These assume `FollowsOneLine`, which the constants of `follow` satisfy: passes run on one
thread; the node stays within the horizon of its finalized block, as that is what the
horizon is for; and the branches of the tree part at or above `start - 1` of every start a
caller passes. The last is the case the code does not handle (`stale_parent`: with
branches that part deeper, a header remembered from the wrong branch is taken for the fork).
Without it `KeepsTheOrder` is false, so it cannot be dropped. A tree of one branch satisfies
it with any starts, and any tree does with starts on its trunk.

For `Reads`, any number of slots and callers' requests, beside blocks, reorgs, walks and
`unwatch` (`ReadSpec`, an archive without proofs):

* `CallsReadAsOne`: `ReadSpec => []AnswersUnlessReorged`. The invariant keeps, for a call
  in progress, that the checks it has made still hold and that every value it has found is
  the head's (`FindingsHold`); a transaction that is no reorg and no `unwatch` only moves a start
  down and the head up its line, which takes no answer back.
* `SeeksAreTrue`: `ReadSpec => SeekIsTrue`, of one step: even where the watch the range
  check saw is another by now, a record that is found is one of a covered block, so `HoldInv`
  tells its value.

Lemmas are stated per action, and the QED of each theorem is the usual temporal
step.

Only model-checked:

* `HoldsTheChain`, `ReadsAreTrue`, `UnknownIsExact` and `NoInternal` for threads and lazy proofs (run
  `threads`). They are not true for every constant: with two addresses the race at
  `lib.rs:457` breaks the first, and with deeper starts `stale_parent` the second.
* `CatchesUp`, `FollowsToTheHead`, `OnceEnds`: liveness under fairness, out of TLAPS's reach.
* What `MCFunctions` itself states: `LocateNamesSlots`, `VariablesReadBack` and
  `ReturnsReadBack`. The definitions of `Layout` are RECURSIVE operators over types and their
  members, and `Abi` uses them; a module that reaches one cannot use the SMT backend.

## 5. What is not modelled

* RLP, JSON, keccak and Merkle tries: third-party. A list that does not match its
  header, like any other malformed answer, is an error that ends the pass; a proof
  is bound to a state root or it is not.
* HTTP: an exchange is one of the outcomes the code tells apart.
* `compact` and the verification of a whole file.
* `measure_proof_window`: it tries twelve fixed distances until one fails.
* A walk in which one address is named twice, and reports of a walk. Reads after
  *both* proofs and backfill are not checked: there `ReadsAreTrue` and
  `HistoryIsBlockData` fail (see the findings).
* Liveness of pending proofs: the node may refuse every proof.
* `index --no-backfill`, and the layouts `index` fetches; rendering, benchmarks, the
  parsing of solc's JSON, packages and examples: sequential, and no state of the
  archive depends on them. The Node binding calls the same archive from a thread
  pool, which is what `Threaded` is for.

## 6. Plan

1. `Layout` with functions over a tree of types instead of RECURSIVE operators, so that
   `LocateNamesSlots` can be proved for every layout.
2. `Threaded` passes with lazy proofs: an invariant for `ReadsAreTrue` once `header_of` compares
   what it remembers with the child's parent.
