-------------------------------- MODULE Sync ---------------------------------
(***************************************************************************)
(* One pass of Archive::sync_step and the functions it calls, as a process *)
(* against a node that keeps moving.  A step ends where the code awaits    *)
(* the source or commits a transaction; sync.pc names what comes next.     *)
(* The other fields of sync are the locals of the pass.                    *)
(***************************************************************************)
EXTENDS Archive, Node

CONSTANTS
  Window,           \* ArchiveConfig::bootstrap_window
  Horizon,          \* REORG_HORIZON_FALLBACK
  FetchAhead,       \* FETCH_AHEAD
  ProofChunk,       \* PROOF_CHUNK
  AllowUnverified,  \* ArchiveConfig::allow_unverified
  Budgets           \* the max_blocks a caller may pass

ASSUME SyncAssumption ==
  /\ Window \in Nat /\ Horizon \in Nat
  /\ FetchAhead \in Nat \ {0} /\ ProofChunk \in Nat \ {0}
  /\ AllowUnverified \in BOOLEAN
  /\ Budgets \subseteq Nat

VARIABLE sync

syncVars == <<archiveVars, nodeVars, sync>>

NoLimit == MaxHeight + 1
NoFork == MaxHeight + 1

\* u64::saturating_sub
Less(m, n) == IF m > n THEN m - n ELSE 0

NoItem == [addr |-> "none", start |-> 0, seen |-> 0, slots |-> {}]
NoAnswer == <<>>

\* Between passes no local is alive.
Idle ==
  [pc |-> "idle", next |-> 0, srcHead |-> 0, finalized |-> 0, budget |-> 0,
   prover |-> FALSE, queue |-> <<>>, blk |-> NoHash,
   cursor |-> 0, floor |-> 0, mid |-> FALSE, lastFork |-> NoFork,
   snap |-> [a \in Addr |-> 0], retry |-> FALSE,
   work |-> {}, item |-> NoItem, root |-> NoHash, answer |-> NoAnswer]

\* Where the pass waits for the source.
SyncAwaits ==
  sync.pc \in {"idle", "head", "finalized", "check", "fork", "fetch", "header", "proof"}

\* SyncGuard: the end of a pass, by return, by error or by drop.
EndPass == sync' = Idle /\ SyncIdle

Local == UNCHANGED <<archiveVars, nodeVars>>

At(pc) == sync.pc = pc

-----------------------------------------------------------------------------
(* Where the pass starts *)

\* prover: the caller passed a StateSource.
Begin(budget, prover) ==
  /\ At("idle")
  /\ BeginSync
  /\ sync' = [sync EXCEPT !.pc = "claim", !.budget = budget, !.prover = prover]
  /\ UNCHANGED nodeVars

Claim ==
  /\ At("claim")
  /\ \/ ClaimStart /\ sync' = [sync EXCEPT !.pc = "head", !.next = FirstBlock]
     \/ ~ gate /\ Watched = {} /\ EndPass
  /\ UNCHANGED nodeVars

AskHead ==
  /\ At("head")
  /\ sync' = [sync EXCEPT !.pc = "finalized", !.srcHead = SourceHead]
  /\ Local

\* The horizon: the finalized block clamped to the source head, or the
\* fallback when the node has no such tag.
AskFinalized ==
  /\ At("finalized")
  /\ \E tag \in BOOLEAN :
       LET deepest == Less(sync.srcHead, Horizon)
           tagged == Max({deepest, Min({SourceFinalized, sync.srcHead})})
       IN  sync' = [sync EXCEPT !.finalized = IF tag THEN tagged ELSE deepest,
                                !.pc = IF head = NoHash THEN "loop" ELSE "check"]
  /\ Local

\* Is the archive's head still canonical?
CheckHead ==
  /\ At("check")
  /\ LET cur == SourceBlock(Num[head]) IN
     \/ cur = NoHash /\ EndPass
     \/ /\ cur = head
        /\ sync' = [sync EXCEPT !.pc = "loop"]
        /\ UNCHANGED archiveVars
     \/ /\ cur \notin {NoHash, head}
        /\ sync' = [sync EXCEPT !.pc = "fork", !.cursor = Num[head],
                                !.floor = Less(Num[head], Horizon), !.mid = FALSE]
        /\ UNCHANGED archiveVars
  /\ UNCHANGED nodeVars

-----------------------------------------------------------------------------
(* find_fork and rollback_to *)

\* No stored header at the cursor: ReorgBeyondHorizon.
ForkUnknown ==
  /\ At("fork") /\ hashes[sync.cursor] = NoHash
  /\ EndPass
  /\ UNCHANGED nodeVars

ForkStep ==
  /\ At("fork") /\ hashes[sync.cursor] # NoHash
  /\ LET live == SourceBlock(sync.cursor)
         same == live = hashes[sync.cursor]
     IN
     \/ /\ same /\ ~ (sync.mid /\ sync.lastFork = sync.cursor)
        /\ sync' = [sync EXCEPT !.pc = "rollback",
                      !.lastFork = IF sync.mid THEN sync.cursor ELSE @]
        /\ UNCHANGED archiveVars
     \* InconsistentSource: the same fork twice in a row
     \/ same /\ sync.mid /\ sync.lastFork = sync.cursor /\ EndPass
     \* BlockNotFound
     \/ live = NoHash /\ EndPass
     \/ /\ live # NoHash /\ ~ same /\ sync.cursor > sync.floor
        /\ sync' = [sync EXCEPT !.cursor = @ - 1]
        /\ UNCHANGED archiveVars
     \* ReorgBeyondHorizon
     \/ live # NoHash /\ ~ same /\ sync.cursor <= sync.floor /\ EndPass
  /\ UNCHANGED nodeVars

\* rollback_to reads the watchlist before it opens its transaction.
RollbackScan ==
  /\ At("rollback")
  /\ sync' = [sync EXCEPT !.pc = "undo", !.snap = watch]
  /\ Local

Rollback ==
  /\ At("undo")
  /\ RollbackTo(sync.cursor, sync.snap)
  /\ sync' = [sync EXCEPT !.pc = "loop", !.next = sync.cursor + 1,
                          !.cursor = 0, !.floor = 0, !.mid = FALSE, !.snap = Idle.snap]
  /\ UNCHANGED nodeVars

-----------------------------------------------------------------------------
(* The block loop *)

Continues == sync.next <= sync.srcHead /\ sync.budget > 0

\* The prefetched block at the front of the queue is the one wanted.
QueueReady == sync.queue # <<>> /\ Min(DOMAIN sync.queue) = sync.next

\* A new batch replaces a queue that ran dry or was overtaken by a rollback.
StartFetch ==
  /\ At("loop") /\ Continues /\ ~ QueueReady
  /\ LET size == Min({FetchAhead, sync.srcHead - sync.next + 1, sync.budget})
     IN  sync' = [sync EXCEPT !.pc = "fetch",
           !.queue = [n \in sync.next .. sync.next + size - 1 |-> "asked"]]
  /\ Local

\* join_all: the answers come in any order, each from the branch the node
\* serves at that moment.  An error is kept until the block is wanted.
Fetched(n, answer) ==
  LET queue == [sync.queue EXCEPT ![n] = answer]
  IN  /\ At("fetch") /\ n \in DOMAIN sync.queue /\ sync.queue[n] = "asked"
      /\ sync' = [sync EXCEPT !.queue = queue,
           !.pc = IF \E m \in DOMAIN queue : queue[m] = "asked" THEN "fetch" ELSE "loop"]
      /\ Local

FetchServed(n) == Fetched(n, SourceBlock(n))
FetchFailed(n) == Fetched(n, "failed")

\* What the pass does with the next block of the queue.
NearHead(n) == n >= Less(sync.srcHead, 2)
UnlinkedNever(h) == FALSE   \* Mutant of Unlinked: no parent check.
Unlinked(h) == Num[h] > 0 /\ hashes[Num[h] - 1] \notin {NoHash, Parent(h)}

TakeBlock ==
  /\ At("loop") /\ Continues /\ QueueReady
  /\ LET h == sync.queue[sync.next]
         rest == [n \in DOMAIN sync.queue \ {sync.next} |-> sync.queue[n]]
         fail == h = "failed" \/ (h = NoHash /\ ~ NearHead(sync.next))
         taken == ~ fail /\ h # NoHash
     IN
     \/ fail /\ EndPass
     \* a lagging source near its head ends the loop quietly
     \/ /\ ~ fail /\ h = NoHash
        /\ sync' = [sync EXCEPT !.pc = "retry", !.queue = <<>>]
        /\ UNCHANGED archiveVars
     \/ /\ taken /\ Unlinked(h)
        /\ sync' = [sync EXCEPT !.pc = "fork", !.queue = rest, !.mid = TRUE,
                      !.cursor = sync.next - 1, !.floor = Less(sync.next - 1, Horizon)]
        /\ UNCHANGED archiveVars
     \* NoBalHash
     \/ taken /\ ~ Unlinked(h) /\ h \notin Committed /\ ~ AllowUnverified /\ EndPass
     \/ /\ taken /\ ~ Unlinked(h) /\ (h \in Committed \/ AllowUnverified)
        /\ sync' = [sync EXCEPT !.pc = "snapshot", !.queue = rest, !.blk = h]
        /\ UNCHANGED archiveVars
  /\ UNCHANGED nodeVars

Snapshot ==
  /\ At("snapshot")
  /\ WatchlistFor(sync.next)
  /\ sync' = [sync EXCEPT !.pc = "apply", !.snap = watch]
  /\ UNCHANGED nodeVars

PruneBelow == Min({sync.finalized, Less(sync.srcHead, Window + 1)})

\* The fresh slots of the block, one work item per address.
FreshWork(h, snap) ==
  {[addr |-> a, start |-> snap[a], seen |-> Num[h], slots |-> FreshSlots(h, a)] :
     a \in {x \in Live(h, snap) : FreshSlots(h, x) # {}}}

Apply ==
  /\ At("apply")
  /\ ApplyBlock(sync.blk, sync.snap, PruneBelow)
  /\ LET fresh == IF sync.prover THEN FreshWork(sync.blk, sync.snap) ELSE {}
         spent == [sync EXCEPT !.blk = NoHash, !.snap = Idle.snap,
                     !.budget = IF @ = NoLimit THEN @ ELSE @ - 1]
     IN  sync' = IF fresh = {}
                 THEN [spent EXCEPT !.pc = "loop", !.next = @ + 1]
                 ELSE [spent EXCEPT !.pc = "pick", !.work = fresh]
  /\ UNCHANGED nodeVars

LoopDone ==
  /\ At("loop") /\ ~ Continues
  /\ sync' = [sync EXCEPT !.pc = "retry", !.queue = <<>>]
  /\ Local

-----------------------------------------------------------------------------
(* Pre-values: the early bootstrap after a block, and the retries *)

\* retry_pending reads the pending table and then, in a second transaction,
\* the watchlist.
PendingGroups ==
  {i \in {[addr |-> a, start |-> 0, seen |-> n, slots |-> {s \in Slot : pending[a][s] = n}] :
            a \in Addr, n \in Heights \ {0}} : i.slots # {}}

RetryScan ==
  /\ At("retry")
  /\ \/ ~ sync.prover /\ EndPass
     \/ /\ sync.prover
        /\ sync' = [sync EXCEPT !.pc = "groups", !.retry = TRUE, !.work = PendingGroups]
        /\ UNCHANGED archiveVars
  /\ UNCHANGED nodeVars

RetryGroups ==
  /\ At("groups")
  /\ sync' = [sync EXCEPT !.pc = "pick",
       !.work = {[i EXCEPT !.start = watch[i.addr]] :
                   i \in {j \in sync.work : watch[j.addr] # 0}}]
  /\ Local

\* The next item: expired (retries only), or its proof root is looked up.
Expired(item) == sync.retry /\ Less(sync.srcHead, item.seen - 1) > Window

PickItem ==
  /\ At("pick")
  /\ \E item \in sync.work :
       LET root == hashes[item.seen - 1]
           rest == [sync EXCEPT !.work = @ \ {item}]
       IN
       \/ /\ Expired(item)
          /\ IF watch[item.addr] # 0 THEN MarkLost(item.addr, item.slots, item.seen)
             ELSE UNCHANGED archiveVars
          /\ sync' = rest
       \/ /\ ~ Expired(item)
          /\ sync' = [rest EXCEPT !.item = item, !.root = root,
                                  !.pc = IF root = NoHash THEN "header" ELSE "proof"]
          /\ UNCHANGED archiveVars
  /\ UNCHANGED nodeVars

\* header_of: a fetched header is remembered; without one the slots of the
\* item stay pending, and of the whole block in the early bootstrap.
HeaderAnswer ==
  /\ At("header")
  /\ LET h == SourceBlock(sync.item.seen - 1) IN
     \/ /\ h # NoHash
        /\ RememberHeader(h)
        /\ sync' = [sync EXCEPT !.pc = "proof", !.root = h]
     \/ /\ sync' = [sync EXCEPT !.pc = "pick", !.item = NoItem,
                      !.work = IF sync.retry THEN @ ELSE {}]
        /\ UNCHANGED archiveVars
  /\ UNCHANGED nodeVars

\* A proof verifies only against the state root it was asked for, so the
\* node must serve that very block; a failure leaves the rest pending.
ProofAnswer ==
  /\ At("proof")
  /\ \/ LET at == sync.item.seen - 1
            size == Min({ProofChunk, Cardinality(sync.item.slots)})
        IN  /\ SourceBlock(at) = sync.root
            /\ \E chunk \in SUBSET sync.item.slots :
                 /\ Cardinality(chunk) = size
                 /\ sync' = [sync EXCEPT !.pc = "store",
                      !.item.slots = @ \ chunk,
                      !.answer = [s \in chunk |-> ValueAt(sync.root, at, sync.item.addr, s)]]
     \/ sync' = [sync EXCEPT !.pc = "pick", !.item = NoItem, !.root = NoHash]
  /\ Local

StoreProof ==
  /\ At("store")
  /\ LET i == sync.item
         at == i.seen - 1
         live == watch[i.addr] = i.start /\ hashes[at] = sync.root
         done == [sync EXCEPT !.answer = NoAnswer]
     IN
     /\ IF live THEN PutBootstrap(i.addr, i.start, at, sync.root, sync.answer)
        ELSE UNCHANGED archiveVars
     /\ sync' = IF i.slots # {} THEN [done EXCEPT !.pc = "proof"]
                ELSE [done EXCEPT !.pc = "pick", !.item = NoItem, !.root = NoHash]
  /\ UNCHANGED nodeVars

\* No work left: on to the next block, or the end of the pass.
WorkDone ==
  /\ At("pick") /\ sync.work = {}
  /\ \/ /\ ~ sync.retry
        /\ sync' = [sync EXCEPT !.pc = "loop", !.next = @ + 1]
        /\ UNCHANGED archiveVars
     \/ sync.retry /\ EndPass
  /\ UNCHANGED nodeVars

-----------------------------------------------------------------------------

\* The caller drops the future, or an answer is an error the code returns.
Abort ==
  /\ SyncAwaits /\ ~ At("idle")
  /\ EndPass
  /\ UNCHANGED nodeVars

SyncStep ==
  \/ Claim \/ AskHead \/ AskFinalized \/ CheckHead
  \/ ForkUnknown \/ ForkStep \/ RollbackScan \/ Rollback
  \/ StartFetch \/ (\E n \in Heights : FetchServed(n) \/ FetchFailed(n)) \/ TakeBlock \/ LoopDone
  \/ Snapshot \/ Apply
  \/ RetryScan \/ RetryGroups \/ PickItem \/ HeaderAnswer \/ ProofAnswer
  \/ StoreProof \/ WorkDone

NodeStep ==
  /\ \E h \in Hash : SetCanon(h) \/ Finalize(h)
  /\ UNCHANGED <<archiveVars, sync>>
=============================================================================
