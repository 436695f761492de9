-------------------------------- MODULE System --------------------------------
(***************************************************************************)
(* An archive in use: sync passes, calls of watch() and unwatch(), a lazy  *)
(* bootstrap (Archive::bootstrap_slot), a node that moves, dropped futures *)
(* and crashes.  With Threaded the processes interleave at every           *)
(* transaction, as under bal-node, where passes run on a thread pool.      *)
(* Without, they interleave only where one of them awaits, as on a         *)
(* single-threaded executor.                                               *)
(***************************************************************************)
EXTENDS Sync

CONSTANTS
  Threaded,   \* do processes run in parallel, or only where others await?
  Starts      \* bound: the starts a caller passes to watch()

ASSUME SystemAssumption == Threaded \in BOOLEAN /\ Starts \subseteq Heights \ {0}

VARIABLES
  user,   \* the caller of watch(); the gate admits one at a time
  lazy    \* a bootstrap_slot call

vars == <<syncVars, user, lazy>>

NoCall == [pc |-> "idle", addr |-> "none", start |-> 0, seen |-> 0]
NoLazy == [pc |-> "idle", addr |-> "none", slot |-> "none", start |-> 0,
           at |-> 0, root |-> NoHash, answer |-> <<>>]

UserAwaits == user.pc = "idle"
LazyAwaits == lazy.pc \in {"idle", "proof"}

SyncMay == Threaded \/ (UserAwaits /\ LazyAwaits)
UserMay == Threaded \/ (SyncAwaits /\ LazyAwaits)
LazyMay == Threaded \/ (SyncAwaits /\ UserAwaits)

-----------------------------------------------------------------------------
(* watch() and unwatch() *)

WatchBegin(a, n) ==
  /\ user.pc = "idle" /\ UserMay
  /\ TakeGate(a, n)
  /\ user' = [pc |-> "watch", addr |-> a, start |-> n, seen |-> HeadNumber]
  /\ UNCHANGED <<nodeVars, sync, lazy>>

\* in_flight is loaded now; a start at or below the floor is refused.
WatchEnd ==
  /\ user.pc = "watch" /\ UserMay
  /\ IF user.start > user.seen /\ user.start > inFlight
     THEN Watch(user.addr, user.start, user.seen)
     ELSE UNCHANGED tables
  /\ ReleaseGate
  /\ user' = NoCall
  /\ UNCHANGED <<nodeVars, sync, lazy>>

UnwatchCall(a) ==
  /\ user.pc = "idle" /\ UserMay
  /\ watch[a] # 0 /\ Unwatch(a)
  /\ UNCHANGED <<nodeVars, sync, user, lazy>>

-----------------------------------------------------------------------------
(* bootstrap_slot: four reads in separate transactions, a proof, a write *)

LazyBegin(a, s) ==
  /\ lazy.pc = "idle" /\ LazyMay
  /\ watch[a] # 0
  /\ lazy' = [NoLazy EXCEPT !.pc = "head", !.addr = a, !.slot = s, !.start = watch[a]]
  /\ UNCHANGED <<archiveVars, nodeVars, sync, user>>

LazyHead ==
  /\ lazy.pc = "head" /\ LazyMay
  /\ lazy' = IF HeadNumber < lazy.start THEN NoLazy
             ELSE [lazy EXCEPT !.pc = "boot", !.at = HeadNumber]
  /\ UNCHANGED <<archiveVars, nodeVars, sync, user>>

LazyBoot ==
  /\ lazy.pc = "boot" /\ LazyMay
  /\ lazy' = IF boot[lazy.addr][lazy.slot] # Unseen THEN NoLazy
             ELSE [lazy EXCEPT !.pc = "root"]
  /\ UNCHANGED <<archiveVars, nodeVars, sync, user>>

LazyRoot ==
  /\ lazy.pc = "root" /\ LazyMay
  /\ lazy' = IF hashes[lazy.at] = NoHash THEN NoLazy
             ELSE [lazy EXCEPT !.pc = "proof", !.root = hashes[lazy.at]]
  /\ UNCHANGED <<archiveVars, nodeVars, sync, user>>

LazyProof ==
  /\ lazy.pc = "proof" /\ LazyMay
  /\ \/ /\ SourceBlock(lazy.at) = lazy.root
        /\ lazy' = [lazy EXCEPT !.pc = "store",
             !.answer = [s \in {lazy.slot} |-> ValueAt(lazy.root, lazy.at, lazy.addr, s)]]
     \/ lazy' = NoLazy
  /\ UNCHANGED <<archiveVars, nodeVars, sync, user>>

LazyStore ==
  /\ lazy.pc = "store" /\ LazyMay
  /\ IF watch[lazy.addr] = lazy.start /\ hashes[lazy.at] = lazy.root
     THEN PutBootstrap(lazy.addr, lazy.start, lazy.at, lazy.root, lazy.answer)
     ELSE UNCHANGED archiveVars
  /\ lazy' = NoLazy
  /\ UNCHANGED <<nodeVars, sync, user>>

LazyStep == LazyHead \/ LazyBoot \/ LazyRoot \/ LazyProof \/ LazyStore

-----------------------------------------------------------------------------

\* The process dies and the file is opened again: every transaction was
\* committed or never happened, and what was volatile is gone.
Crash ==
  /\ <<sync, user, lazy>> # <<Idle, NoCall, NoLazy>>
  /\ sync' = Idle /\ user' = NoCall /\ lazy' = NoLazy
  /\ inFlight' = 0 /\ syncing' = FALSE /\ gate' = FALSE
  /\ UNCHANGED <<tables, nodeVars>>

SystemInit ==
  /\ Init /\ NodeInit
  /\ sync = Idle /\ user = NoCall /\ lazy = NoLazy

\* The groups of steps a run composes.
Syncs ==
  /\ SyncMay
  /\ \/ \E m \in Budgets \cup {NoLimit}, p \in BOOLEAN : Begin(m, p)
     \/ SyncStep
     \/ Abort
  /\ UNCHANGED <<user, lazy>>

Watches ==
  \/ \E a \in Addr, n \in Starts : WatchBegin(a, n)
  \/ WatchEnd

Unwatches == \E a \in Addr : UnwatchCall(a)

Lazies == (\E a \in Addr, s \in Slot : LazyBegin(a, s)) \/ LazyStep

Moves == NodeStep /\ UNCHANGED <<user, lazy>>

SystemNext == Syncs \/ Watches \/ Unwatches \/ Lazies \/ Moves \/ Crash

SystemSpec == SystemInit /\ [][SystemNext]_vars

\* Without unwatch() and lazy calls, and without unwatch() alone.
FollowNext == Syncs \/ Watches \/ Moves \/ Crash
FollowSpec == SystemInit /\ [][FollowNext]_vars
ThreadSpec == SystemInit /\ [][Syncs \/ Watches \/ Lazies \/ Moves \/ Crash]_vars

-----------------------------------------------------------------------------
(* A caller that keeps calling sync_step and lets each call finish, and a  *)
(* node that, asked for the same block again and again, answers.           *)

Passes ==
  /\ SyncMay
  /\ Begin(NoLimit, FALSE) \/ SyncStep
  /\ UNCHANGED <<user, lazy>>

Served(n) == SyncMay /\ FetchServed(n) /\ UNCHANGED <<user, lazy>>

FairSpec ==
  /\ SystemInit /\ [][Passes \/ Watches \/ Moves]_vars
  /\ WF_vars(Passes)
  /\ WF_vars(WatchEnd)
  /\ \A n \in Heights : SF_vars(Served(n))

-----------------------------------------------------------------------------
(* Properties *)

\* watchlist_for and the gate promise that a watch() racing with a pass either
\* lands in the snapshot of the block being applied or is refused for it
\* (sync.rs:222): at apply_block the snapshot holds every start up to the block.
SnapshotIsCurrent ==
  sync.pc = "apply" =>
    \A a \in Watched : watch[a] <= sync.next => sync.snap[a] = watch[a]

\* However passes, reorgs and errors alternate: once the node settles on a
\* block, the archive gets there, or is beyond it on a branch the node left or
\* is yet to serve again.
CatchesUp ==
  \A h \in Hash :
    <>[](canon = h /\ \E a \in Watched : watch[a] <= Num[h])
      => <>[](head = h \/ HeadNumber > Num[h])

\* The store behind the processes, without the fields that serialise them: what the
\* processes write is what a single caller would write in the order of the loops: blocks
\* in parent order (sync.rs:190), rollbacks along the head's line, proofs right under a
\* first change.
Store == INSTANCE Archive WITH inFlight <- 0, syncing <- FALSE, gate <- FALSE
KeepsTheOrder ==
  Store!Init /\ [][UNCHANGED tables \/ Store!Forward \/ Store!Proofs]_tables

-----------------------------------------------------------------------------
(* What makes it inductive *)

Answer == Hash \cup {NoHash, "asked", "failed"}
Values == UNION {[D -> Value] : D \in SUBSET Slot}

\* Slots that block seen wrote first, of a watch that began at start.
Item == [addr : Addr, start : Heights \ {0}, seen : Heights \ {0}, slots : SUBSET Slot]
Group == [addr : Addr, start : {0}, seen : Heights \ {0}, slots : SUBSET Slot]

Pass ==
  [pc : {"idle", "claim", "head", "finalized", "check", "fork", "rollback", "undo", "loop", "fetch",
         "snapshot", "apply", "retry", "groups", "pick", "header", "proof", "store"},
   next : 0 .. MaxHeight + 1, srcHead : Heights, finalized : Heights, budget : Int,
   prover : BOOLEAN, queue : UNION {[D -> Answer] : D \in SUBSET Heights},
   blk : Hash \cup {NoHash}, cursor : Heights, floor : Heights, mid : BOOLEAN,
   lastFork : Heights \cup {NoFork}, snap : [Addr -> Heights], retry : BOOLEAN,
   work : SUBSET (Item \cup Group), item : Item \cup {NoItem},
   root : Hash \cup {NoHash}, answer : Values]

ProcessesTypeOK ==
  /\ NodeTypeOK
  /\ sync \in Pass
  /\ user \in [pc : {"watch"}, addr : Addr, start : Heights \ {0}, seen : Heights] \cup {NoCall}
  /\ lazy \in [pc : {"head", "boot", "root", "proof", "store"}, addr : Addr, slot : Slot,
               start : Heights \ {0}, at : Heights, root : Hash \cup {NoHash}, answer : Values]
              \cup {NoLazy}

\* Nothing is recorded above the head.
RecordsUnderHead ==
  \A r \in BlockRecords : head # NoHash /\ r.block <= Num[head] /\ r.index < MaxIndex

\* What a pass read is still so where it uses it: the snapshots miss no watch that
\* matters, and the block in work is the one above the head.
SnapshotsHold ==
  /\ sync.pc = "apply" =>
       /\ inFlight = sync.next
       /\ \A a \in Addr : watch[a] \in {0, sync.snap[a]} \/ watch[a] > sync.next
  /\ sync.pc = "undo" => \A e \in blockidx : sync.snap[e.addr] # 0

\* A block is in work until its fresh slots are.
Proving == sync.pc \in {"pick", "header", "proof", "store"}

NextIsAbove ==
  /\ sync.pc = "check" => head # NoHash
  /\ sync.pc \in {"head", "finalized", "check", "loop", "fetch", "snapshot", "apply"} /\ head # NoHash
       => sync.next = Num[head] + 1
  /\ Proving /\ ~ sync.retry => head # NoHash /\ sync.next = Num[head]
  /\ sync.retry => Proving \/ sync.pc = "groups"
  /\ sync.pc = "groups" => sync.retry

\* The blocks of a batch have the numbers they were asked for.
BatchIsNumbered ==
  /\ \A n \in DOMAIN sync.queue :
       /\ sync.queue[n] \in {NoHash, "asked", "failed"} \/ Num[sync.queue[n]] = n
       /\ sync.queue[n] = "asked" => sync.pc = "fetch"
  /\ sync.pc \in {"snapshot", "apply"} => sync.blk \in Hash /\ Num[sync.blk] = sync.next

\* Proofs in progress are about a block right under a first change.
ProofsAreRooted ==
  /\ IF sync.pc = "groups" THEN sync.work \subseteq Group ELSE sync.work \subseteq Item
  /\ sync.pc \in {"header", "proof", "store"} => sync.item \in Item
  /\ sync.pc \in {"proof", "store"} => sync.root \in Hash /\ Num[sync.root] = sync.item.seen - 1
  /\ lazy.pc \in {"proof", "store"} => lazy.root \in Hash /\ Num[lazy.root] = lazy.at

TablesInv ==
  /\ TypeOK /\ NothingForUnwatched /\ PendingMirrorsBoot
  /\ IndexMatchesRecords /\ RecordsUnderHead

ProcessesInv ==
  /\ ProcessesTypeOK /\ SnapshotsHold /\ NextIsAbove /\ BatchIsNumbered /\ ProofsAreRooted

-----------------------------------------------------------------------------
(* What makes the order hold, on one thread and without unwatch() or lazy   *)
(* calls.                                                                  *)

\* The node stays on the finalized line, and a pass knows no later finalized block.
FinalStays ==
  /\ OnLine(final, canon) /\ Num[canon] <= Num[final] + FinalityLag
  /\ sync.finalized <= Num[final] /\ Less(sync.srcHead, Horizon) <= Num[final]

\* The head's line is the finalized one at n, and will be.
Settled(n) == n <= Num[final] /\ Line[head][n] = Line[final][n]

\* A header that is missing was pruned, or lies under every start.
MissingAreSettled ==
  head # NoHash =>
    /\ \A n \in Heights : n <= Num[head] /\ hashes[n] = NoHash =>
         Settled(n) \/ \A a \in Watched : n < watch[a]
    /\ hashes[Num[head]] = NoHash => Settled(Num[head])

\* Watches come only where a pass awaits, and a pass without a head is at the first start.
WatchesComeBetween ==
  /\ lazy = NoLazy
  /\ \A a \in Watched : watch[a] \in Starts
  /\ user.pc = "watch" => user.start \in Starts /\ user.seen = HeadNumber /\ SyncAwaits
  /\ ~ At("idle") /\ ~ At("claim") =>
       Watched # {} /\ (head = NoHash => inFlight = FirstBlock /\ sync.next = FirstBlock)
  /\ At("undo") \/ At("apply") => sync.snap = watch

\* Block h, got for number n, is on the finalized line as far as the pass prunes.
Rooted(h, n) == \A m \in Heights : m <= n /\ m <= sync.finalized => Line[h][m] = Line[final][m]

Blocks == {n \in DOMAIN sync.queue : sync.queue[n] \notin {NoHash, "asked", "failed"}}

\* Where the head's header is pruned no check says that a block is a child of the head,
\* but all that was fetched is above it.
BatchIsAbove ==
  \A n \in Blocks :
    /\ Rooted(sync.queue[n], n)
    /\ head # NoHash /\ Num[head] < n /\ hashes[Num[head]] = NoHash =>
         Line[sync.queue[n]][Num[head]] = head

BlockIsAbove ==
  /\ sync.pc \in {"idle", "claim", "head", "finalized"} => Blocks = {}
  /\ sync.pc \in {"snapshot", "apply"} =>
       Rooted(sync.blk, sync.next) /\ (head # NoHash => Parent(sync.blk) = head)

\* Work is what the pending table says, until it is done.
Waiting(i) == {s \in Slot : pending[i.addr][s] = i.seen}

WorkIsPending ==
  Proving \/ At("groups") =>
    \A i \in sync.work : /\ i.slots = Waiting(i) /\ i.slots # {}
                         /\ Proving => i.start = watch[i.addr]

ItemIsPending ==
  /\ sync.pc \in {"header", "proof", "store"} =>
       /\ sync.item.start = watch[sync.item.addr] /\ sync.item.slots \subseteq Waiting(sync.item)
       /\ \A i \in sync.work : <<i.addr, i.seen>> # <<sync.item.addr, sync.item.seen>>
  /\ At("header") => sync.item.slots # {}
  /\ At("store") =>
       /\ DOMAIN sync.answer \subseteq Waiting(sync.item) \ sync.item.slots
       /\ \A s \in DOMAIN sync.answer :
            sync.answer[s] = ValueAt(sync.root, sync.item.seen - 1, sync.item.addr, s)

\* What it asks of the constants: one thread; the node does not leave the line of a block
\* beyond the horizon; the branches part above the block under each start.
FollowsOneLine ==
  /\ ~ Threaded
  /\ FinalityLag \in 1 .. Horizon
  /\ \A n \in Starts, g, h \in Hash :
       n - 1 <= Num[g] /\ n - 1 <= Num[h] => Line[g][n - 1] = Line[h][n - 1]

\* Where a pass uses what it read before an await, a commit or a prune, it is still so:
\* the next block is a child of the head though the head's header may be pruned
\* (sync.rs:226), and a proof is filed where the pending table still asks for it.
OrderInv ==
  /\ FinalStays /\ MissingAreSettled /\ WatchesComeBetween
  /\ BatchIsAbove /\ BlockIsAbove /\ WorkIsPending /\ ItemIsPending
=============================================================================
