------------------------------- MODULE Archive -------------------------------
(***************************************************************************)
(* The store of bal-archive: one redb file with nine tables, and the four  *)
(* volatile fields of struct Archive that serialise its users.  Every      *)
(* operator with a prime below is ONE write transaction of the code: the   *)
(* conjuncts are its guard, what it writes and what it leaves alone.       *)
(* Module Sync runs them from processes whose arguments may have gone      *)
(* stale; Spec, at the end, runs them in the order a single caller keeps,  *)
(* with arguments that are current.                                        *)
(***************************************************************************)
EXTENDS Chain

CONSTANT FullDetail    \* ArchiveConfig::full_detail: keep every change of a block

ASSUME FullDetailAssumption == FullDetail \in BOOLEAN

VARIABLES
  watch,     \* WATCH: first block recorded for an address, 0 when not watched
  slots,     \* SLOTS: the values, keyed by (addr, slot, block, index)
  blockidx,  \* BLOCKIDX: which slots of an address a block wrote
  boot,      \* BOOT: what is known of a slot before its first recorded change
  pending,   \* PENDING: first_seen of the slots that await a proof, 0 if none
  created,   \* CREATED: the block that deployed an address, 0 when not seen
  anchor,    \* META anchor:<addr>: hash of the start block backfill wrote last
  hashes,    \* HASHES: the retained headers, by block number
  head,      \* META head: the last block applied
  inFlight,  \* Archive::in_flight: the block a sync pass is about to apply
  syncing,   \* Archive::syncing: a sync or backfill pass runs
  gate       \* Archive::watch_gate: held by a watch() in progress

tables == <<watch, slots, blockidx, boot, pending, created, anchor, hashes, head>>
volatile == <<inFlight, syncing, gate>>
archiveVars == <<tables, volatile>>

-----------------------------------------------------------------------------
(* Keys and values *)

Record == [addr : Addr, slot : Slot, block : Heights, index : 0 .. MaxIndex,
           value : Value, prov : {"bal", "proof", "unverified"}]

IndexEntry == [addr : Addr, block : Heights, slot : Slot]

BootState == [tag : {"unseen", "pending", "lost", "done"}, seen : Heights]
Unseen == [tag |-> "unseen", seen |-> 0]
Done == [tag |-> "done", seen |-> 0]
Pending(n) == [tag |-> "pending", seen |-> n]
Lost(n) == [tag |-> "lost", seen |-> n]
Unresolved(b) == b.tag \in {"pending", "lost"}

HeadNumber == IF head = NoHash THEN 0 ELSE Num[head]

\* redb insert: the new records replace those with the same key.
Insert(table, new) ==
  {r \in table : \A t \in new :
     <<r.addr, r.slot, r.block, r.index>> # <<t.addr, t.slot, t.block, t.index>>}
  \cup new

\* What a block leaves in SLOTS for a: every change, or the last per slot.
BalRecords(h, a, prov) ==
  {[addr |-> a, slot |-> c.slot, block |-> Num[h], index |-> c.index,
    value |-> c.value, prov |-> prov] :
     c \in {d \in Changes[h] : d.addr = a /\ (FullDetail \/ d = FinalChange(h, a, d.slot))}}

\* The block index entry of block h for a: nothing when it wrote nothing.
IndexOf(h, a) == {[addr |-> a, block |-> Num[h], slot |-> s] : s \in Written(h, a)}

\* Mutant of IndexAfter: an entry only where a slot is new to the block index.
IndexAfterNewSlots(h, as) ==
  blockidx \cup UNION {IndexOf(h, a) :
    a \in {x \in as : \A e \in blockidx : e.addr # x \/ e.slot \notin Written(h, x)}}

\* blockidx after writing the entries of h for the addresses as: an entry is
\* replaced whole, and left alone when the block wrote nothing of the address.
IndexAfter(h, as) ==
  {e \in blockidx : ~ (e.addr \in as /\ e.block = Num[h] /\ Written(h, e.addr) # {})}
  \cup UNION {IndexOf(h, a) : a \in as}

-----------------------------------------------------------------------------
(* The watchlist *)

\* watch() takes the gate, checks the address and reads the head number.
TakeGate(a, n) ==
  /\ ~ gate /\ n >= 1 /\ watch[a] = 0
  /\ gate' = TRUE
  /\ UNCHANGED <<tables, inFlight, syncing>>

ReleaseGate ==
  /\ gate' = FALSE
  /\ UNCHANGED <<inFlight, syncing>>

\* Mutant of Watch: a start is compared with in_flight only.
WatchApplied(a, n, seenHead) ==
  /\ n >= 1
  /\ watch[a] = 0
  /\ n > inFlight
  /\ watch' = [watch EXCEPT ![a] = n]
  /\ UNCHANGED <<slots, blockidx, boot, pending, created, anchor, hashes, head>>

\* The rest of watch(): seenHead is the head number the call read before it loaded
\* in_flight.  The gate keeps other watch and unwatch calls out.
Watch(a, n, seenHead) ==
  /\ n >= 1
  /\ watch[a] = 0
  /\ n > seenHead /\ n > inFlight
  /\ watch' = [watch EXCEPT ![a] = n]
  /\ UNCHANGED <<slots, blockidx, boot, pending, created, anchor, hashes, head>>

\* Mutant of Unwatch: the creation block survives.
UnwatchKeepsCreated(a) ==
  /\ ~ gate
  /\ watch' = [watch EXCEPT ![a] = 0]
  /\ slots' = {r \in slots : r.addr # a}
  /\ blockidx' = {e \in blockidx : e.addr # a}
  /\ boot' = [boot EXCEPT ![a] = [s \in Slot |-> Unseen]]
  /\ pending' = [pending EXCEPT ![a] = [s \in Slot |-> 0]]
  /\ anchor' = [anchor EXCEPT ![a] = NoHash]
  /\ UNCHANGED <<created, hashes, head, volatile>>

\* unwatch(): everything stored for a goes in one transaction.
Unwatch(a) ==
  /\ ~ gate
  /\ watch' = [watch EXCEPT ![a] = 0]
  /\ slots' = {r \in slots : r.addr # a}
  /\ blockidx' = {e \in blockidx : e.addr # a}
  /\ boot' = [boot EXCEPT ![a] = [s \in Slot |-> Unseen]]
  /\ pending' = [pending EXCEPT ![a] = [s \in Slot |-> 0]]
  /\ created' = [created EXCEPT ![a] = 0]
  /\ anchor' = [anchor EXCEPT ![a] = NoHash]
  /\ UNCHANGED <<hashes, head, volatile>>

Watched == {a \in Addr : watch[a] # 0}

\* claim_start(), when something is watched: the first block of the pass.
FirstBlock == IF head = NoHash THEN Min({watch[a] : a \in Watched}) ELSE Num[head] + 1

ClaimStart ==
  /\ ~ gate
  /\ Watched # {}
  /\ inFlight' = FirstBlock
  /\ UNCHANGED <<tables, syncing, gate>>

\* Mutant of WatchlistFor: the snapshot without the in-flight marker.
WatchlistOnly(n) ==
  /\ ~ gate
  /\ UNCHANGED <<tables, volatile>>

\* watchlist_for(): publishes the block; the snapshot it returns is watch.
WatchlistFor(n) ==
  /\ ~ gate
  /\ inFlight' = n
  /\ UNCHANGED <<tables, syncing, gate>>

BeginSync ==
  /\ ~ syncing
  /\ syncing' = TRUE
  /\ UNCHANGED <<tables, inFlight, gate>>

\* Mutant of SyncIdle: the sync slot is not released.
SyncIdleHolds ==
  /\ inFlight' = 0
  /\ UNCHANGED <<tables, syncing, gate>>

SyncIdle ==
  /\ inFlight' = 0
  /\ syncing' = FALSE
  /\ UNCHANGED <<tables, gate>>

-----------------------------------------------------------------------------
(* Blocks going forward *)

\* Mutants of Live: the start block itself is left out, or the watchlist is not
\* read again inside the transaction.
LiveAfterStart(h, snap) == {a \in Addr : snap[a] # 0 /\ Num[h] > snap[a] /\ watch[a] # 0}
LiveInSnapshot(h, snap) == {a \in Addr : snap[a] # 0 /\ Num[h] >= snap[a]}

\* The addresses apply_block writes for: in the snapshot, started, and still
\* watched (whatever their start is now).
Live(h, snap) == {a \in Addr : snap[a] # 0 /\ Num[h] >= snap[a] /\ watch[a] # 0}

\* A creation counts once, and only from a list that matched its header.
Creates(h, a) == created[a] = 0 /\ h \in Committed /\ a \in Deploys[h]

IsCreated(h, a) == created[a] # 0 \/ Creates(h, a)

\* The slots of a that apply_block(h) sees for the first time.
FreshSlots(h, a) == {s \in Written(h, a) : boot[a][s] = Unseen /\ ~ IsCreated(h, a)}

BootAfter(h, a, s) ==
  IF boot[a][s] = Unseen
  THEN IF s \notin Written(h, a) THEN Unseen
       ELSE IF IsCreated(h, a) THEN Done ELSE Pending(Num[h])
  ELSE IF Creates(h, a) THEN Done ELSE boot[a][s]

PendingAfter(h, a, s) ==
  IF s \in FreshSlots(h, a) THEN Num[h]
  ELSE IF Creates(h, a) THEN 0 ELSE pending[a][s]

\* Mutant of HashesAfter: filed under the parent's number.
HashesAfterShifted(h, below) ==
  [n \in Heights |-> IF n < below THEN NoHash ELSE IF n + 1 = Num[h] THEN h ELSE hashes[n]]

\* The retained headers once block h is in and those under below are pruned.
HashesAfter(h, below) ==
  [n \in Heights |-> IF n < below THEN NoHash ELSE IF n = Num[h] THEN h ELSE hashes[n]]

ApplyBlock(h, snap, below) ==
  LET live == Live(h, snap)
      prov == IF h \in Committed THEN "bal" ELSE "unverified"
  IN
  /\ head' = h
  /\ slots' = Insert(slots, UNION {BalRecords(h, a, prov) : a \in live})
  /\ blockidx' = IndexAfter(h, live)
  /\ boot' = [a \in Addr |-> [s \in Slot |->
                IF a \in live THEN BootAfter(h, a, s) ELSE boot[a][s]]]
  /\ pending' = [a \in Addr |-> [s \in Slot |->
                   IF a \in live THEN PendingAfter(h, a, s) ELSE pending[a][s]]]
  /\ created' = [a \in Addr |-> IF a \in live /\ Creates(h, a) THEN Num[h] ELSE created[a]]
  /\ hashes' = HashesAfter(h, below)
  /\ UNCHANGED <<watch, anchor, volatile>>

RememberHeader(h) ==
  /\ hashes' = IF hashes[Num[h]] = NoHash THEN [hashes EXCEPT ![Num[h]] = h] ELSE hashes
  /\ UNCHANGED <<watch, slots, blockidx, boot, pending, created, anchor, head, volatile>>

-----------------------------------------------------------------------------
(* Reorg *)

\* A fork under start - 1 leaves nothing of the address.
Wiped(b, snap, a) == snap[a] # 0 /\ b + 1 < snap[a]

\* Mutant of Victims: the first block above the fork is spared.
VictimsAboveNext(b, snap) == {e \in blockidx : snap[e.addr] # 0 /\ e.block > b + 1}

\* The index entries a rollback to b walks: those above b.
Victims(b, snap) == {e \in blockidx : snap[e.addr] # 0 /\ e.block > b}

\* Mutant of Forgotten: what was given up stays given up.
ForgottenPending(b, snap, a, s) ==
  \/ Wiped(b, snap, a)
  \/ /\ boot[a][s].tag = "pending" /\ boot[a][s].seen > b
     /\ \E e \in Victims(b, snap) : e.addr = a /\ e.slot = s

\* A slot first seen above the fork was never seen on the chain that stays.
Forgotten(b, snap, a, s) ==
  \/ Wiped(b, snap, a)
  \/ /\ Unresolved(boot[a][s]) /\ boot[a][s].seen > b
     /\ \E e \in Victims(b, snap) : e.addr = a /\ e.slot = s

RollbackTo(b, snap) ==
  /\ hashes[b] # NoHash
  /\ head' = hashes[b]
  /\ slots' = {r \in slots :
       /\ ~ Wiped(b, snap, r.addr)
       /\ \A e \in Victims(b, snap) : <<e.addr, e.block, e.slot>> # <<r.addr, r.block, r.slot>>}
  /\ blockidx' = {e \in blockidx : ~ Wiped(b, snap, e.addr)} \ Victims(b, snap)
  /\ boot' = [a \in Addr |-> [s \in Slot |->
                IF Forgotten(b, snap, a, s) THEN Unseen ELSE boot[a][s]]]
  /\ pending' = [a \in Addr |-> [s \in Slot |->
                   IF Forgotten(b, snap, a, s) THEN 0 ELSE pending[a][s]]]
  /\ hashes' = [n \in Heights |-> IF n > b THEN NoHash ELSE hashes[n]]
  /\ created' = [a \in Addr |-> IF created[a] > b THEN 0 ELSE created[a]]
  /\ UNCHANGED <<watch, anchor, volatile>>

-----------------------------------------------------------------------------
(* Pre-values *)

\* Mutants of Accepts: the block of the first change itself will do, or any block.
AcceptsAtChange(a, s, at) ==
  \/ boot[a][s] = Unseen
  \/ Unresolved(boot[a][s]) /\ boot[a][s].seen >= at
AcceptsAny(a, s, at) == boot[a][s] # Done

\* A proof taken at block at may become the pre-value of these slots.
Accepts(a, s, at) ==
  \/ boot[a][s] = Unseen
  \/ Unresolved(boot[a][s]) /\ boot[a][s].seen > at

\* Mutants of PutBootstrap: filed at the start block, or at the block of the proof.
PutBootstrapAtStart(a, start, at, h, vals) ==
  LET ok == {s \in DOMAIN vals : Accepts(a, s, at)} IN
  /\ watch[a] = start
  /\ hashes[at] = h
  /\ slots' = Insert(slots,
       {[addr |-> a, slot |-> s, block |-> start, index |-> MaxIndex,
         value |-> vals[s], prov |-> "proof"] : s \in ok})
  /\ boot' = [boot EXCEPT ![a] = [s \in Slot |-> IF s \in ok THEN Done ELSE @[s]]]
  /\ pending' = [pending EXCEPT ![a] = [s \in Slot |-> IF s \in ok THEN 0 ELSE @[s]]]
  /\ UNCHANGED <<watch, blockidx, created, anchor, hashes, head, volatile>>
PutBootstrapAtProof(a, start, at, h, vals) ==
  LET ok == {s \in DOMAIN vals : Accepts(a, s, at)} IN
  /\ watch[a] = start
  /\ hashes[at] = h
  /\ slots' = Insert(slots,
       {[addr |-> a, slot |-> s, block |-> at, index |-> MaxIndex,
         value |-> vals[s], prov |-> "proof"] : s \in ok})
  /\ boot' = [boot EXCEPT ![a] = [s \in Slot |-> IF s \in ok THEN Done ELSE @[s]]]
  /\ pending' = [pending EXCEPT ![a] = [s \in Slot |-> IF s \in ok THEN 0 ELSE @[s]]]
  /\ UNCHANGED <<watch, blockidx, created, anchor, hashes, head, volatile>>

\* put_bootstrap(): vals[s] is the value proven for slot s at block at, whose
\* hash was h, for a watch that started at start.
PutBootstrap(a, start, at, h, vals) ==
  LET ok == {s \in DOMAIN vals : Accepts(a, s, at)} IN
  /\ watch[a] = start
  /\ hashes[at] = h
  /\ slots' = Insert(slots,
       {[addr |-> a, slot |-> s, block |-> start - 1, index |-> MaxIndex,
         value |-> vals[s], prov |-> "proof"] : s \in ok})
  /\ boot' = [boot EXCEPT ![a] = [s \in Slot |-> IF s \in ok THEN Done ELSE @[s]]]
  /\ pending' = [pending EXCEPT ![a] = [s \in Slot |-> IF s \in ok THEN 0 ELSE @[s]]]
  /\ UNCHANGED <<watch, blockidx, created, anchor, hashes, head, volatile>>

\* Mutant of MarkLost: the retry entry stays.
MarkLostKeepsPending(a, lost, seen) ==
  /\ watch[a] # 0
  /\ boot' = [boot EXCEPT ![a] = [s \in Slot |-> IF s \in lost THEN Lost(seen) ELSE @[s]]]
  /\ UNCHANGED <<watch, slots, blockidx, pending, created, anchor, hashes, head, volatile>>

\* mark_lost(): whatever the state of the slots is by now.
MarkLost(a, lost, seen) ==
  /\ watch[a] # 0
  /\ boot' = [boot EXCEPT ![a] = [s \in Slot |-> IF s \in lost THEN Lost(seen) ELSE @[s]]]
  /\ pending' = [pending EXCEPT ![a] = [s \in Slot |-> IF s \in lost THEN 0 ELSE @[s]]]
  /\ UNCHANGED <<watch, slots, blockidx, created, anchor, hashes, head, volatile>>

-----------------------------------------------------------------------------
(* Blocks going backward *)

\* Mutant of Lowered: the first change stays where it was seen first.
LoweredOnce(state, n) ==
  CASE state.tag = "done" -> state
    [] state.tag = "lost" -> Lost(n)
    [] state.tag = "pending" -> state
    [] OTHER -> Pending(n)

\* What is unknown of a slot that block n wrote lies below n now.
Lowered(state, n) ==
  CASE state.tag = "done" -> state
    [] state.tag = "lost" -> Lost(n)
    [] OTHER -> Pending(n)

\* backfill_block(): one older block for a, whose start moves down to it.
BackfillBlock(a, h) ==
  LET n == Num[h]
      next == [s \in Slot |->
                 IF s \in Written(h, a) THEN Lowered(boot[a][s], n) ELSE boot[a][s]]
      settled == [s \in Slot |-> IF next[s] = Unseen THEN Unseen ELSE Done]
      deployed == a \in Deploys[h]
  IN
  /\ watch[a] = n + 1
  /\ slots' = Insert(slots, BalRecords(h, a, "bal"))
  /\ blockidx' = IndexAfter(h, {a})
  /\ boot' = [boot EXCEPT ![a] = IF deployed THEN settled ELSE next]
  /\ pending' = [pending EXCEPT ![a] = [s \in Slot |->
       IF deployed THEN 0
       ELSE IF s \in Written(h, a) /\ next[s].tag = "pending" THEN n ELSE @[s]]]
  /\ created' = IF deployed THEN [created EXCEPT ![a] = n] ELSE created
  /\ watch' = [watch EXCEPT ![a] = n]
  /\ anchor' = [anchor EXCEPT ![a] = h]
  /\ UNCHANGED <<hashes, head, volatile>>

-----------------------------------------------------------------------------
(* Reads *)

Miss(why) == [kind |-> why, value |-> Zero, at |-> 0]
Hit(v, at) == [kind |-> "value", value |-> v, at |-> at]

\* check_range(): why block n of a cannot be read, or "ok".
CheckRange(a, n) ==
  IF watch[a] = 0 THEN "NotWatched"
  ELSE IF n < watch[a] THEN "BeforeStart"
  ELSE IF head = NoHash THEN "NotSynced"
  ELSE IF n > Num[head] THEN "AfterHead"
  ELSE "ok"

\* Mutant of LastRecord: the first change of the block.
LastBlockRecord(a, s, n) ==
  LET upTo == {r \in slots : r.addr = a /\ r.slot = s /\ r.block <= n}
  IN  CHOOSE r \in upTo : \A t \in upTo :
        t.block < r.block \/ (t.block = r.block /\ t.index >= r.index)

\* The last record of slot s of a at or before block n, in key order.
LastRecord(a, s, n) ==
  LET upTo == {r \in slots : r.addr = a /\ r.slot = s /\ r.block <= n}
  IN  CHOOSE r \in upTo : \A t \in upTo :
        t.block < r.block \/ (t.block = r.block /\ t.index <= r.index)

\* The second half of storage_at(): one read transaction, no range check.
Lookup(a, s, n) ==
  IF \E r \in slots : r.addr = a /\ r.slot = s /\ r.block <= n
  THEN Hit(LastRecord(a, s, n).value, LastRecord(a, s, n).block)
  ELSE IF created[a] # 0 THEN Hit(Zero, created[a])
  ELSE CASE Unresolved(boot[a][s]) -> [Miss("UnknownBefore") EXCEPT !.at = boot[a][s].seen]
         [] boot[a][s] = Done -> Miss("Internal")
         [] OTHER -> Miss("NeverRecorded")

StorageAt(a, s, n) ==
  IF CheckRange(a, n) = "ok" THEN Lookup(a, s, n) ELSE Miss(CheckRange(a, n))

\* history() over lo .. hi - 1, both ends in range.
History(a, s, lo, hi) ==
  {r \in slots : r.addr = a /\ r.slot = s /\ lo <= r.block /\ r.block < hi}

ChangedSlots(a, n) == {e.slot : e \in {x \in blockidx : x.addr = a /\ x.block = n}}

-----------------------------------------------------------------------------
(* The store under one caller at a time.  Each step is one transaction with *)
(* current arguments, in the order the loops of sync.rs and backfill.rs    *)
(* keep: blocks are applied in parent order, a rollback goes to a held     *)
(* header, a proof is taken where the pending table or the head says, and  *)
(* backfill follows the held chain down.                                   *)

Init ==
  /\ watch = [a \in Addr |-> 0]
  /\ slots = {}
  /\ blockidx = {}
  /\ boot = [a \in Addr |-> [s \in Slot |-> Unseen]]
  /\ pending = [a \in Addr |-> [s \in Slot |-> 0]]
  /\ created = [a \in Addr |-> 0]
  /\ anchor = [a \in Addr |-> NoHash]
  /\ hashes = [n \in Heights |-> NoHash]
  /\ head = NoHash
  /\ inFlight = 0
  /\ syncing = FALSE
  /\ gate = FALSE

StartWatch(a, n) == Watch(a, n, HeadNumber) /\ UNCHANGED volatile

EndWatch(a) == watch[a] # 0 /\ Unwatch(a)

\* h is the block the loop would apply next.
Follows(h) ==
  /\ Watched # {}
  /\ Num[h] = FirstBlock
  /\ head # NoHash => Parent(h) = head

Extend(h, below) == Follows(h) /\ ApplyBlock(h, watch, below)

\* The fork is an ancestor of the head the store still has the header of, or the
\* head itself when the node is back on its branch by the time of the search.
Reorg(b) ==
  /\ head # NoHash /\ b <= Num[head]
  /\ hashes[b] = Line[head][b]
  /\ RollbackTo(b, watch)

\* header_of, for the block before a first change: an ancestor of the head.
Remember(n) ==
  /\ head # NoHash /\ n < Num[head]
  /\ \E a \in Addr, s \in Slot : pending[a][s] = n + 1
  /\ RememberHeader(Line[head][n])

\* One eth_getProof for the slots S, and what it proved.
Prove(a, S, at) ==
  /\ watch[a] # 0
  /\ hashes[at] # NoHash
  /\ PutBootstrap(a, watch[a], at, hashes[at], [s \in S |-> ValueAt(hashes[at], at, a, s)])

\* retry_pending and the early bootstrap: some of the slots that block n wrote
\* first, at the block before it.
ProveBefore(a, n, S) ==
  /\ n # 0 /\ \A s \in S : Unresolved(boot[a][s]) /\ boot[a][s].seen = n
  /\ Prove(a, S, n - 1)

\* bootstrap_slot: at what was the head when the slot had no change.
ProveHead(a, s, at) ==
  /\ head # NoHash /\ watch[a] <= at /\ at <= Num[head]
  /\ Prove(a, {s}, at)

Expire(a, n) ==
  LET late == {s \in Slot : pending[a][s] = n} IN
  n # 0 /\ late # {} /\ MarkLost(a, late, n)

Lower(a) ==
  /\ head # NoHash /\ watch[a] >= 2 /\ Num[head] >= watch[a]
  /\ created[a] = 0
  /\ LET h == Line[head][watch[a] - 1] IN h \in Committed /\ BackfillBlock(a, h)

\* What every user of the store does.
Forward ==
  \/ \E a \in Addr, n \in Heights : StartWatch(a, n)
  \/ \E a \in Addr : EndWatch(a)
  \/ \E h \in Hash, below \in Heights : Extend(h, below)
  \/ \E b \in Heights : Reorg(b)

Proofs ==
  \/ \E n \in Heights : Remember(n)
  \/ \E a \in Addr, n \in Heights, S \in SUBSET Slot : ProveBefore(a, n, S)
  \/ \E a \in Addr, s \in Slot, at \in Heights : ProveHead(a, s, at)
  \/ \E a \in Addr, n \in Heights : Expire(a, n)

Backfills == \E a \in Addr : Lower(a)

Next == Forward \/ Proofs \/ Backfills

Spec == Init /\ [][Next]_archiveVars

\* The two ways the store is used without mixing proven and older records.
ProofSpec == Init /\ [][Forward \/ Proofs]_archiveVars
BackfillSpec == Init /\ [][Forward \/ Backfills]_archiveVars

-----------------------------------------------------------------------------
(* Properties *)

\* Every table holds what its row type says.
TypeOK ==
  /\ watch \in [Addr -> Heights]
  /\ slots \subseteq Record
  /\ blockidx \subseteq IndexEntry
  /\ boot \in [Addr -> [Slot -> BootState]]
  /\ pending \in [Addr -> [Slot -> Heights]]
  /\ created \in [Addr -> Heights]
  /\ anchor \in [Addr -> Hash \cup {NoHash}]
  /\ hashes \in [Heights -> Hash \cup {NoHash}]
  /\ \A n \in Heights : hashes[n] # NoHash => Num[hashes[n]] = n
  /\ head \in Hash \cup {NoHash}
  /\ inFlight \in 0 .. MaxHeight + 1
  /\ syncing \in BOOLEAN
  /\ gate \in BOOLEAN

\* The retry path scans PENDING and the readers look at BOOT: the two tables
\* agree on which slots await a proof and since which block, after every
\* apply, rollback, proof, expiry, backfill and deployment.
PendingMirrorsBoot ==
  \A a \in Addr, s \in Slot :
    IF boot[a][s].tag = "pending" THEN pending[a][s] = boot[a][s].seen
                                       /\ pending[a][s] # 0
    ELSE pending[a][s] = 0

\* unwatch() deletes everything, and nothing comes back for an address
\* without a watch: no records, index, bootstrap state, creation or anchor.
NothingForUnwatched ==
  \A a \in Addr : watch[a] = 0 =>
    /\ \A r \in slots : r.addr # a
    /\ \A e \in blockidx : e.addr # a
    /\ \A s \in Slot : boot[a][s] = Unseen
    /\ created[a] = 0 /\ anchor[a] = NoHash

\* The records, without the proven pre-values.
BlockRecords == {r \in slots : r.prov # "proof"}

\* Rollback finds what to delete through BLOCKIDX alone: it lists exactly
\* the (address, block, slot) triples that have records from blocks.
IndexMatchesRecords ==
  {[addr |-> r.addr, block |-> r.block, slot |-> r.slot] : r \in BlockRecords} = blockidx

\* The block records of an address lie between the start of its watch and the
\* head, whatever was rolled back, backfilled, unwatched or watched again, and
\* never under the key a proven pre-value has in its block.
RecordsInRange ==
  \A r \in BlockRecords :
    /\ head # NoHash /\ r.block <= Num[head]
    /\ watch[r.addr] # 0 /\ watch[r.addr] <= r.block
    /\ r.index < MaxIndex

\* Over start .. head the store holds the writes of the chain its head is
\* on: none missing, none from a branch that was rolled back.
HoldsTheChain ==
  head # NoHash =>
    \A a \in Watched : \A n \in watch[a] .. Num[head], s \in Slot :
      LET held == {r \in BlockRecords : r.addr = a /\ r.block = n /\ r.slot = s}
          h == Line[head][n]
      IN  /\ (held = {}) <=> (s \notin Written(h, a))
          /\ held # {} => FinalChange(h, a, s).value \in {r.value : r \in held}

\* A read that answers with a value answers with the value the slot had at
\* the end of that block on the chain the head is on.
ReadsAreTrue ==
  \A a \in Addr, s \in Slot, n \in Heights :
    StorageAt(a, s, n).kind = "value" =>
      StorageAt(a, s, n).value = ValueAt(head, n, a, s)

\* A read that says "unknown before f" is right: f is the first block of
\* the covered range that writes the slot, and n lies before it.
UnknownIsExact ==
  \A a \in Addr, s \in Slot, n \in Heights :
    LET out == StorageAt(a, s, n) IN
    out.kind = "UnknownBefore" =>
      /\ n < out.at /\ out.at <= Num[head]
      /\ s \in Written(Line[head][out.at], a)
      /\ \A m \in watch[a] .. out.at - 1 : s \notin Written(Line[head][m], a)

\* A read never ends in NotAvailable::Internal: the bootstrap state says
\* "done" only where a record or a creation answers.
NoInternal ==
  \A a \in Addr, s \in Slot, n \in Heights : StorageAt(a, s, n).kind # "Internal"

\* What history() returns comes from access lists, as its doc says.
HistoryIsBlockData ==
  \A a \in Addr, s \in Slot, n \in Heights :
    CheckRange(a, n) = "ok" =>
      \A r \in History(a, s, n, n + 1) : r.prov # "proof"
=============================================================================
