----------------------------- MODULE SystemProofs -----------------------------
(***************************************************************************)
(* The archive in use, every process of module System at once.  First the  *)
(* tables, one lemma per transaction, with arguments that may be stale;    *)
(* then the processes, one lemma per step of a pass.                       *)
(***************************************************************************)
EXTENDS System, ReadsProofs

USE DEF Heights

-----------------------------------------------------------------------------
(* The tables *)

LEMMA TablesFacts ==
  ASSUME TablesInv
  PROVE  /\ TypeOK /\ IndexCovers /\ IndexIsBacked /\ PendingMirrorsBoot /\ RecordsUnderHead
         /\ \A a \in Addr : watch[a] = 0 => Empty(a)
         /\ \A e \in blockidx : e.addr \in Addr /\ watch[e.addr] # 0
<1>1. TypeOK /\ IndexCovers /\ IndexIsBacked BY IndexSplit DEF TablesInv, TypeOK
<1>2. \A a \in Addr : watch[a] = 0 => Empty(a) BY EmptySplit DEF TablesInv
<1>3. \A e \in blockidx : e.addr \in Addr /\ watch[e.addr] # 0
  BY <1>1, <1>2 DEF TypeOK, IndexEntry, Empty
<1> QED BY <1>1, <1>2, <1>3 DEF TablesInv

LEMMA TablesFrom ==
  ASSUME TypeOK', IndexCovers', IndexIsBacked', RecordsUnderHead',
         \A a \in Addr, s \in Slot : Mirrors(boot'[a][s], pending'[a][s]),
         \A a \in Addr : watch'[a] = 0 => Empty(a)'
  PROVE  TablesInv'
<1>1. NothingForUnwatched' BY DEF NothingForUnwatched, Empty
<1>2. PendingMirrorsBoot' BY DEF PendingMirrorsBoot, Mirrors
<1>3. IndexMatchesRecords'
  <2>1. \A r \in BlockRecords' : Entry(r) \in blockidx' BY DEF IndexCovers, Entry
  <2>2. ASSUME NEW e \in blockidx' PROVE \E r \in BlockRecords' : Entry(r) = e
    <3>1. PICK r \in BlockRecords' : r.addr = e.addr /\ r.block = e.block /\ r.slot = e.slot
      BY DEF IndexIsBacked
    <3>2. e = [addr |-> e.addr, block |-> e.block, slot |-> e.slot]
      BY DEF TypeOK, IndexEntry
    <3> QED BY <3>1, <3>2 DEF Entry
  <2> QED BY <2>1, <2>2 DEF IndexMatchesRecords, Entry
<1> QED BY <1>1, <1>2, <1>3 DEF TablesInv

\* A step that leaves the tables alone, or only ends the reservation of a block.
LEMMA TablesStay ==
  ASSUME TablesInv, UNCHANGED tables,
         inFlight' \in 0 .. MaxHeight + 1, syncing' \in BOOLEAN, gate' \in BOOLEAN
  PROVE  TablesInv'
<1> USE DEF tables
<1>1. TypeOK' BY DEF TablesInv, TypeOK
<1>2. BlockRecords' = BlockRecords BY DEF BlockRecords
<1>3. IndexMatchesRecords' BY <1>2 DEF TablesInv, IndexMatchesRecords
<1> QED BY <1>1, <1>2, <1>3
  DEF TablesInv, RecordsUnderHead, NothingForUnwatched, PendingMirrorsBoot

LEMMA WatchTables ==
  ASSUME TablesInv, NEW c \in Addr, NEW n \in Heights \ {0}, NEW seen, Watch(c, n, seen),
         inFlight' = inFlight, syncing' = syncing, gate' \in BOOLEAN
  PROVE  TablesInv'
<1>1. TypeOK' BY DEF TablesInv, TypeOK, Watch
<1>2. /\ BlockRecords' = BlockRecords /\ blockidx' = blockidx /\ head' = head
      /\ \A a \in Addr : watch'[a] = 0 => watch[a] = 0
      /\ UNCHANGED <<slots, boot, pending, created, anchor>>
  BY HeightsFact DEF Watch, BlockRecords, TablesInv, TypeOK
<1> QED BY <1>1, <1>2
  DEF TablesInv, RecordsUnderHead, NothingForUnwatched, PendingMirrorsBoot, IndexMatchesRecords

LEMMA UnwatchTables ==
  ASSUME TablesInv, NEW c \in Addr, Unwatch(c)
  PROVE  TablesInv'
<1> USE TablesFacts
<1>1. TypeOK' BY UnwatchType
<1>2. /\ BlockRecords' = {r \in BlockRecords : r.addr # c}
      /\ blockidx' = {e \in blockidx : e.addr # c}
      /\ head' = head
  BY DEF Unwatch, BlockRecords
<1>3. IndexCovers' /\ IndexIsBacked' BY <1>2 DEF IndexCovers, IndexIsBacked, Entry
<1>4. RecordsUnderHead' BY <1>2 DEF RecordsUnderHead
<1>5. ASSUME NEW a \in Addr, watch'[a] = 0 PROVE Empty(a)'
  <2>1. a = c \/ watch[a] = 0 BY <1>5 DEF Unwatch, TypeOK
  <2> QED BY <2>1, UnwatchEmpty
<1>6. ASSUME NEW a \in Addr, NEW s \in Slot PROVE Mirrors(boot'[a][s], pending'[a][s])
  <2>1. Mirrors(boot[a][s], pending[a][s]) BY MirrorsSplit
  <2> QED BY <2>1, MirrorsStates DEF Unwatch, TypeOK
<1> QED BY <1>1, <1>3, <1>4, <1>5, <1>6, TablesFrom

\* A block is applied right above the head, or to an empty store, whatever the
\* snapshot says by now.
LEMMA ApplyTables ==
  ASSUME TablesInv, NEW h \in Hash, NEW snap \in [Addr -> Heights], NEW below \in Heights,
         ApplyBlock(h, snap, below), head # NoHash => Num[h] = Num[head] + 1
  PROVE  TablesInv'
<1> USE TablesFacts
<1> DEFINE live == Live(h, snap)
           prov == IF h \in Committed THEN "bal" ELSE "unverified"
<1>1. live \subseteq Addr /\ prov \in {"bal", "unverified"} BY DEF Live
<1>2. /\ slots' = Insert(slots, UNION {BalRecords(h, a, prov) : a \in live})
      /\ blockidx' = IndexAfter(h, live) /\ head' = h /\ watch' = watch
  BY DEF ApplyBlock
<1> HIDE DEF live, prov
<1>3. Num[h] \in Nat /\ h # NoHash /\ (head # NoHash => Num[head] \in Nat)
  BY HeightsFact DEF TypeOK
<1>4. \A r \in BlockRecords : r.block < Num[h] /\ r.block \in Nat
  BY <1>3, HeightsFact DEF RecordsUnderHead, TypeOK, BlockRecords, Record
<1>5. /\ IndexCovers' /\ IndexIsBacked'
      /\ \A r \in BlockRecords' :
           \/ r \in BlockRecords
           \/ r.addr \in live /\ r.block = Num[h] /\ r.index < MaxIndex
  <2>1. \A r \in BlockRecords : ~ (r.addr \in live /\ r.block = Num[h]) BY <1>3, <1>4
  <2> QED BY <1>1, <1>2, <2>1, BlockWritten
<1>6. RecordsUnderHead' BY <1>2, <1>3, <1>4, <1>5 DEF RecordsUnderHead
<1>7. TypeOK' BY ApplyType
<1>8. ASSUME NEW a \in Addr, watch'[a] = 0 PROVE Empty(a)'
  BY <1>2, <1>8, ApplyEmpty
<1>9. snap \in [Addr -> Nat] BY HeightsFact
<1>10. ASSUME NEW a \in Addr, NEW s \in Slot PROVE Mirrors(boot'[a][s], pending'[a][s])
  BY <1>9, ApplyMirrors
<1> QED BY <1>5, <1>6, <1>7, <1>8, <1>10, TablesFrom

LEMMA RollbackTables ==
  ASSUME TablesInv, NEW b \in Heights, NEW snap, RollbackTo(b, snap),
         \A e \in blockidx : snap[e.addr] # 0
  PROVE  TablesInv'
<1> USE TablesFacts
<1>1. TypeOK' BY RollbackType
<1>2. head' # NoHash /\ Num[head'] = b /\ watch' = watch BY DEF RollbackTo, TypeOK
<1>3. IndexCovers' /\ IndexIsBacked' /\ \A r \in BlockRecords' : r \in BlockRecords
  BY RollbackListed
<1>4. \A r \in BlockRecords' : r.block <= b BY RollbackUnder
<1>5. RecordsUnderHead' BY <1>2, <1>3, <1>4 DEF RecordsUnderHead
<1>6. ASSUME NEW a \in Addr, watch'[a] = 0 PROVE Empty(a)'
  BY <1>2, <1>6, RollbackEmpty
<1>7. ASSUME NEW a \in Addr, NEW s \in Slot PROVE Mirrors(boot'[a][s], pending'[a][s])
  BY RollbackMirrors
<1> QED BY <1>1, <1>3, <1>5, <1>6, <1>7, TablesFrom

\* A proof lands in a watch that is still there.
LEMMA PutTables ==
  ASSUME TablesInv, NEW c \in Addr, NEW start \in Heights \ {0}, NEW at, NEW hash,
         NEW vals \in Values, PutBootstrap(c, start, at, hash, vals)
  PROVE  TablesInv'
<1> USE TablesFacts
<1>1. PICK D \in SUBSET Slot : vals \in [D -> Value] BY DEF Values
<1>2. TypeOK' BY <1>1, PutType
<1>3. /\ blockidx' = blockidx /\ head' = head /\ watch' = watch /\ watch[c] # 0
  BY DEF PutBootstrap
<1>4. BlockRecords' = BlockRecords BY ProveKeepsBlockRecords DEF RecordsUnderHead
<1>5. IndexCovers' /\ IndexIsBacked' /\ RecordsUnderHead'
  BY <1>3, <1>4 DEF IndexCovers, IndexIsBacked, RecordsUnderHead, Entry
<1>6. ASSUME NEW a \in Addr, watch'[a] = 0 PROVE Empty(a)'
  <2>1. a # c /\ Empty(a) BY <1>3, <1>6
  <2> QED BY <2>1, ProveEmpty
<1>7. ASSUME NEW a \in Addr, NEW s \in Slot PROVE Mirrors(boot'[a][s], pending'[a][s])
  BY ProveMirrors
<1> QED BY <1>2, <1>5, <1>6, <1>7, TablesFrom

LEMMA LostTables ==
  ASSUME TablesInv, NEW c \in Addr, NEW lost, NEW n \in Heights, MarkLost(c, lost, n)
  PROVE  TablesInv'
<1> USE TablesFacts
<1>1. TypeOK' BY LostType
<1>2. /\ blockidx' = blockidx /\ head' = head /\ watch' = watch /\ watch[c] # 0
      /\ BlockRecords' = BlockRecords
  BY DEF MarkLost, BlockRecords
<1>3. IndexCovers' /\ IndexIsBacked' /\ RecordsUnderHead'
  BY <1>2 DEF IndexCovers, IndexIsBacked, RecordsUnderHead, Entry
<1>4. ASSUME NEW a \in Addr, watch'[a] = 0 PROVE Empty(a)'
  <2>1. a # c /\ Empty(a) BY <1>2, <1>4
  <2> QED BY <2>1, LostEmpty
<1>5. ASSUME NEW a \in Addr, NEW s \in Slot PROVE Mirrors(boot'[a][s], pending'[a][s])
  BY LostMirrors
<1> QED BY <1>1, <1>3, <1>4, <1>5, TablesFrom

LEMMA HeaderTables ==
  ASSUME TablesInv, NEW h \in Hash, RememberHeader(h)
  PROVE  TablesInv'
<1>1. TypeOK' BY HeaderType DEF TablesInv
<1>2. BlockRecords' = BlockRecords BY DEF RememberHeader, BlockRecords
<1> QED BY <1>1, <1>2
  DEF TablesInv, RecordsUnderHead, NothingForUnwatched, PendingMirrorsBoot, IndexMatchesRecords,
      RememberHeader

-----------------------------------------------------------------------------
(* What a step of another process leaves to a pass *)

\* Watches begin above the block that is reserved, or end; entries of the index go.
LEMMA PassIsLeft ==
  ASSUME ProcessesInv, TypeOK, sync' = sync, head' = head, inFlight' = inFlight,
         \A a \in Addr : watch'[a] \in {0, watch[a]} \/ watch'[a] > inFlight,
         \A e \in blockidx' : e \in blockidx
  PROVE  SnapshotsHold' /\ NextIsAbove' /\ BatchIsNumbered'
<1>1. SnapshotsHold' BY DEF ProcessesInv, SnapshotsHold
<1>2. NextIsAbove' BY DEF ProcessesInv, NextIsAbove, Proving
<1>3. BatchIsNumbered' BY DEF ProcessesInv, BatchIsNumbered
<1> QED BY <1>1, <1>2, <1>3

LEMMA WatchBeginKeeps ==
  ASSUME TablesInv, ProcessesInv, NEW c \in Addr, NEW n \in Starts, WatchBegin(c, n)
  PROVE  TablesInv' /\ ProcessesInv'
<1>1. /\ UNCHANGED <<tables, inFlight, syncing>> /\ gate' = TRUE /\ UNCHANGED <<nodeVars, sync, lazy>>
      /\ user' = [pc |-> "watch", addr |-> c, start |-> n, seen |-> HeadNumber]
  BY DEF WatchBegin, TakeGate
<1>2. TypeOK BY DEF TablesInv
<1>3. TablesInv' BY <1>1, <1>2, TablesStay DEF TypeOK
<1>4. HeadNumber \in Heights BY <1>2, HeightsFact DEF TypeOK, HeadNumber
<1>5. ProcessesTypeOK' /\ ProofsAreRooted'
  BY <1>1, <1>4, SystemAssumption
  DEF ProcessesInv, ProcessesTypeOK, ProofsAreRooted, NodeTypeOK, nodeVars
<1>6. SnapshotsHold' /\ NextIsAbove' /\ BatchIsNumbered'
  BY <1>1, <1>2, PassIsLeft DEF tables
<1> QED BY <1>3, <1>5, <1>6 DEF ProcessesInv

LEMMA WatchEndKeeps ==
  ASSUME TablesInv, ProcessesInv, WatchEnd
  PROVE  TablesInv' /\ ProcessesInv'
<1>1. /\ user.pc = "watch" /\ user' = NoCall /\ UNCHANGED <<nodeVars, sync, lazy>>
      /\ gate' = FALSE /\ inFlight' = inFlight /\ syncing' = syncing
      /\ \/ user.start > inFlight /\ Watch(user.addr, user.start, user.seen)
         \/ UNCHANGED tables
  BY DEF WatchEnd, ReleaseGate
<1>2. TypeOK BY DEF TablesInv
<1>3. user.addr \in Addr /\ user.start \in Heights \ {0}
  BY <1>1 DEF ProcessesInv, ProcessesTypeOK, NoCall
<1>4. TablesInv' BY <1>1, <1>2, <1>3, TablesStay, WatchTables DEF TypeOK
<1>5. /\ head' = head /\ blockidx' = blockidx
      /\ \A a \in Addr : watch'[a] = watch[a] \/ watch'[a] > inFlight
  BY <1>1, <1>2, <1>3 DEF Watch, tables, TypeOK
<1>6. SnapshotsHold' /\ NextIsAbove' /\ BatchIsNumbered'
  BY <1>1, <1>2, <1>5, PassIsLeft
<1>7. ProcessesTypeOK' /\ ProofsAreRooted'
  BY <1>1 DEF ProcessesInv, ProcessesTypeOK, ProofsAreRooted, NodeTypeOK, nodeVars
<1> QED BY <1>4, <1>6, <1>7 DEF ProcessesInv

LEMMA UnwatchCallKeeps ==
  ASSUME TablesInv, ProcessesInv, NEW c \in Addr, UnwatchCall(c)
  PROVE  TablesInv' /\ ProcessesInv'
<1>1. Unwatch(c) /\ UNCHANGED <<nodeVars, sync, user, lazy>> BY DEF UnwatchCall
<1>2. TypeOK BY DEF TablesInv
<1>3. TablesInv' BY <1>1, UnwatchTables
<1>4. /\ head' = head /\ inFlight' = inFlight
      /\ \A a \in Addr : watch'[a] \in {0, watch[a]}
      /\ \A e \in blockidx' : e \in blockidx
  BY <1>1, <1>2 DEF Unwatch, volatile, TypeOK
<1>5. SnapshotsHold' /\ NextIsAbove' /\ BatchIsNumbered'
  BY <1>1, <1>2, <1>4, PassIsLeft
<1>6. ProcessesTypeOK' /\ ProofsAreRooted'
  BY <1>1 DEF ProcessesInv, ProcessesTypeOK, ProofsAreRooted, NodeTypeOK, nodeVars
<1> QED BY <1>3, <1>5, <1>6 DEF ProcessesInv

LEMMA NodeKeeps ==
  ASSUME TablesInv, ProcessesInv, Moves
  PROVE  TablesInv' /\ ProcessesInv'
<1>1. /\ UNCHANGED <<archiveVars, sync, user, lazy>>
      /\ \E h \in Hash : SetCanon(h) \/ Finalize(h)
  BY DEF Moves, NodeStep
<1>2. TypeOK BY DEF TablesInv
<1>3. TablesInv' BY <1>1, <1>2, TablesStay DEF archiveVars, volatile, TypeOK
<1>4. NodeTypeOK' BY <1>1 DEF ProcessesInv, ProcessesTypeOK, NodeTypeOK, SetCanon, Finalize
<1>5. ProcessesTypeOK' /\ ProofsAreRooted'
  BY <1>1, <1>4 DEF ProcessesInv, ProcessesTypeOK, ProofsAreRooted
<1>6. SnapshotsHold' /\ NextIsAbove' /\ BatchIsNumbered'
  BY <1>1, <1>2, PassIsLeft DEF archiveVars, tables, volatile
<1> QED BY <1>3, <1>5, <1>6 DEF ProcessesInv

-----------------------------------------------------------------------------
(* bootstrap_slot *)

LEMMA LazyBeginKeeps ==
  ASSUME TablesInv, ProcessesInv, NEW a \in Addr, NEW s \in Slot, LazyBegin(a, s)
  PROVE  TablesInv' /\ ProcessesInv'
<1>1. /\ UNCHANGED <<archiveVars, nodeVars, sync, user>>
      /\ lazy' = [pc |-> "head", addr |-> a, slot |-> s, start |-> watch[a],
                  at |-> 0, root |-> NoHash, answer |-> <<>>]
      /\ watch[a] # 0
  BY DEF LazyBegin, NoLazy
<1>2. TypeOK BY DEF TablesInv
<1>3. TablesInv' BY <1>1, <1>2, TablesStay DEF archiveVars, volatile, TypeOK
<1>4. <<>> \in Values
  <2>1. <<>> = [n \in {} |-> Zero] OBVIOUS
  <2>2. <<>> \in [{} -> Value] BY <2>1
  <2> QED BY <2>2 DEF Values
<1>5. ProcessesTypeOK' /\ ProofsAreRooted'
  BY <1>1, <1>2, <1>4, HeightsFact
  DEF ProcessesInv, ProcessesTypeOK, ProofsAreRooted, NodeTypeOK, nodeVars, TypeOK
<1>6. SnapshotsHold' /\ NextIsAbove' /\ BatchIsNumbered'
  BY <1>1, <1>2, PassIsLeft DEF archiveVars, tables, volatile
<1> QED BY <1>3, <1>5, <1>6 DEF ProcessesInv

LEMMA LazyStepKeeps ==
  ASSUME TablesInv, ProcessesInv, LazyStep
  PROVE  TablesInv' /\ ProcessesInv'
<1> DEFINE Call == [pc : {"head", "boot", "root", "proof", "store"}, addr : Addr, slot : Slot,
                    start : Heights \ {0}, at : Heights, root : Hash \cup {NoHash},
                    answer : Values]
<1>1. TypeOK /\ HeadNumber \in Heights
  BY HeightsFact DEF TablesInv, TypeOK, HeadNumber
<1>2. /\ UNCHANGED <<nodeVars, sync, user>>
      /\ lazy.pc \in {"head", "boot", "root", "proof", "store"}
  BY DEF LazyStep, LazyHead, LazyBoot, LazyRoot, LazyProof, LazyStore
<1>3. lazy \in Call BY <1>2 DEF ProcessesInv, ProcessesTypeOK, NoLazy
<1>4. \/ UNCHANGED archiveVars
      \/ LazyStore /\ PutBootstrap(lazy.addr, lazy.start, lazy.at, lazy.root, lazy.answer)
  BY DEF LazyStep, LazyHead, LazyBoot, LazyRoot, LazyProof, LazyStore
<1>5. lazy' \in Call \cup {NoLazy}
  <2>1. CASE LazyHead BY <1>1, <1>3, <2>1 DEF LazyHead
  <2>2. CASE LazyBoot BY <1>3, <2>2 DEF LazyBoot
  <2>3. CASE LazyRoot BY <1>1, <1>3, <2>3 DEF LazyRoot, TypeOK
  <2>4. CASE LazyProof
    <3>1. CASE lazy' = NoLazy BY <3>1
    <3> DEFINE answer == [s \in {lazy.slot} |-> ValueAt(lazy.root, lazy.at, lazy.addr, s)]
    <3>2. CASE lazy' = [lazy EXCEPT !.pc = "store", !.answer = answer]
      <4>1. lazy.root \in Hash /\ Num[lazy.root] = lazy.at
        BY <2>4 DEF LazyProof, ProcessesInv, ProofsAreRooted
      <4>2. answer \in [{lazy.slot} -> Value] BY <1>3, <4>1, HeightsFact, ValueAtType
      <4>3. {lazy.slot} \in SUBSET Slot BY <1>3
      <4>4. \A D \in SUBSET Slot : [D -> Value] \subseteq Values BY DEF Values
      <4>5. answer \in Values BY <4>2, <4>3, <4>4
      <4> HIDE DEF answer
      <4> QED BY <1>3, <3>2, <4>5
    <3> QED BY <2>4, <3>1, <3>2 DEF LazyProof
  <2>5. CASE LazyStore BY <2>5 DEF LazyStore
  <2> QED BY <2>1, <2>2, <2>3, <2>4, <2>5 DEF LazyStep
<1>6. lazy'.pc \in {"proof", "store"} => lazy'.root \in Hash /\ Num[lazy'.root] = lazy'.at
  <2>1. CASE LazyHead BY <1>3, <2>1 DEF LazyHead, NoLazy
  <2>2. CASE LazyBoot BY <1>3, <2>2 DEF LazyBoot, NoLazy
  <2>3. CASE LazyRoot BY <1>1, <1>3, <2>3 DEF LazyRoot, NoLazy, TypeOK
  <2>4. CASE LazyProof
    <3>1. lazy.pc = "proof" /\ (lazy' = NoLazy \/ (lazy'.root = lazy.root /\ lazy'.at = lazy.at))
      BY <1>3, <2>4 DEF LazyProof
    <3> QED BY <3>1 DEF NoLazy, ProcessesInv, ProofsAreRooted
  <2>5. CASE LazyStore BY <2>5 DEF LazyStore, NoLazy
  <2> QED BY <2>1, <2>2, <2>3, <2>4, <2>5 DEF LazyStep
<1>7. TablesInv'
  <2>1. CASE UNCHANGED archiveVars
    BY <1>1, <2>1, TablesStay DEF archiveVars, volatile, TypeOK
  <2>2. CASE PutBootstrap(lazy.addr, lazy.start, lazy.at, lazy.root, lazy.answer)
    BY <1>3, <2>2, PutTables
  <2> QED BY <1>4, <2>1, <2>2
<1>8. head' = head /\ inFlight' = inFlight /\ watch' = watch /\ blockidx' = blockidx
  BY <1>4 DEF PutBootstrap, archiveVars, tables, volatile
<1>9. SnapshotsHold' /\ NextIsAbove' /\ BatchIsNumbered'
  BY <1>1, <1>2, <1>8, PassIsLeft
<1>10. ProcessesTypeOK' /\ ProofsAreRooted'
  BY <1>2, <1>5, <1>6
  DEF ProcessesInv, ProcessesTypeOK, ProofsAreRooted, NodeTypeOK, nodeVars
<1> QED BY <1>7, <1>9, <1>10 DEF ProcessesInv

-----------------------------------------------------------------------------
(* A pass: where it starts, and how it ends *)

\* The invariant of a pass beside the types of the others.
PassInv ==
  sync \in Pass /\ SnapshotsHold /\ NextIsAbove /\ BatchIsNumbered /\ ProofsAreRooted

LEMMA EmptyFact ==
  /\ <<>> \in UNION {[D -> Answer] : D \in SUBSET Heights}
  /\ <<>> \in Values
  /\ DOMAIN <<>> = {}
<1>1. <<>> = [n \in {} |-> Zero] /\ DOMAIN <<>> = {} OBVIOUS
<1>2. <<>> \in [{} -> Answer] /\ <<>> \in [{} -> Value] BY <1>1
<1>3. {} \in SUBSET Heights /\ {} \in SUBSET Slot OBVIOUS
<1> QED BY <1>1, <1>2, <1>3 DEF Values

LEMMA IdleFact ==
  /\ Idle \in Pass /\ Idle.pc = "idle" /\ ~ Idle.retry
  /\ DOMAIN Idle.queue = {} /\ Idle.work = {} /\ Idle.finalized = 0 /\ Idle.srcHead = 0
<1> DEFINE empty == <<>>
           none == [a \in Addr |-> 0]
           no == FALSE
<1>1. Idle = [pc |-> "idle", next |-> 0, srcHead |-> 0, finalized |-> 0, budget |-> 0,
              prover |-> no, queue |-> empty, blk |-> NoHash, cursor |-> 0, floor |-> 0,
              mid |-> no, lastFork |-> NoFork, snap |-> none, retry |-> no, work |-> {},
              item |-> NoItem, root |-> NoHash, answer |-> empty]
  BY DEF Idle, NoAnswer
<1>2. empty \in UNION {[D -> Answer] : D \in SUBSET Heights} /\ empty \in Values
      /\ DOMAIN empty = {}
  BY EmptyFact
<1>3. none \in [Addr -> Heights] /\ no \in BOOLEAN /\ ~ no BY HeightsFact
<1> HIDE DEF empty, none, no
<1>4. 0 \in Heights /\ 0 \in 0 .. MaxHeight + 1 /\ 0 \in Int BY HeightsFact
<1>5. /\ Idle.pc = "idle" /\ Idle.retry = no /\ Idle.queue = empty /\ Idle.work = {}
      /\ Idle.finalized = 0 /\ Idle.srcHead = 0
  BY <1>1
<1>6. Idle \in Pass
  <2>1. /\ Idle.queue \in UNION {[D -> Answer] : D \in SUBSET Heights} /\ Idle.answer \in Values
        /\ Idle.snap \in [Addr -> Heights]
        /\ Idle.prover \in BOOLEAN /\ Idle.mid \in BOOLEAN /\ Idle.retry \in BOOLEAN
    BY <1>1, <1>2, <1>3
  <2>2. /\ Idle.next \in 0 .. MaxHeight + 1 /\ Idle.srcHead \in Heights /\ Idle.finalized \in Heights
        /\ Idle.budget \in Int /\ Idle.cursor \in Heights /\ Idle.floor \in Heights
    BY <1>1, <1>4
  <2>3. /\ Idle.blk \in Hash \cup {NoHash} /\ Idle.root \in Hash \cup {NoHash}
        /\ Idle.lastFork \in Heights \cup {NoFork} /\ Idle.work \in SUBSET (Item \cup Group)
        /\ Idle.item \in Item \cup {NoItem}
    BY <1>1
  <2> QED BY <1>1, <2>1, <2>2, <2>3 DEF Pass
<1> QED BY <1>2, <1>3, <1>5, <1>6

LEMMA EndPassKeeps ==
  ASSUME TablesInv, ProcessesInv, EndPass, UNCHANGED lazy
  PROVE  TablesInv' /\ PassInv'
<1>1. sync' = Idle /\ UNCHANGED tables /\ inFlight' = 0 /\ syncing' = FALSE /\ gate' = gate
  BY DEF EndPass, SyncIdle
<1>2. TablesInv'
  <2>1. gate \in BOOLEAN /\ 0 \in 0 .. MaxHeight + 1 BY HeightsFact DEF TablesInv, TypeOK
  <2> QED BY <1>1, <2>1, TablesStay
<1>3. SnapshotsHold' /\ NextIsAbove' /\ BatchIsNumbered' /\ ProofsAreRooted'
  BY <1>1, IdleFact
  DEF SnapshotsHold, NextIsAbove, Proving, BatchIsNumbered, ProofsAreRooted, ProcessesInv
<1> QED BY <1>1, <1>2, <1>3, IdleFact DEF PassInv

LEMMA BeginKeeps ==
  ASSUME TablesInv, ProcessesInv, NEW m \in Budgets \cup {NoLimit}, NEW p \in BOOLEAN,
         Begin(m, p), UNCHANGED lazy
  PROVE  TablesInv' /\ PassInv'
<1>1. /\ sync.pc = "idle" /\ UNCHANGED tables /\ inFlight' = inFlight /\ syncing' = TRUE
      /\ gate' = gate /\ sync' = [sync EXCEPT !.pc = "claim", !.budget = m, !.prover = p]
  BY DEF Begin, BeginSync, At
<1>2. TablesInv' BY <1>1, TablesStay DEF TablesInv, TypeOK
<1>3. m \in Int BY SyncAssumption, HeightsFact DEF NoLimit
<1> USE DEF ProcessesInv, ProcessesTypeOK
<1>4. sync' \in Pass BY <1>1, <1>3 DEF Pass
<1>5. /\ sync'.pc = "claim" /\ sync'.queue = sync.queue /\ sync'.retry = sync.retry
      /\ sync'.work = sync.work
  BY <1>1 DEF Pass
<1> QED BY <1>1, <1>2, <1>4, <1>5
  DEF PassInv, SnapshotsHold, NextIsAbove, Proving, BatchIsNumbered, ProofsAreRooted

LEMMA FirstBlockFact ==
  ASSUME TypeOK, Watched # {}
  PROVE  /\ FirstBlock \in 0 .. MaxHeight + 1
         /\ head # NoHash => FirstBlock = Num[head] + 1
<1>1. CASE head = NoHash
  <2> DEFINE starts == {watch[a] : a \in Watched}
  <2>1. starts # {} /\ starts \subseteq Heights
    <3>1. PICK a \in Watched : TRUE OBVIOUS
    <3>2. starts # {} BY <3>1
    <3>3. \A c \in Watched : watch[c] \in Heights BY DEF TypeOK, Watched
    <3> QED BY <3>2, <3>3
  <2>2. starts \subseteq Nat BY <2>1, HeightsFact
  <2> HIDE DEF starts
  <2>3. Min(starts) \in starts BY <2>1, <2>2, MinIsMember
  <2>4. Min(starts) \in Heights BY <2>1, <2>3
  <2>5. FirstBlock = Min(starts) BY <1>1 DEF FirstBlock, starts
  <2> QED BY <1>1, <2>4, <2>5, HeightsFact
<1>2. CASE head # NoHash
  BY <1>2, HeightsFact DEF TypeOK, FirstBlock
<1> QED BY <1>1, <1>2

LEMMA ClaimKeeps ==
  ASSUME TablesInv, ProcessesInv, Claim, UNCHANGED lazy, sync'.pc # "idle"
  PROVE  TablesInv' /\ PassInv'
<1>1. /\ sync.pc = "claim" /\ Watched # {} /\ inFlight' = FirstBlock
      /\ UNCHANGED <<tables, syncing, gate>>
      /\ sync' = [sync EXCEPT !.pc = "head", !.next = FirstBlock]
  BY IdleFact DEF Claim, ClaimStart, At, EndPass
<1>2. TypeOK BY DEF TablesInv
<1>3. /\ FirstBlock \in 0 .. MaxHeight + 1
      /\ head # NoHash => FirstBlock = Num[head] + 1
  BY <1>1, <1>2, FirstBlockFact
<1>4. TablesInv' BY <1>1, <1>2, <1>3, TablesStay DEF TypeOK
<1> USE DEF ProcessesInv, ProcessesTypeOK
<1>5. sync' \in Pass BY <1>1, <1>3 DEF Pass
<1>6. /\ sync'.pc = "head" /\ sync'.queue = sync.queue /\ sync'.retry = sync.retry
      /\ sync'.work = sync.work /\ sync'.next = FirstBlock /\ head' = head
  BY <1>1 DEF Pass, tables
<1> QED BY <1>1, <1>3, <1>4, <1>5, <1>6
  DEF PassInv, SnapshotsHold, NextIsAbove, Proving, BatchIsNumbered, ProofsAreRooted

\* A step that only reads, on the way to the loop or to the end of the blocks.
LEMMA ReadsKeep ==
  ASSUME TablesInv, ProcessesInv, UNCHANGED archiveVars, UNCHANGED lazy, sync' \in Pass,
         sync.pc \in {"head", "finalized", "check", "fork", "loop"},
         sync'.pc \in {"finalized", "check", "fork", "rollback", "loop", "retry"},
         sync'.queue = sync.queue \/ DOMAIN sync'.queue = {},
         sync'.work = sync.work, sync'.retry = sync.retry, sync'.next = sync.next,
         sync'.pc = "check" => head # NoHash,
         sync.pc = "fork" => sync'.pc \in {"fork", "rollback"}
  PROVE  TablesInv' /\ PassInv'
<1> USE DEF archiveVars, tables, volatile
<1>1. TypeOK BY DEF TablesInv
<1>2. TablesInv' BY <1>1, TablesStay DEF TypeOK
<1>3. SnapshotsHold' BY DEF SnapshotsHold
<1>4. NextIsAbove' BY DEF ProcessesInv, NextIsAbove, Proving
<1>5. BatchIsNumbered'
  <2>1. CASE sync'.queue = sync.queue BY <2>1 DEF ProcessesInv, BatchIsNumbered
  <2>2. CASE DOMAIN sync'.queue = {} BY <2>2 DEF BatchIsNumbered
  <2> QED BY <2>1, <2>2
<1>6. ProofsAreRooted' BY DEF ProcessesInv, ProofsAreRooted
<1> QED BY <1>2, <1>3, <1>4, <1>5, <1>6 DEF PassInv

LEMMA AskHeadKeeps ==
  ASSUME TablesInv, ProcessesInv, AskHead, UNCHANGED lazy
  PROVE  TablesInv' /\ PassInv'
<1>1. /\ sync.pc = "head" /\ UNCHANGED archiveVars
      /\ sync' = [sync EXCEPT !.pc = "finalized", !.srcHead = SourceHead]
  BY DEF AskHead, At, Local
<1> USE DEF ProcessesInv, ProcessesTypeOK
<1>2. SourceHead \in Heights BY HeightsFact DEF NodeTypeOK, SourceHead
<1>3. sync' \in Pass BY <1>1, <1>2 DEF Pass
<1>4. /\ sync'.pc = "finalized" /\ sync'.queue = sync.queue /\ sync'.work = sync.work
      /\ sync'.retry = sync.retry /\ sync'.next = sync.next
  BY <1>1 DEF Pass
<1> QED BY <1>1, <1>3, <1>4, ReadsKeep

LEMMA LessFact ==
  ASSUME NEW m \in Heights, NEW n \in Nat
  PROVE  Less(m, n) \in Heights /\ Less(m, n) <= m
BY HeightsFact DEF Less

LEMMA MinOfTwo ==
  ASSUME NEW x \in Int, NEW y \in Int
  PROVE  Min({x, y}) \in {x, y} /\ Min({x, y}) <= x /\ Min({x, y}) <= y
<1>1. {x, y} = {x, y, y} OBVIOUS
<1> QED BY <1>1, MinOfThree

\* The block the pass takes for final, with or without a tag of the node.
LEMMA AskFinalizedKeeps ==
  ASSUME TablesInv, ProcessesInv, AskFinalized, UNCHANGED lazy
  PROVE  TablesInv' /\ PassInv'
<1> DEFINE deepest == Less(sync.srcHead, Horizon)
           tagged == Max({deepest, Min({SourceFinalized, sync.srcHead})})
<1>1. PICK f \in {deepest, tagged} :
        /\ sync.pc = "finalized" /\ UNCHANGED archiveVars
        /\ sync' = [sync EXCEPT !.finalized = f,
                                !.pc = IF head = NoHash THEN "loop" ELSE "check"]
  BY DEF AskFinalized, At, Local
<1> USE DEF ProcessesInv, ProcessesTypeOK
<1>2. sync.srcHead \in Heights /\ SourceFinalized \in Heights
  BY HeightsFact DEF NodeTypeOK, SourceFinalized, Pass
<1>3. deepest \in Heights BY <1>2, LessFact, SyncAssumption
<1> HIDE DEF deepest
<1>4. Min({SourceFinalized, sync.srcHead}) \in Heights
  <2>1. SourceFinalized \in Int /\ sync.srcHead \in Int BY <1>2, HeightsFact
  <2>2. Min({SourceFinalized, sync.srcHead}) \in {SourceFinalized, sync.srcHead}
    BY <2>1, MinOfTwo
  <2> QED BY <1>2, <2>2
<1>5. tagged \in Heights
  <2>1. deepest \in Int /\ Min({SourceFinalized, sync.srcHead}) \in Int
    BY <1>3, <1>4, HeightsFact
  <2>2. tagged \in {deepest, Min({SourceFinalized, sync.srcHead})} BY <2>1, MaxOfTwo
  <2> QED BY <1>3, <1>4, <2>2
<1> HIDE DEF tagged
<1>6. sync' \in Pass BY <1>1, <1>3, <1>5 DEF Pass
<1>7. /\ sync'.pc = IF head = NoHash THEN "loop" ELSE "check"
      /\ sync'.queue = sync.queue /\ sync'.work = sync.work
      /\ sync'.retry = sync.retry /\ sync'.next = sync.next
  BY <1>1 DEF Pass
<1> QED BY <1>1, <1>6, <1>7, ReadsKeep

LEMMA CheckHeadKeeps ==
  ASSUME TablesInv, ProcessesInv, CheckHead, UNCHANGED lazy, sync'.pc # "idle"
  PROVE  TablesInv' /\ PassInv'
<1>1. /\ sync.pc = "check" /\ UNCHANGED archiveVars
      /\ \/ sync' = [sync EXCEPT !.pc = "loop"]
         \/ sync' = [sync EXCEPT !.pc = "fork", !.cursor = Num[head],
                                 !.floor = Less(Num[head], Horizon), !.mid = FALSE]
  BY IdleFact DEF CheckHead, At, EndPass
<1> USE DEF ProcessesInv, ProcessesTypeOK
<1>2. head \in Hash BY <1>1 DEF NextIsAbove, TablesInv, TypeOK
<1>3. Num[head] \in Heights /\ Less(Num[head], Horizon) \in Heights
  BY <1>2, HeightsFact, LessFact, SyncAssumption
<1>4. sync' \in Pass
  <2> DEFINE no == FALSE
  <2>1. CASE sync' = [sync EXCEPT !.pc = "loop"] BY <2>1 DEF Pass
  <2>2. CASE sync' = [sync EXCEPT !.pc = "fork", !.cursor = Num[head],
                                 !.floor = Less(Num[head], Horizon), !.mid = no]
    <3>1. no \in BOOLEAN OBVIOUS
    <3> HIDE DEF no
    <3> QED BY <1>3, <2>2, <3>1 DEF Pass
  <2> QED BY <1>1, <2>1, <2>2
<1>5. /\ sync'.pc \in {"loop", "fork"}
      /\ sync'.queue = sync.queue /\ sync'.work = sync.work
      /\ sync'.retry = sync.retry /\ sync'.next = sync.next
  BY <1>1 DEF Pass
<1> QED BY <1>1, <1>4, <1>5, ReadsKeep

LEMMA ForkStepKeeps ==
  ASSUME TablesInv, ProcessesInv, ForkStep, UNCHANGED lazy, sync'.pc # "idle"
  PROVE  TablesInv' /\ PassInv'
<1>1. /\ sync.pc = "fork" /\ UNCHANGED archiveVars
      /\ \/ sync' = [sync EXCEPT !.pc = "rollback",
                       !.lastFork = IF sync.mid THEN sync.cursor ELSE @]
         \/ sync.cursor > sync.floor /\ sync' = [sync EXCEPT !.cursor = @ - 1]
  BY IdleFact DEF ForkStep, At, EndPass
<1> USE DEF ProcessesInv, ProcessesTypeOK
<1>2. sync.cursor \in Heights /\ (sync.cursor > sync.floor => sync.cursor - 1 \in Heights)
  BY HeightsFact DEF Pass
<1>3. sync' \in Pass
  <2>1. CASE sync' = [sync EXCEPT !.pc = "rollback",
                       !.lastFork = IF sync.mid THEN sync.cursor ELSE @]
    BY <1>2, <2>1 DEF Pass
  <2>2. CASE sync.cursor > sync.floor /\ sync' = [sync EXCEPT !.cursor = @ - 1]
    BY <1>2, <2>2 DEF Pass
  <2> QED BY <1>1, <2>1, <2>2
<1>4. /\ sync'.pc \in {"fork", "rollback"}
      /\ sync'.queue = sync.queue /\ sync'.work = sync.work
      /\ sync'.retry = sync.retry /\ sync'.next = sync.next
  BY <1>1 DEF Pass
<1> QED BY <1>1, <1>3, <1>4, ReadsKeep

LEMMA LoopDoneKeeps ==
  ASSUME TablesInv, ProcessesInv, LoopDone, UNCHANGED lazy
  PROVE  TablesInv' /\ PassInv'
<1>1. /\ sync.pc = "loop" /\ UNCHANGED archiveVars
      /\ sync' = [sync EXCEPT !.pc = "retry", !.queue = <<>>]
  BY DEF LoopDone, At, Local
<1> USE DEF ProcessesInv, ProcessesTypeOK
<1>2. sync' \in Pass BY <1>1, EmptyFact DEF Pass
<1>3. /\ sync'.pc = "retry" /\ DOMAIN sync'.queue = {} /\ sync'.work = sync.work
      /\ sync'.retry = sync.retry /\ sync'.next = sync.next
  BY <1>1, EmptyFact DEF Pass
<1> QED BY <1>1, <1>2, <1>3, ReadsKeep

-----------------------------------------------------------------------------
(* A pass: rollback_to *)

\* Every address of the index is in the watchlist a rollback reads.
LEMMA RollbackScanKeeps ==
  ASSUME TablesInv, ProcessesInv, RollbackScan, UNCHANGED lazy
  PROVE  TablesInv' /\ PassInv'
<1>1. /\ sync.pc = "rollback" /\ UNCHANGED archiveVars
      /\ sync' = [sync EXCEPT !.pc = "undo", !.snap = watch]
  BY DEF RollbackScan, At, Local
<1>2. TypeOK BY DEF TablesInv
<1>3. TablesInv' BY <1>1, <1>2, TablesStay DEF TypeOK, archiveVars, volatile
<1> USE DEF ProcessesInv, ProcessesTypeOK
<1>4. sync' \in Pass BY <1>1, <1>2 DEF Pass, TypeOK
<1>5. /\ sync'.pc = "undo" /\ sync'.queue = sync.queue /\ sync'.work = sync.work
      /\ sync'.retry = sync.retry /\ sync'.snap = watch /\ blockidx' = blockidx
  BY <1>1 DEF Pass, archiveVars, tables
<1>6. SnapshotsHold' BY <1>5, TablesFacts DEF SnapshotsHold
<1> QED BY <1>1, <1>3, <1>4, <1>5, <1>6
  DEF PassInv, NextIsAbove, Proving, BatchIsNumbered, ProofsAreRooted

LEMMA RollbackKeeps ==
  ASSUME TablesInv, ProcessesInv, Rollback, UNCHANGED lazy
  PROVE  TablesInv' /\ PassInv'
<1>1. /\ sync.pc = "undo" /\ RollbackTo(sync.cursor, sync.snap)
      /\ sync' = [sync EXCEPT !.pc = "loop", !.next = sync.cursor + 1,
                    !.cursor = 0, !.floor = 0, !.mid = FALSE, !.snap = Idle.snap]
  BY DEF Rollback, At
<1> USE DEF ProcessesInv, ProcessesTypeOK
<1>2. sync.cursor \in Heights /\ Idle.snap \in [Addr -> Heights] /\ 0 \in Heights
  BY IdleFact, HeightsFact DEF Pass
<1>3. TablesInv' BY <1>1, <1>2, RollbackTables DEF SnapshotsHold
<1>4. Num[head'] = sync.cursor BY <1>1, <1>2 DEF RollbackTo, TablesInv, TypeOK
<1>5. sync' \in Pass
  <2> DEFINE no == FALSE
  <2>1. /\ no \in BOOLEAN /\ sync.cursor + 1 \in 0 .. MaxHeight + 1
        /\ sync' = [sync EXCEPT !.pc = "loop", !.next = sync.cursor + 1,
                      !.cursor = 0, !.floor = 0, !.mid = no, !.snap = Idle.snap]
    BY <1>1, <1>2, HeightsFact
  <2> HIDE DEF no
  <2> QED BY <1>2, <2>1 DEF Pass
<1>6. /\ sync'.pc = "loop" /\ sync'.queue = sync.queue /\ sync'.work = sync.work
      /\ sync'.retry = sync.retry /\ sync'.next = sync.cursor + 1
  BY <1>1 DEF Pass
<1> QED BY <1>1, <1>3, <1>4, <1>5, <1>6
  DEF PassInv, SnapshotsHold, NextIsAbove, Proving, BatchIsNumbered, ProofsAreRooted

-----------------------------------------------------------------------------
(* A pass: the block loop *)

LEMMA FetchKeeps ==
  ASSUME TablesInv, ProcessesInv, StartFetch, UNCHANGED lazy
  PROVE  TablesInv' /\ PassInv'
<1> DEFINE size == Min({FetchAhead, sync.srcHead - sync.next + 1, sync.budget})
           D == sync.next .. sync.next + size - 1
           queue == [n \in D |-> "asked"]
<1>1. /\ sync.pc = "loop" /\ UNCHANGED archiveVars
      /\ sync' = [sync EXCEPT !.pc = "fetch", !.queue = queue]
  BY DEF StartFetch, At, Local
<1> USE DEF ProcessesInv, ProcessesTypeOK
<1>2. /\ sync.next \in 0 .. MaxHeight + 1 /\ sync.srcHead \in Heights /\ sync.budget \in Int
      /\ FetchAhead \in Int /\ MaxHeight \in Nat
  BY SyncAssumption, HeightsFact DEF Pass
<1>3. sync.srcHead - sync.next + 1 \in Int BY <1>2
<1>4. size \in Int /\ size <= sync.srcHead - sync.next + 1 BY <1>2, <1>3, MinOfThree
<1> HIDE DEF size
<1>5. D \in SUBSET Heights BY <1>2, <1>4
<1>6. queue \in [D -> Answer] BY DEF Answer
<1> HIDE DEF D
<1>7. queue \in UNION {[E -> Answer] : E \in SUBSET Heights} BY <1>5, <1>6
<1>8. \A n \in DOMAIN queue : queue[n] = "asked" OBVIOUS
<1> HIDE DEF queue
<1>9. sync' \in Pass BY <1>1, <1>7 DEF Pass
<1>10. /\ sync'.pc = "fetch" /\ sync'.queue = queue /\ sync'.work = sync.work
       /\ sync'.retry = sync.retry /\ sync'.next = sync.next
  BY <1>1 DEF Pass
<1>11. TablesInv' BY <1>1, TablesStay DEF TablesInv, TypeOK, archiveVars, volatile
<1>12. BatchIsNumbered' BY <1>8, <1>10 DEF BatchIsNumbered
<1> QED BY <1>1, <1>9, <1>10, <1>11, <1>12
  DEF PassInv, SnapshotsHold, NextIsAbove, Proving, ProofsAreRooted, archiveVars, tables

\* What the node serves at a number is a block of that number.
LEMMA SourceFact ==
  ASSUME NodeTypeOK, NEW n \in Heights
  PROVE  \/ SourceBlock(n) = NoHash /\ n > Num[canon]
         \/ /\ n <= Num[canon] /\ SourceBlock(n) \in Hash /\ Num[SourceBlock(n)] = n
            /\ SourceBlock(n) = Line[canon][n]
BY HeightsFact, LineFact DEF SourceBlock, NodeTypeOK

LEMMA FetchedKeeps ==
  ASSUME TablesInv, ProcessesInv, NEW n \in Heights, FetchServed(n) \/ FetchFailed(n),
         UNCHANGED lazy
  PROVE  TablesInv' /\ PassInv'
<1>1. PICK answer \in {SourceBlock(n), "failed"} : Fetched(n, answer)
  BY DEF FetchServed, FetchFailed
<1> DEFINE queue == [sync.queue EXCEPT ![n] = answer]
           pc == IF \E m \in DOMAIN queue : queue[m] = "asked" THEN "fetch" ELSE "loop"
<1>2. /\ sync.pc = "fetch" /\ n \in DOMAIN sync.queue /\ UNCHANGED archiveVars
      /\ sync' = [sync EXCEPT !.queue = queue, !.pc = pc]
  BY <1>1 DEF Fetched, At, Local
<1> USE DEF ProcessesInv, ProcessesTypeOK
<1>3. answer \in Answer /\ (answer \in {NoHash, "asked", "failed"} \/ Num[answer] = n)
  BY SourceFact DEF Answer
<1>4. PICK D \in SUBSET Heights : sync.queue \in [D -> Answer] BY DEF Pass
<1>5. queue \in [D -> Answer] BY <1>2, <1>3, <1>4
<1>6. queue \in UNION {[E -> Answer] : E \in SUBSET Heights} BY <1>5
<1>7. \A m \in DOMAIN queue : /\ m \in DOMAIN sync.queue
                              /\ queue[m] = IF m = n THEN answer ELSE sync.queue[m]
  BY <1>4, <1>5
<1>8. \A m \in DOMAIN queue : /\ queue[m] \in {NoHash, "asked", "failed"} \/ Num[queue[m]] = m
                              /\ queue[m] = "asked" => pc = "fetch"
  BY <1>3, <1>7 DEF BatchIsNumbered
<1>9. pc \in {"fetch", "loop"} OBVIOUS
<1> HIDE DEF queue, pc
<1>10. sync' \in Pass BY <1>2, <1>6, <1>9 DEF Pass
<1>11. /\ sync'.pc = pc /\ sync'.queue = queue /\ sync'.work = sync.work
       /\ sync'.retry = sync.retry /\ sync'.next = sync.next
  BY <1>2 DEF Pass
<1>12. TablesInv' BY <1>2, TablesStay DEF TablesInv, TypeOK, archiveVars, volatile
<1>13. BatchIsNumbered' BY <1>8, <1>9, <1>11 DEF BatchIsNumbered
<1> QED BY <1>2, <1>9, <1>10, <1>11, <1>12, <1>13
  DEF PassInv, SnapshotsHold, NextIsAbove, Proving, ProofsAreRooted, archiveVars, tables

\* The block at the front of the queue.
LEMMA FrontFact ==
  ASSUME ProcessesInv, sync.pc = "loop", QueueReady
  PROVE  /\ sync.next \in DOMAIN sync.queue /\ sync.next \in Heights
         /\ \/ sync.queue[sync.next] \in {NoHash, "failed"}
            \/ sync.queue[sync.next] \in Hash /\ Num[sync.queue[sync.next]] = sync.next
<1> USE DEF ProcessesInv, ProcessesTypeOK
<1>1. PICK D \in SUBSET Heights : sync.queue \in [D -> Answer] BY DEF Pass
<1>2. D # {}
  <2>1. ASSUME D = {} PROVE sync.queue = <<>>
    <3>1. sync.queue \in [{} -> Answer] BY <1>1, <2>1
    <3> QED BY <3>1
  <2> QED BY <2>1 DEF QueueReady
<1>3. D \subseteq Nat BY HeightsFact
<1>4. DOMAIN sync.queue = D BY <1>1
<1>5. sync.next \in D BY <1>2, <1>3, <1>4, MinIsMember DEF QueueReady
<1>6. sync.queue[sync.next] \in Answer BY <1>1, <1>5
<1> QED BY <1>4, <1>5, <1>6 DEF BatchIsNumbered, Answer

LEMMA TakeBlockKeeps ==
  ASSUME TablesInv, ProcessesInv, TakeBlock, UNCHANGED lazy, sync'.pc # "idle"
  PROVE  TablesInv' /\ PassInv'
<1> DEFINE h == sync.queue[sync.next]
           rest == [n \in DOMAIN sync.queue \ {sync.next} |-> sync.queue[n]]
<1>1. sync.pc = "loop" /\ QueueReady BY DEF TakeBlock, At
<1>2. /\ UNCHANGED archiveVars
      /\ \/ sync' = [sync EXCEPT !.pc = "retry", !.queue = <<>>]
         \/ /\ h # "failed" /\ h # NoHash /\ Unlinked(h)
            /\ sync' = [sync EXCEPT !.pc = "fork", !.queue = rest, !.mid = TRUE,
                          !.cursor = sync.next - 1, !.floor = Less(sync.next - 1, Horizon)]
         \/ /\ h # "failed" /\ h # NoHash
            /\ sync' = [sync EXCEPT !.pc = "snapshot", !.queue = rest, !.blk = h]
  BY IdleFact DEF TakeBlock, At, EndPass
<1>3. /\ sync.next \in DOMAIN sync.queue /\ sync.next \in Heights
      /\ h # "failed" /\ h # NoHash => h \in Hash /\ Num[h] = sync.next
  BY <1>1, FrontFact
<1> USE DEF ProcessesInv, ProcessesTypeOK
<1>4. rest \in UNION {[E -> Answer] : E \in SUBSET Heights}
  <2>1. PICK D \in SUBSET Heights : sync.queue \in [D -> Answer] BY DEF Pass
  <2>2. rest \in [D \ {sync.next} -> Answer] BY <2>1
  <2> QED BY <2>2
<1>5. /\ \A n \in DOMAIN rest : n \in DOMAIN sync.queue /\ rest[n] = sync.queue[n]
  OBVIOUS
<1> HIDE DEF h, rest
<1>6. TablesInv' BY <1>2, TablesStay DEF TablesInv, TypeOK, archiveVars, volatile
<1>7. CASE sync' = [sync EXCEPT !.pc = "retry", !.queue = <<>>]
  <2>1. sync' \in Pass BY <1>7, EmptyFact DEF Pass
  <2>2. /\ sync'.pc = "retry" /\ DOMAIN sync'.queue = {} /\ sync'.work = sync.work
        /\ sync'.retry = sync.retry /\ sync'.next = sync.next
    BY <1>7, EmptyFact DEF Pass
  <2> QED BY <1>1, <1>2, <2>1, <2>2, ReadsKeep
<1>8. CASE /\ h # "failed" /\ h # NoHash /\ Unlinked(h)
           /\ sync' = [sync EXCEPT !.pc = "fork", !.queue = rest, !.mid = TRUE,
                          !.cursor = sync.next - 1, !.floor = Less(sync.next - 1, Horizon)]
  <2>1. sync.next - 1 \in Heights BY <1>3, <1>8, HeightsFact DEF Unlinked
  <2>2. Less(sync.next - 1, Horizon) \in Heights BY <2>1, LessFact, SyncAssumption
  <2>3. sync' \in Pass BY <1>4, <1>8, <2>1, <2>2 DEF Pass
  <2>4. /\ sync'.pc = "fork" /\ sync'.queue = rest /\ sync'.work = sync.work
        /\ sync'.retry = sync.retry
    BY <1>8 DEF Pass
  <2>5. BatchIsNumbered' BY <1>1, <1>5, <2>4 DEF BatchIsNumbered
  <2> QED BY <1>1, <1>6, <2>3, <2>4, <2>5
    DEF PassInv, SnapshotsHold, NextIsAbove, Proving, ProofsAreRooted
<1>9. CASE /\ h # "failed" /\ h # NoHash
           /\ sync' = [sync EXCEPT !.pc = "snapshot", !.queue = rest, !.blk = h]
  <2>1. h \in Hash /\ Num[h] = sync.next BY <1>3, <1>9
  <2>2. sync' \in Pass BY <1>4, <1>9, <2>1 DEF Pass
  <2>3. /\ sync'.pc = "snapshot" /\ sync'.queue = rest /\ sync'.work = sync.work
        /\ sync'.retry = sync.retry /\ sync'.next = sync.next /\ sync'.blk = h /\ head' = head
    BY <1>2, <1>9 DEF Pass, archiveVars, tables
  <2>4. BatchIsNumbered' BY <1>1, <1>5, <2>1, <2>3 DEF BatchIsNumbered
  <2> QED BY <1>1, <1>6, <2>2, <2>3, <2>4
    DEF PassInv, SnapshotsHold, NextIsAbove, Proving, ProofsAreRooted
<1> QED BY <1>2, <1>7, <1>8, <1>9

\* The block is reserved in the transaction that reads the watchlist.
LEMMA SnapshotKeeps ==
  ASSUME TablesInv, ProcessesInv, Snapshot, UNCHANGED lazy
  PROVE  TablesInv' /\ PassInv'
<1>1. /\ sync.pc = "snapshot" /\ UNCHANGED <<tables, syncing, gate>> /\ inFlight' = sync.next
      /\ sync' = [sync EXCEPT !.pc = "apply", !.snap = watch]
  BY DEF Snapshot, WatchlistFor, At
<1> USE DEF ProcessesInv, ProcessesTypeOK
<1>2. TypeOK /\ sync.next \in 0 .. MaxHeight + 1 BY DEF TablesInv, Pass
<1>3. TablesInv' BY <1>1, <1>2, TablesStay DEF TypeOK
<1>4. sync' \in Pass BY <1>1, <1>2 DEF Pass, TypeOK
<1>5. /\ sync'.pc = "apply" /\ sync'.queue = sync.queue /\ sync'.work = sync.work
      /\ sync'.retry = sync.retry /\ sync'.next = sync.next /\ sync'.blk = sync.blk
      /\ sync'.snap = watch /\ head' = head /\ watch' = watch
  BY <1>1 DEF Pass, tables
<1>6. SnapshotsHold' BY <1>1, <1>5 DEF SnapshotsHold
<1>7. BatchIsNumbered' BY <1>1, <1>5 DEF BatchIsNumbered
<1> QED BY <1>1, <1>3, <1>4, <1>5, <1>6, <1>7
  DEF PassInv, NextIsAbove, Proving, ProofsAreRooted

\* What is left to prove after a block: the slots of addresses in the snapshot.
LEMMA FreshWorkType ==
  ASSUME NEW h \in Hash, NEW snap \in [Addr -> Heights]
  PROVE  FreshWork(h, snap) \subseteq Item
<1> SUFFICES ASSUME NEW a \in Live(h, snap)
             PROVE  [addr |-> a, start |-> snap[a], seen |-> Num[h], slots |-> FreshSlots(h, a)]
                      \in Item
  BY DEF FreshWork
<1>1. a \in Addr /\ snap[a] \in Heights \ {0} /\ Num[h] \in Heights \ {0}
  BY HeightsFact DEF Live
<1>2. FreshSlots(h, a) \subseteq Slot
  BY <1>1, DataAssumption DEF FreshSlots, Written, Change
<1> QED BY <1>1, <1>2 DEF Item

LEMMA ApplyMoves ==
  ASSUME ProcessesInv, Apply
  PROVE  sync'.pc \in {"loop", "pick"}
<1> DEFINE fresh == IF sync.prover THEN FreshWork(sync.blk, sync.snap) ELSE {}
           spent == [sync EXCEPT !.blk = NoHash, !.snap = Idle.snap,
                       !.budget = IF @ = NoLimit THEN @ ELSE @ - 1]
<1>1. sync' = IF fresh = {} THEN [spent EXCEPT !.pc = "loop", !.next = @ + 1]
              ELSE [spent EXCEPT !.pc = "pick", !.work = fresh]
  BY DEF Apply
<1>2. "pc" \in DOMAIN spent BY DEF ProcessesInv, ProcessesTypeOK, Pass
<1> HIDE DEF fresh, spent
<1>3. CASE fresh = {} BY <1>1, <1>2, <1>3
<1>4. CASE fresh # {} BY <1>1, <1>2, <1>4
<1> QED BY <1>3, <1>4

LEMMA ApplyKeeps ==
  ASSUME TablesInv, ProcessesInv, Apply, UNCHANGED lazy
  PROVE  TablesInv' /\ PassInv'
<1> DEFINE fresh == IF sync.prover THEN FreshWork(sync.blk, sync.snap) ELSE {}
           left == IF sync.budget = NoLimit THEN sync.budget ELSE sync.budget - 1
<1>1. /\ sync.pc = "apply" /\ ApplyBlock(sync.blk, sync.snap, PruneBelow)
      /\ \/ sync' = [sync EXCEPT !.blk = NoHash, !.snap = Idle.snap, !.budget = left,
                                 !.pc = "loop", !.next = @ + 1]
         \/ sync' = [sync EXCEPT !.blk = NoHash, !.snap = Idle.snap, !.budget = left,
                                 !.pc = "pick", !.work = fresh]
  <2>1. sync \in Pass BY DEF ProcessesInv, ProcessesTypeOK
  <2> QED BY <2>1 DEF Apply, At, Pass
<1> USE DEF ProcessesInv, ProcessesTypeOK
<1>2. /\ sync.blk \in Hash /\ Num[sync.blk] = sync.next /\ sync.next \in Heights
      /\ sync.snap \in [Addr -> Heights] /\ Idle.snap \in [Addr -> Heights]
      /\ (head # NoHash => sync.next = Num[head] + 1)
  BY <1>1, IdleFact, HeightsFact DEF Pass, BatchIsNumbered, NextIsAbove
<1>3. PruneBelow \in Heights
  <2>1. sync.srcHead \in Heights /\ sync.finalized \in Heights /\ Window + 1 \in Nat
    BY SyncAssumption DEF Pass
  <2>2. Less(sync.srcHead, Window + 1) \in Heights BY <2>1, LessFact
  <2>3. sync.finalized \in Int /\ Less(sync.srcHead, Window + 1) \in Int
    BY <2>1, <2>2, HeightsFact
  <2>4. PruneBelow \in {sync.finalized, Less(sync.srcHead, Window + 1)}
    BY <2>3, MinOfTwo DEF PruneBelow
  <2> QED BY <2>1, <2>2, <2>4
<1>4. TablesInv' BY <1>1, <1>2, <1>3, ApplyTables
<1>5. head' = sync.blk BY <1>1 DEF ApplyBlock
<1>6. fresh \subseteq Item BY <1>2, FreshWorkType
<1>7. left \in Int /\ sync.next + 1 \in 0 .. MaxHeight + 1 BY <1>2, HeightsFact DEF Pass
<1> HIDE DEF fresh, left
<1>8. CASE sync' = [sync EXCEPT !.blk = NoHash, !.snap = Idle.snap, !.budget = left,
                                !.pc = "loop", !.next = @ + 1]
  <2>1. sync' \in Pass BY <1>2, <1>7, <1>8 DEF Pass
  <2>2. /\ sync'.pc = "loop" /\ sync'.queue = sync.queue /\ sync'.work = sync.work
        /\ sync'.retry = sync.retry /\ sync'.next = sync.next + 1
    BY <1>8 DEF Pass
  <2> QED BY <1>1, <1>2, <1>4, <1>5, <2>1, <2>2
    DEF PassInv, SnapshotsHold, NextIsAbove, Proving, BatchIsNumbered, ProofsAreRooted
<1>9. CASE sync' = [sync EXCEPT !.blk = NoHash, !.snap = Idle.snap, !.budget = left,
                                !.pc = "pick", !.work = fresh]
  <2>1. fresh \in SUBSET (Item \cup Group) BY <1>6
  <2>2. sync' \in Pass BY <1>2, <1>7, <1>9, <2>1 DEF Pass
  <2>3. /\ sync'.pc = "pick" /\ sync'.queue = sync.queue /\ sync'.work = fresh
        /\ sync'.retry = sync.retry /\ sync'.next = sync.next
    BY <1>9 DEF Pass
  <2>4. head' # NoHash BY <1>2, <1>5, HeightsFact
  <2> QED BY <1>1, <1>2, <1>4, <1>5, <1>6, <2>2, <2>3, <2>4
    DEF PassInv, SnapshotsHold, NextIsAbove, Proving, BatchIsNumbered, ProofsAreRooted
<1> QED BY <1>1, <1>8, <1>9

-----------------------------------------------------------------------------
(* A pass: the proofs it stores *)

LEMMA RetryScanKeeps ==
  ASSUME TablesInv, ProcessesInv, RetryScan, UNCHANGED lazy, sync'.pc # "idle"
  PROVE  TablesInv' /\ PassInv'
<1>1. /\ sync.pc = "retry" /\ UNCHANGED archiveVars
      /\ sync' = [sync EXCEPT !.pc = "groups", !.retry = TRUE, !.work = PendingGroups]
  BY IdleFact DEF RetryScan, At, EndPass
<1>2. PendingGroups \subseteq Group BY HeightsFact DEF PendingGroups, Group
<1> USE DEF ProcessesInv, ProcessesTypeOK
<1>3. PendingGroups \in SUBSET (Item \cup Group) BY <1>2
<1>4. sync' \in Pass BY <1>1, <1>3 DEF Pass
<1>5. /\ sync'.pc = "groups" /\ sync'.queue = sync.queue /\ sync'.work = PendingGroups
  BY <1>1 DEF Pass
<1>6. TablesInv' BY <1>1, TablesStay DEF TablesInv, TypeOK, archiveVars, volatile
<1> QED BY <1>1, <1>2, <1>4, <1>5, <1>6
  DEF PassInv, SnapshotsHold, NextIsAbove, Proving, BatchIsNumbered, ProofsAreRooted

LEMMA RetryGroupsKeeps ==
  ASSUME TablesInv, ProcessesInv, RetryGroups, UNCHANGED lazy
  PROVE  TablesInv' /\ PassInv'
<1> DEFINE work == {[i EXCEPT !.start = watch[i.addr]] : i \in {j \in sync.work : watch[j.addr] # 0}}
<1>1. /\ sync.pc = "groups" /\ UNCHANGED archiveVars
      /\ sync' = [sync EXCEPT !.pc = "pick", !.work = work]
  BY DEF RetryGroups, At, Local
<1> USE DEF ProcessesInv, ProcessesTypeOK
<1>2. work \subseteq Item
  <2> SUFFICES ASSUME NEW i \in sync.work, watch[i.addr] # 0
               PROVE  [i EXCEPT !.start = watch[i.addr]] \in Item
    OBVIOUS
  <2>1. i \in Group BY <1>1 DEF ProofsAreRooted
  <2>2. watch[i.addr] \in Heights \ {0} BY <2>1 DEF Group, TablesInv, TypeOK
  <2> QED BY <2>1, <2>2 DEF Group, Item
<1>3. work \in SUBSET (Item \cup Group) BY <1>2
<1> HIDE DEF work
<1>4. sync' \in Pass BY <1>1, <1>3 DEF Pass
<1>5. /\ sync'.pc = "pick" /\ sync'.queue = sync.queue /\ sync'.work = work
      /\ sync'.retry = sync.retry /\ sync'.next = sync.next /\ head' = head
  BY <1>1 DEF Pass, archiveVars, tables
<1>6. TablesInv' BY <1>1, TablesStay DEF TablesInv, TypeOK, archiveVars, volatile
<1>7. sync.retry BY <1>1 DEF NextIsAbove
<1> QED BY <1>1, <1>2, <1>4, <1>5, <1>6, <1>7
  DEF PassInv, SnapshotsHold, NextIsAbove, Proving, BatchIsNumbered, ProofsAreRooted

\* From one step to the next of the proofs: the blocks and the head are as they were.
LEMMA ProvingKeeps ==
  ASSUME ProcessesInv, Proving, Proving', head' = head, UNCHANGED lazy,
         sync' \in Pass, sync'.queue = sync.queue, sync'.next = sync.next,
         sync'.retry = sync.retry, sync'.work \subseteq sync.work,
         sync'.pc # "pick" => sync'.item \in Item,
         sync'.pc \in {"proof", "store"} =>
           sync'.root \in Hash /\ Num[sync'.root] = sync'.item.seen - 1
  PROVE  PassInv'
<1> USE DEF ProcessesInv, Proving
<1>1. SnapshotsHold' BY DEF SnapshotsHold
<1>2. NextIsAbove' BY DEF NextIsAbove
<1>3. BatchIsNumbered' BY DEF BatchIsNumbered
<1>4. sync'.work \subseteq Item /\ (lazy'.pc = lazy.pc /\ lazy'.root = lazy.root /\ lazy'.at = lazy.at)
  BY DEF ProofsAreRooted
<1>5. ProofsAreRooted' BY <1>4 DEF ProofsAreRooted
<1> QED BY <1>1, <1>2, <1>3, <1>5 DEF PassInv

LEMMA PickItemKeeps ==
  ASSUME TablesInv, ProcessesInv, PickItem, UNCHANGED lazy
  PROVE  TablesInv' /\ PassInv'
<1> USE DEF ProcessesInv, ProcessesTypeOK
<1>1. sync.pc = "pick" /\ sync.work \subseteq Item BY DEF PickItem, At, ProofsAreRooted
<1>2. PICK item \in sync.work :
        \/ /\ MarkLost(item.addr, item.slots, item.seen) \/ UNCHANGED archiveVars
           /\ sync' = [sync EXCEPT !.work = @ \ {item}]
        \/ /\ UNCHANGED archiveVars
           /\ sync' = [sync EXCEPT !.work = @ \ {item}, !.item = item,
                         !.root = hashes[item.seen - 1],
                         !.pc = IF hashes[item.seen - 1] = NoHash THEN "header" ELSE "proof"]
  <2>1. sync \in Pass OBVIOUS
  <2> QED BY <2>1 DEF PickItem, Pass
<1>3. item \in Item BY <1>1
<1>4. item.addr \in Addr /\ item.seen \in Heights /\ item.seen - 1 \in Heights
  BY <1>3, HeightsFact DEF Item
<1>5. /\ hashes[item.seen - 1] \in Hash \cup {NoHash}
      /\ hashes[item.seen - 1] # NoHash => Num[hashes[item.seen - 1]] = item.seen - 1
  BY <1>4 DEF TablesInv, TypeOK
<1>6. TablesInv'
  BY <1>2, <1>4, LostTables, TablesStay DEF TablesInv, TypeOK, archiveVars, volatile
<1>7. head' = head BY <1>2 DEF MarkLost, archiveVars, tables
<1>8. CASE sync' = [sync EXCEPT !.work = @ \ {item}]
  <2>1. sync.work \ {item} \in SUBSET (Item \cup Group) BY <1>1
  <2>2. sync' \in Pass BY <1>8, <2>1 DEF Pass
  <2>3. /\ sync'.pc = "pick" /\ sync'.queue = sync.queue /\ sync'.next = sync.next
        /\ sync'.retry = sync.retry /\ sync'.work = sync.work \ {item}
    BY <1>1, <1>8 DEF Pass
  <2> QED BY <1>1, <1>6, <1>7, <2>2, <2>3, ProvingKeeps DEF Proving
<1>9. CASE sync' = [sync EXCEPT !.work = @ \ {item}, !.item = item,
                      !.root = hashes[item.seen - 1],
                      !.pc = IF hashes[item.seen - 1] = NoHash THEN "header" ELSE "proof"]
  <2>1. sync.work \ {item} \in SUBSET (Item \cup Group) BY <1>1
  <2>2. sync' \in Pass
    <3> DEFINE root == hashes[item.seen - 1]
               pc == IF root = NoHash THEN "header" ELSE "proof"
               rest == sync.work \ {item}
    <3>1. sync' = [sync EXCEPT !.work = rest, !.item = item, !.root = root, !.pc = pc] BY <1>9
    <3>2. root \in Hash \cup {NoHash} /\ pc \in {"header", "proof"} BY <1>5
    <3>3. rest \in SUBSET (Item \cup Group) BY <2>1
    <3>4. sync \in Pass /\ item \in Item \cup {NoItem} BY <1>3
    <3> HIDE DEF root, pc, rest, ProcessesInv, ProcessesTypeOK
    <3> QED BY <3>1, <3>2, <3>3, <3>4 DEF Pass
  <2>3. /\ sync'.pc = IF hashes[item.seen - 1] = NoHash THEN "header" ELSE "proof"
        /\ sync'.queue = sync.queue /\ sync'.next = sync.next
        /\ sync'.retry = sync.retry /\ sync'.work = sync.work \ {item}
        /\ sync'.item = item /\ sync'.root = hashes[item.seen - 1]
    BY <1>9 DEF Pass
  <2> QED BY <1>1, <1>3, <1>5, <1>6, <1>7, <2>2, <2>3, ProvingKeeps DEF Proving
<1> QED BY <1>2, <1>8, <1>9

LEMMA HeaderAnswerKeeps ==
  ASSUME TablesInv, ProcessesInv, HeaderAnswer, UNCHANGED lazy
  PROVE  TablesInv' /\ PassInv'
<1> USE DEF ProcessesInv, ProcessesTypeOK
<1> DEFINE h == SourceBlock(sync.item.seen - 1)
           work == IF sync.retry THEN sync.work ELSE {}
<1>1. /\ sync.pc = "header"
      /\ \/ /\ h # NoHash /\ RememberHeader(h)
            /\ sync' = [sync EXCEPT !.pc = "proof", !.root = h]
         \/ /\ UNCHANGED archiveVars
            /\ sync' = [sync EXCEPT !.pc = "pick", !.item = NoItem, !.work = work]
  <2>1. sync \in Pass OBVIOUS
  <2> QED BY <2>1 DEF HeaderAnswer, At, Pass
<1>2. sync.item \in Item /\ sync.work \subseteq Item BY <1>1 DEF ProofsAreRooted
<1>3. sync.item.seen - 1 \in Heights BY <1>2, HeightsFact DEF Item
<1>4. h # NoHash => h \in Hash /\ Num[h] = sync.item.seen - 1 BY <1>3, SourceFact
<1>5. work \subseteq sync.work OBVIOUS
<1> HIDE DEF h, work
<1>6. TablesInv'
  BY <1>1, <1>4, HeaderTables, TablesStay DEF TablesInv, TypeOK, archiveVars, volatile
<1>7. head' = head BY <1>1 DEF RememberHeader, archiveVars, tables
<1>8. CASE h # NoHash /\ sync' = [sync EXCEPT !.pc = "proof", !.root = h]
  <2>1. sync' \in Pass BY <1>4, <1>8 DEF Pass
  <2>2. /\ sync'.pc = "proof" /\ sync'.queue = sync.queue /\ sync'.next = sync.next
        /\ sync'.retry = sync.retry /\ sync'.work = sync.work
        /\ sync'.item = sync.item /\ sync'.root = h
    BY <1>8 DEF Pass
  <2> QED BY <1>1, <1>2, <1>4, <1>6, <1>7, <1>8, <2>1, <2>2, ProvingKeeps DEF Proving
<1>9. CASE sync' = [sync EXCEPT !.pc = "pick", !.item = NoItem, !.work = work]
  <2>1. work \in SUBSET (Item \cup Group) BY <1>2, <1>5
  <2>2. sync' \in Pass BY <1>9, <2>1 DEF Pass
  <2>3. /\ sync'.pc = "pick" /\ sync'.queue = sync.queue /\ sync'.next = sync.next
        /\ sync'.retry = sync.retry /\ sync'.work = work
    BY <1>9 DEF Pass
  <2> QED BY <1>1, <1>5, <1>6, <1>7, <2>2, <2>3, ProvingKeeps DEF Proving
<1> QED BY <1>1, <1>8, <1>9

LEMMA ValuesFact ==
  ASSUME NEW S \in SUBSET Slot, NEW f \in [S -> Value]
  PROVE  f \in Values
BY DEF Values

LEMMA ProofAnswerKeeps ==
  ASSUME TablesInv, ProcessesInv, ProofAnswer, UNCHANGED lazy
  PROVE  TablesInv' /\ PassInv'
<1> USE DEF ProcessesInv, ProcessesTypeOK
<1>1. sync.pc = "proof" /\ UNCHANGED archiveVars BY DEF ProofAnswer, At, Local
<1>2. /\ sync.item \in Item
      /\ sync.root \in Hash /\ Num[sync.root] = sync.item.seen - 1
  BY <1>1 DEF ProofsAreRooted
<1>3. TablesInv' BY <1>1, TablesStay DEF TablesInv, TypeOK, archiveVars, volatile
<1>4. head' = head BY <1>1 DEF archiveVars, tables
<1>5. CASE sync' = [sync EXCEPT !.pc = "pick", !.item = NoItem, !.root = NoHash]
  <2>1. sync' \in Pass BY <1>5 DEF Pass
  <2>2. /\ sync'.pc = "pick" /\ sync'.queue = sync.queue /\ sync'.next = sync.next
        /\ sync'.retry = sync.retry /\ sync'.work = sync.work
    BY <1>5 DEF Pass
  <2> QED BY <1>1, <1>3, <1>4, <2>1, <2>2, ProvingKeeps DEF Proving
<1>6. ASSUME NEW chunk \in SUBSET sync.item.slots,
             sync' = [sync EXCEPT !.pc = "store", !.item.slots = @ \ chunk,
                        !.answer = [s \in chunk |->
                          ValueAt(sync.root, sync.item.seen - 1, sync.item.addr, s)]]
      PROVE  PassInv'
  <2> DEFINE answer == [s \in chunk |->
                          ValueAt(sync.root, sync.item.seen - 1, sync.item.addr, s)]
             item == [sync.item EXCEPT !.slots = @ \ chunk]
  <2>1. sync.item.seen - 1 \in Heights /\ chunk \in SUBSET Slot /\ sync.item.addr \in Addr
    BY <1>2, HeightsFact DEF Item
  <2>2. answer \in [chunk -> Value] BY <1>2, <2>1, HeightsFact, ValueAtType
  <2>3. item \in Item /\ item.seen = sync.item.seen BY <1>2 DEF Item
  <2>4. sync' = [sync EXCEPT !.pc = "store", !.item = item, !.answer = answer]
    BY <1>6 DEF Pass
  <2> HIDE DEF answer, item
  <2>5. answer \in Values BY <2>1, <2>2, ValuesFact
  <2>6. sync' \in Pass BY <2>3, <2>4, <2>5 DEF Pass
  <2>7. /\ sync'.pc = "store" /\ sync'.queue = sync.queue /\ sync'.next = sync.next
        /\ sync'.retry = sync.retry /\ sync'.work = sync.work
        /\ sync'.item = item /\ sync'.root = sync.root
    BY <2>4 DEF Pass
  <2> QED BY <1>1, <1>2, <1>4, <2>3, <2>6, <2>7, ProvingKeeps DEF Proving
<1> QED BY <1>3, <1>5, <1>6 DEF ProofAnswer

LEMMA StoreProofKeeps ==
  ASSUME TablesInv, ProcessesInv, StoreProof, UNCHANGED lazy
  PROVE  TablesInv' /\ PassInv'
<1> USE DEF ProcessesInv, ProcessesTypeOK
<1>1. /\ sync.pc = "store"
      /\ \/ PutBootstrap(sync.item.addr, sync.item.start, sync.item.seen - 1, sync.root, sync.answer)
         \/ UNCHANGED archiveVars
      /\ \/ sync' = [sync EXCEPT !.answer = <<>>, !.pc = "proof"]
         \/ sync' = [sync EXCEPT !.answer = <<>>, !.pc = "pick", !.item = NoItem, !.root = NoHash]
  <2>1. sync \in Pass OBVIOUS
  <2> QED BY <2>1 DEF StoreProof, At, NoAnswer, Pass
<1>2. /\ sync.item \in Item
      /\ sync.root \in Hash /\ Num[sync.root] = sync.item.seen - 1
  BY <1>1 DEF ProofsAreRooted
<1>3. TablesInv'
  <2>1. CASE UNCHANGED archiveVars
    BY <2>1, TablesStay DEF TablesInv, TypeOK, archiveVars, volatile
  <2>2. CASE PutBootstrap(sync.item.addr, sync.item.start, sync.item.seen - 1, sync.root,
                          sync.answer)
    <3>1. sync.item.addr \in Addr /\ sync.item.start \in Heights \ {0} /\ sync.answer \in Values
      BY <1>2 DEF Item, Pass
    <3> QED BY <2>2, <3>1, PutTables
  <2> QED BY <1>1, <2>1, <2>2
<1>4. head' = head BY <1>1 DEF PutBootstrap, archiveVars, tables
<1>5. sync' \in Pass /\ sync'.pc \in {"proof", "pick"}
  <2> DEFINE empty == <<>>
  <2>1. empty \in Values BY EmptyFact
  <2>2. \/ sync' = [sync EXCEPT !.answer = empty, !.pc = "proof"]
        \/ sync' = [sync EXCEPT !.answer = empty, !.pc = "pick", !.item = NoItem, !.root = NoHash]
    BY <1>1
  <2> HIDE DEF empty
  <2>3. CASE sync' = [sync EXCEPT !.answer = empty, !.pc = "proof"] BY <2>1, <2>3 DEF Pass
  <2>4. CASE sync' = [sync EXCEPT !.answer = empty, !.pc = "pick", !.item = NoItem, !.root = NoHash]
    BY <2>1, <2>4 DEF Pass
  <2> QED BY <2>2, <2>3, <2>4
<1>6. /\ sync'.queue = sync.queue /\ sync'.next = sync.next
      /\ sync'.retry = sync.retry /\ sync'.work = sync.work
      /\ sync'.pc = "proof" => sync'.item = sync.item /\ sync'.root = sync.root
  BY <1>1 DEF Pass
<1> QED BY <1>1, <1>2, <1>3, <1>4, <1>5, <1>6, ProvingKeeps DEF Proving

LEMMA WorkDoneKeeps ==
  ASSUME TablesInv, ProcessesInv, WorkDone, UNCHANGED lazy, sync'.pc # "idle"
  PROVE  TablesInv' /\ PassInv'
<1>1. /\ sync.pc = "pick" /\ ~ sync.retry /\ UNCHANGED archiveVars
      /\ sync' = [sync EXCEPT !.pc = "loop", !.next = @ + 1]
  BY IdleFact DEF WorkDone, At, EndPass
<1> USE DEF ProcessesInv, ProcessesTypeOK
<1>2. head # NoHash /\ sync.next = Num[head] BY <1>1 DEF NextIsAbove, Proving
<1>3. head \in Hash /\ Num[head] + 1 \in 0 .. MaxHeight + 1
  BY <1>2, HeightsFact DEF TablesInv, TypeOK
<1>4. sync' \in Pass BY <1>1, <1>2, <1>3 DEF Pass
<1>5. /\ sync'.pc = "loop" /\ sync'.queue = sync.queue /\ sync'.work = sync.work
      /\ sync'.retry = sync.retry /\ sync'.next = sync.next + 1 /\ head' = head
  BY <1>1 DEF Pass, archiveVars, tables
<1>6. TablesInv' BY <1>1, TablesStay DEF TablesInv, TypeOK, archiveVars, volatile
<1> QED BY <1>1, <1>2, <1>4, <1>5, <1>6
  DEF PassInv, SnapshotsHold, NextIsAbove, Proving, BatchIsNumbered, ProofsAreRooted

-----------------------------------------------------------------------------
(* Every step of the archive in use *)

\* A pass that is idle again ended there.
LEMMA PassEnds ==
  ASSUME ProcessesInv, SyncStep \/ Abort, ~ EndPass
  PROVE  sync'.pc # "idle"
<1> SUFFICES ASSUME sync'.pc = "idle" PROVE FALSE OBVIOUS
<1> USE DEF ProcessesInv, ProcessesTypeOK, At, Local
<1>1. sync \in Pass OBVIOUS
<1>2. CASE Claim BY <1>1, <1>2 DEF Claim, Pass
<1>3. CASE AskHead BY <1>1, <1>3 DEF AskHead, Pass
<1>4. CASE AskFinalized BY <1>1, <1>4 DEF AskFinalized, Pass
<1>5. CASE CheckHead BY <1>1, <1>5 DEF CheckHead, Pass
<1>6. CASE ForkUnknown BY <1>6 DEF ForkUnknown
<1>7. CASE ForkStep BY <1>1, <1>7 DEF ForkStep, Pass
<1>8. CASE RollbackScan BY <1>1, <1>8 DEF RollbackScan, Pass
<1>9. CASE Rollback BY <1>1, <1>9 DEF Rollback, Pass
<1>10. CASE StartFetch BY <1>1, <1>10 DEF StartFetch, Pass
<1>11. CASE \E n \in Heights : FetchServed(n) \/ FetchFailed(n)
  BY <1>1, <1>11 DEF FetchServed, FetchFailed, Fetched, Pass
<1>12. CASE TakeBlock BY <1>1, <1>12 DEF TakeBlock, Pass
<1>13. CASE LoopDone BY <1>1, <1>13 DEF LoopDone, Pass
<1>14. CASE Snapshot BY <1>1, <1>14 DEF Snapshot, Pass
<1>15. CASE Apply
  <2>1. sync'.pc \in {"loop", "pick"} BY <1>15, ApplyMoves
  <2> QED BY <2>1
<1>16. CASE RetryScan
  <2>1. sync' = [sync EXCEPT !.pc = "groups", !.retry = TRUE, !.work = PendingGroups]
    BY <1>16 DEF RetryScan
  <2> HIDE DEF ProcessesInv, ProcessesTypeOK
  <2> QED BY <1>1, <2>1 DEF Pass
<1>17. CASE RetryGroups BY <1>1, <1>17 DEF RetryGroups, Pass
<1>18. CASE PickItem BY <1>1, <1>18 DEF PickItem, Pass
<1>19. CASE HeaderAnswer BY <1>1, <1>19 DEF HeaderAnswer, Pass
<1>20. CASE ProofAnswer
  <2> HIDE DEF ProcessesInv, ProcessesTypeOK
  <2>1. \/ \E A, B : sync' = [sync EXCEPT !.pc = "store", !.item.slots = A, !.answer = B]
        \/ sync' = [sync EXCEPT !.pc = "pick", !.item = NoItem, !.root = NoHash]
    BY <1>20, Zenon DEF ProofAnswer
  <2> QED BY <1>1, <2>1 DEF Pass
<1>21. CASE StoreProof BY <1>1, <1>21 DEF StoreProof, Pass
<1>22. CASE WorkDone BY <1>1, <1>22 DEF WorkDone, Pass
<1>23. CASE Abort BY <1>23 DEF Abort
<1> QED BY <1>2, <1>3, <1>4, <1>5, <1>6, <1>7, <1>8, <1>9, <1>10, <1>11, <1>12, <1>13, <1>14,
           <1>15, <1>16, <1>17, <1>18, <1>19, <1>20, <1>21, <1>22, <1>23 DEF SyncStep

LEMMA PassStep ==
  ASSUME TablesInv, ProcessesInv, SyncStep \/ Abort, UNCHANGED lazy
  PROVE  TablesInv' /\ PassInv'
<1>1. CASE EndPass BY <1>1, EndPassKeeps
<1>2. ASSUME ~ EndPass, sync'.pc = "idle" PROVE FALSE BY <1>2, PassEnds
<1>3. CASE sync'.pc # "idle"
  <2>1. ~ ForkUnknown /\ ~ Abort
    BY <1>3, IdleFact DEF ForkUnknown, Abort, EndPass
  <2> QED BY <1>3, <2>1, ClaimKeeps, AskHeadKeeps, AskFinalizedKeeps, CheckHeadKeeps, ForkStepKeeps,
             RollbackScanKeeps, RollbackKeeps, FetchKeeps, FetchedKeeps, TakeBlockKeeps,
             LoopDoneKeeps, SnapshotKeeps, ApplyKeeps, RetryScanKeeps, RetryGroupsKeeps,
             PickItemKeeps, HeaderAnswerKeeps, ProofAnswerKeeps, StoreProofKeeps, WorkDoneKeeps
          DEF SyncStep
<1> QED BY <1>1, <1>2, <1>3

LEMMA PassesLeaveNode ==
  ASSUME (\E m \in Budgets \cup {NoLimit}, p \in BOOLEAN : Begin(m, p)) \/ SyncStep \/ Abort
  PROVE  UNCHANGED nodeVars
<1> USE DEF nodeVars
<1>1. CASE \E m \in Budgets \cup {NoLimit}, p \in BOOLEAN : Begin(m, p) BY <1>1 DEF Begin
<1>2. CASE Abort BY <1>2 DEF Abort
<1>3. CASE Claim \/ AskHead \/ AskFinalized \/ CheckHead \/ ForkUnknown
  BY <1>3 DEF Claim, AskHead, AskFinalized, CheckHead, ForkUnknown, Local
<1>4. CASE ForkStep \/ RollbackScan \/ Rollback
  BY <1>4 DEF ForkStep, RollbackScan, Rollback, Local
<1>5. CASE StartFetch \/ LoopDone \/ \E n \in Heights : FetchServed(n) \/ FetchFailed(n)
  BY <1>5 DEF StartFetch, LoopDone, FetchServed, FetchFailed, Fetched, Local
<1>6. CASE TakeBlock BY <1>6 DEF TakeBlock
<1>7. CASE Snapshot \/ Apply BY <1>7 DEF Snapshot, Apply
<1>8. CASE RetryScan \/ RetryGroups BY <1>8 DEF RetryScan, RetryGroups, Local
<1>9. CASE PickItem BY <1>9 DEF PickItem
<1>10. CASE HeaderAnswer BY <1>10 DEF HeaderAnswer
<1>11. CASE ProofAnswer BY <1>11 DEF ProofAnswer, Local
<1>12. CASE StoreProof BY <1>12 DEF StoreProof
<1>13. CASE WorkDone BY <1>13 DEF WorkDone
<1> QED BY <1>1, <1>2, <1>3, <1>4, <1>5, <1>6, <1>7, <1>8, <1>9, <1>10, <1>11, <1>12, <1>13 DEF SyncStep

LEMMA SystemStep ==
  ASSUME TablesInv, ProcessesInv, [SystemNext]_vars
  PROVE  TablesInv' /\ ProcessesInv'
<1>1. CASE Syncs
  <2>1. UNCHANGED nodeVars /\ UNCHANGED user /\ UNCHANGED lazy
    <3>1. UNCHANGED <<user, lazy>> BY <1>1 DEF Syncs
    <3>2. UNCHANGED nodeVars BY <1>1, PassesLeaveNode DEF Syncs
    <3> QED BY <3>1, <3>2
  <2>2. TablesInv' /\ PassInv' BY <1>1, <2>1, PassStep, BeginKeeps DEF Syncs
  <2> QED BY <2>1, <2>2
    DEF PassInv, ProcessesInv, ProcessesTypeOK, NodeTypeOK, nodeVars
<1>2. CASE Watches BY <1>2, WatchBeginKeeps, WatchEndKeeps DEF Watches
<1>3. CASE Unwatches BY <1>3, UnwatchCallKeeps DEF Unwatches
<1>4. CASE Lazies BY <1>4, LazyBeginKeeps, LazyStepKeeps DEF Lazies
<1>5. CASE Moves BY <1>5, NodeKeeps
<1>6. CASE Crash
  <2>1. UNCHANGED tables /\ gate' = FALSE /\ user' = NoCall /\ lazy' = NoLazy /\ UNCHANGED nodeVars
        /\ sync' = Idle /\ inFlight' = 0 /\ syncing' = FALSE
    BY <1>6 DEF Crash
  <2>2. TablesInv'
    <3>1. 0 \in 0 .. MaxHeight + 1 BY HeightsFact
    <3> QED BY <2>1, <3>1, TablesStay
  <2>3. SnapshotsHold' /\ NextIsAbove' /\ BatchIsNumbered' /\ ProofsAreRooted'
    BY <2>1, IdleFact
    DEF SnapshotsHold, NextIsAbove, Proving, BatchIsNumbered, ProofsAreRooted, NoLazy
  <2>4. ProcessesTypeOK' BY <2>1, IdleFact DEF ProcessesInv, ProcessesTypeOK, NodeTypeOK, nodeVars
  <2> QED BY <2>2, <2>3, <2>4 DEF ProcessesInv
<1>7. CASE UNCHANGED vars
  <2> USE DEF vars, syncVars, archiveVars, tables, volatile, nodeVars
  <2>1. TablesInv' BY <1>7, TablesStay DEF TablesInv, TypeOK
  <2>2. SnapshotsHold' /\ NextIsAbove' /\ BatchIsNumbered' /\ ProofsAreRooted'
    BY <1>7
    DEF ProcessesInv, SnapshotsHold, NextIsAbove, Proving, BatchIsNumbered, ProofsAreRooted
  <2>3. ProcessesTypeOK' BY <1>7 DEF ProcessesInv, ProcessesTypeOK, NodeTypeOK
  <2> QED BY <2>1, <2>2, <2>3 DEF ProcessesInv
<1> QED BY <1>1, <1>2, <1>3, <1>4, <1>5, <1>6, <1>7 DEF SystemNext

LEMMA SystemStart == SystemInit => TablesInv /\ ProcessesInv
<1> SUFFICES ASSUME SystemInit PROVE TablesInv /\ ProcessesInv OBVIOUS
<1>1. Init /\ NodeInit /\ sync = Idle /\ user = NoCall /\ lazy = NoLazy BY DEF SystemInit
<1>2. BlockRecords = {} /\ blockidx = {} BY <1>1 DEF Init, BlockRecords
<1>3. TablesInv
  BY <1>1, <1>2, InitType
  DEF TablesInv, Init, NothingForUnwatched, PendingMirrorsBoot, Unseen, IndexMatchesRecords,
      RecordsUnderHead
<1>4. NodeTypeOK
  <2>1. canon \in Hash /\ 0 <= Num[canon] BY <1>1, HeightsFact DEF NodeInit
  <2> QED BY <1>1, <2>1, HeightsFact, LineFact DEF NodeInit, NodeTypeOK
<1>5. SnapshotsHold /\ NextIsAbove /\ BatchIsNumbered /\ ProofsAreRooted
  BY <1>1, IdleFact
  DEF SnapshotsHold, NextIsAbove, Proving, BatchIsNumbered, ProofsAreRooted, NoLazy
<1>6. ProcessesTypeOK BY <1>1, <1>4, IdleFact DEF ProcessesTypeOK
<1> QED BY <1>3, <1>5, <1>6 DEF ProcessesInv

LEMMA SystemKeeps == SystemSpec => [](TablesInv /\ ProcessesInv)
<1>1. TablesInv /\ ProcessesInv /\ [SystemNext]_vars => (TablesInv /\ ProcessesInv)' BY SystemStep
<1> QED BY SystemStart, <1>1, PTL DEF SystemSpec

\* However calls of watch() and unwatch() and passes interleave, a block is applied with
\* every watch that begins at or under it (sync.rs:222, watchlist_for and the gate).
THEOREM SnapshotsHoldWatches == SystemSpec => []SnapshotIsCurrent
<1>1. TablesInv /\ ProcessesInv => SnapshotIsCurrent
  <2> SUFFICES ASSUME TablesInv, ProcessesInv, sync.pc = "apply", NEW a \in Watched,
                      watch[a] <= sync.next
               PROVE  sync.snap[a] = watch[a]
    BY DEF SnapshotIsCurrent
  <2>1. a \in Addr /\ watch[a] # 0 BY DEF Watched
  <2>2. watch[a] \in Int /\ sync.next \in Int
    BY <2>1, HeightsFact DEF TablesInv, TypeOK, ProcessesInv, ProcessesTypeOK, Pass
  <2> QED BY <2>1, <2>2 DEF ProcessesInv, SnapshotsHold
<1> QED BY SystemKeeps, <1>1, PTL

\* Nothing a pass or a lazy proof writes late comes back for an address that was
\* unwatched while it was on its way.
THEOREM NothingComesBack == SystemSpec => []NothingForUnwatched
<1>1. TablesInv => NothingForUnwatched BY DEF TablesInv
<1> QED BY SystemKeeps, <1>1, PTL

\* The block index still lists every record of a block, and only those, when passes,
\* proofs, rollbacks, unwatch() and crashes interleave at any transaction.
THEOREM IndexStaysExact == SystemSpec => []IndexMatchesRecords
<1>1. TablesInv => IndexMatchesRecords BY DEF TablesInv
<1> QED BY SystemKeeps, <1>1, PTL
=============================================================================
