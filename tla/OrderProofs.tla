----------------------------- MODULE OrderProofs -----------------------------
(***************************************************************************)
(* On one thread, without unwatch() and lazy calls, the processes do to    *)
(* the store what the single caller of module Archive may, in the order    *)
(* its Spec keeps; so all that is proved of the store under that caller    *)
(* holds with passes that are dropped, answers of any branch and watches   *)
(* that come between.  What a pass relies on is not checked where it is    *)
(* used: a header that was pruned links nothing, and a proof is taken      *)
(* where the work said when it was found.                                  *)
(***************************************************************************)
EXTENDS SystemProofs

USE DEF Heights

-----------------------------------------------------------------------------
(* The store *)

StoreHolds == StateInv /\ HashesAreHeld /\ PreValuesAreTrue

\* What the processes do to the tables.
TableStep ==
  \/ UNCHANGED tables
  \/ \E c \in Addr, n \in Heights : Watch(c, n, HeadNumber)
  \/ \E h \in Hash, below \in Heights : Extend(h, below)
  \/ \E b \in Heights : Reorg(b)
  \/ Proofs

LEMMA StoreFacts ==
  ASSUME StoreHolds
  PROVE  StateInv /\ HoldInv /\ IndexInv /\ TypeOK /\ PendingMirrorsBoot
BY DEF StoreHolds, StateInv, HoldInv, IndexInv

LEMMA SameTables ==
  ASSUME StoreHolds, TypeOK', UNCHANGED tables
  PROVE  StoreHolds'
<1> USE StoreFacts DEF tables
<1>1. BlockRecords' = BlockRecords BY DEF BlockRecords
<1>2. IndexCovers' /\ IndexIsBacked' /\ RecordsInRange'
  BY <1>1 DEF IndexInv, IndexCovers, IndexIsBacked, RecordsInRange
<1>3. ChainHeld' BY <1>1, OtherHolds
<1>4. PendingMirrorsBoot' BY DEF PendingMirrorsBoot
<1>5. StatesAreTold' /\ CreationsAreTrue' BY DEF StateInv, StatesAreTold, CreationsAreTrue
<1>6. HashesAreHeld' BY DEF StoreHolds, HashesAreHeld
<1>7. PreValuesAreTrue' BY DEF StoreHolds, PreValuesAreTrue
<1> QED BY <1>2, <1>3, <1>4, <1>5, <1>6, <1>7 DEF StoreHolds, StateInv, HoldInv, IndexInv

LEMMA WatchedTables ==
  ASSUME StoreHolds, TypeOK', NEW c \in Addr, NEW n \in Heights, Watch(c, n, HeadNumber)
  PROVE  StoreHolds'
<1> USE StoreFacts
<1>1. IndexCovers' /\ IndexIsBacked' /\ RecordsInRange' BY WatchIndex
<1>2. ChainHeld' BY WatchHolds
<1>3. PendingMirrorsBoot' BY DEF PendingMirrorsBoot, Watch
<1>4. StatesAreTold' /\ CreationsAreTrue'
  BY WatchTold DEF StatesAreTold, CreationsAreTrue, TrueStates
<1>5. HashesAreHeld' BY DEF StoreHolds, HashesAreHeld, Watch
<1>6. PreValuesAreTrue' BY WatchPreValues DEF StoreHolds
<1> QED BY <1>1, <1>2, <1>3, <1>4, <1>5, <1>6 DEF StoreHolds, StateInv, HoldInv, IndexInv

LEMMA StoreKept ==
  ASSUME StoreHolds, TypeOK', TableStep
  PROVE  StoreHolds'
<1> USE StoreFacts
<1>1. CASE UNCHANGED tables BY <1>1, SameTables
<1>2. CASE \E c \in Addr, n \in Heights : Watch(c, n, HeadNumber) BY <1>2, WatchedTables
<1>3. CASE Forward \/ Proofs
  <2>1. [Next]_archiveVars /\ [Forward \/ Proofs]_archiveVars BY <1>3 DEF Next
  <2>2. HoldInv' BY <2>1, IndexStep, HoldStep DEF HoldInv, IndexInv
  <2>3. PendingMirrorsBoot' BY <2>1, MirrorStep
  <2>4. StatesAreTold' /\ CreationsAreTrue'
    BY <2>1, StateStep DEF StatesAreTold, CreationsAreTrue, TrueStates
  <2>5. HashesAreHeld' BY <2>1, HashesStep DEF StoreHolds
  <2>6. PreValuesAreTrue' BY <2>1, PreValueStep DEF StoreHolds
  <2> QED BY <2>2, <2>3, <2>4, <2>5, <2>6 DEF StoreHolds, StateInv
<1> QED BY <1>1, <1>2, <1>3 DEF TableStep, Forward

-----------------------------------------------------------------------------
(* The node *)

FollowInv == TablesInv /\ ProcessesInv /\ StoreHolds /\ OrderInv

LEMMA FollowFacts ==
  ASSUME FollowInv
  PROVE  /\ TypeOK /\ NodeTypeOK /\ sync \in Pass
         /\ Num[final] \in Nat /\ Num[canon] \in Nat /\ Num[final] \in Heights
         /\ sync.finalized \in Nat /\ sync.finalized <= Num[final]
         /\ head # NoHash => head \in Hash /\ Num[head] \in Heights /\ Num[head] \in Nat
BY HeightsFact
DEF FollowInv, TablesInv, ProcessesInv, ProcessesTypeOK, NodeTypeOK, OrderInv, FinalStays, Pass,
    TypeOK

\* The node serves the finalized line up to the finalized block.
LEMMA FinalIsServed ==
  ASSUME FollowInv, NEW n \in Heights, SourceBlock(n) # NoHash
  PROVE  /\ SourceBlock(n) \in Hash /\ Num[SourceBlock(n)] = n
         /\ \A m \in Heights : m <= n /\ m <= Num[final] =>
              Line[SourceBlock(n)][m] = Line[final][m]
<1> USE FollowFacts
<1>1. canon \in Hash /\ final \in Hash BY DEF NodeTypeOK
<1>2. /\ n <= Num[canon] /\ SourceBlock(n) \in Hash /\ Num[SourceBlock(n)] = n
      /\ SourceBlock(n) = Line[canon][n]
  BY SourceFact
<1>3. Num[final] <= Num[canon] /\ Line[canon][Num[final]] = final
  BY DEF FollowInv, OrderInv, FinalStays, OnLine
<1>4. ASSUME NEW m \in Heights, m <= n, m <= Num[final]
      PROVE  Line[SourceBlock(n)][m] = Line[final][m]
  <2>1. Line[Line[canon][n]][m] = Line[canon][m] BY <1>1, <1>2, <1>4, LineFact
  <2>2. Line[Line[canon][Num[final]]][m] = Line[canon][m] BY <1>1, <1>3, <1>4, LineFact
  <2> QED BY <1>2, <1>3, <2>1, <2>2
<1> QED BY <1>2, <1>4

\* A step of the pass that leaves the tables alone, and the batch or what it may prune.
LEMMA StillOrdered ==
  ASSUME FollowInv, UNCHANGED tables, UNCHANGED nodeVars,
         sync'.finalized <= Num[final], Less(sync'.srcHead, Horizon) <= Num[final],
         \/ Blocks' = {}
         \/ /\ sync'.finalized = sync.finalized
            /\ \A n \in Blocks' : n \in Blocks /\ sync'.queue[n] = sync.queue[n]
  PROVE  /\ FinalStays' /\ MissingAreSettled' /\ BatchIsAbove'
         /\ \A i : Waiting(i)' = Waiting(i)
<1> USE DEF tables, nodeVars, FollowInv, OrderInv
<1>1. FinalStays' BY DEF FinalStays, OnLine
<1>2. MissingAreSettled' BY DEF MissingAreSettled, Settled, Watched
<1>3. BatchIsAbove' BY DEF BatchIsAbove, Rooted
<1>4. \A i : Waiting(i)' = Waiting(i) BY DEF Waiting
<1> QED BY <1>1, <1>2, <1>3, <1>4

-----------------------------------------------------------------------------
(* What comes between two steps of a pass *)

\* What is on the finalized line stays there as it grows.
LEMMA MovesOrdered ==
  ASSUME FollowInv, Moves
  PROVE  TableStep /\ OrderInv'
<1>1. /\ UNCHANGED <<archiveVars, sync, user, lazy>> /\ UNCHANGED tables
      /\ \E h \in Hash : SetCanon(h) \/ Finalize(h)
  BY DEF Moves, NodeStep, archiveVars
<1>2. final \in Hash /\ canon \in Hash /\ OnLine(final, canon)
      /\ Num[canon] <= Num[final] + FinalityLag /\ FinalityLag \in Nat
  BY FollowFacts, NodeAssumption DEF NodeTypeOK, FollowInv, OrderInv, FinalStays
<1>3. /\ final' \in Hash /\ Num[final] <= Num[final'] /\ Line[final'][Num[final]] = final
      /\ OnLine(final', canon') /\ Num[canon'] <= Num[final'] + FinalityLag
  <2>1. CASE \E h \in Hash : SetCanon(h)
    <3>1. final' = final /\ OnLine(final, canon') /\ Num[canon'] <= Num[final] + FinalityLag
      BY <2>1 DEF SetCanon
    <3>2. Line[final][Num[final]] = final /\ Num[final] <= Num[final]
      BY <1>2, TreeAssumption, HeightsFact
    <3> QED BY <1>2, <3>1, <3>2 DEF OnLine
  <2>2. CASE \E h \in Hash : Finalize(h)
    <3>1. final' \in Hash /\ canon' = canon /\ OnLine(final, final') /\ OnLine(final', canon)
      BY <2>2 DEF Finalize
    <3>2. Num[final] \in Nat /\ Num[final'] \in Nat /\ Num[canon] \in Nat
      BY <1>2, <3>1, HeightsFact
    <3> QED BY <1>2, <3>1, <3>2 DEF OnLine
  <2> QED BY <1>1, <2>1, <2>2
<1>4. Num[final] \in Heights /\ Num[final] \in Nat /\ Num[final'] \in Nat
  BY <1>2, <1>3, HeightsFact
<1>5. \A n \in Heights : n <= Num[final] => n <= Num[final'] /\ Line[final'][n] = Line[final][n]
  <2> SUFFICES ASSUME NEW n \in Heights, n <= Num[final]
               PROVE  n <= Num[final'] /\ Line[final'][n] = Line[final][n]
    OBVIOUS
  <2>1. Line[Line[final'][Num[final]]][n] = Line[final'][n] BY <1>3, <1>4, LineFact
  <2> QED BY <1>3, <1>4, <2>1, HeightsFact
<1>6. sync.finalized \in Nat /\ sync.finalized <= Num[final] /\ Less(sync.srcHead, Horizon) \in Nat
      /\ Less(sync.srcHead, Horizon) <= Num[final]
  BY FollowFacts, LessFact, SyncAssumption, HeightsFact DEF FollowInv, OrderInv, FinalStays, Pass
<1>7. FinalStays' BY <1>1, <1>3, <1>4, <1>6 DEF FinalStays
<1>8. MissingAreSettled'
  <2>1. \A n \in Heights : Settled(n) => Settled(n)' BY <1>1, <1>5 DEF Settled, tables
  <2>2. head # NoHash => Num[head] \in Heights BY FollowFacts
  <2> QED BY <1>1, <2>1, <2>2 DEF FollowInv, OrderInv, MissingAreSettled, Watched, tables
<1>9. \A h, n : Rooted(h, n) => Rooted(h, n)'
  <2> SUFFICES ASSUME NEW h, NEW n, Rooted(h, n), NEW m \in Heights, m <= n, m <= sync.finalized
               PROVE  Line[h][m] = Line[final'][m]
    BY <1>1 DEF Rooted
  <2>1. m <= Num[final] BY <1>4, <1>6, HeightsFact
  <2> QED BY <1>5, <2>1 DEF Rooted
<1>10. BatchIsAbove' /\ BlockIsAbove'
  BY <1>1, <1>9 DEF FollowInv, OrderInv, BatchIsAbove, BlockIsAbove, Blocks, tables
<1>11. WatchesComeBetween'
  BY <1>1 DEF FollowInv, OrderInv, WatchesComeBetween, Watched, HeadNumber, FirstBlock, SyncAwaits, At,
              tables, archiveVars, volatile
<1>12. WorkIsPending' /\ ItemIsPending'
  BY <1>1 DEF FollowInv, OrderInv, WorkIsPending, ItemIsPending, Waiting, Proving, At, tables
<1> QED BY <1>1, <1>7, <1>8, <1>10, <1>11, <1>12 DEF OrderInv, TableStep

LEMMA WatchBeginOrdered ==
  ASSUME FollowInv, FollowsOneLine, NEW c \in Addr, NEW n \in Starts, WatchBegin(c, n)
  PROVE  TableStep /\ OrderInv'
<1>1. /\ UNCHANGED tables /\ inFlight' = inFlight /\ UNCHANGED <<nodeVars, sync, lazy>>
      /\ user' = [pc |-> "watch", addr |-> c, start |-> n, seen |-> HeadNumber]
      /\ SyncAwaits
  BY DEF WatchBegin, TakeGate, UserMay, FollowsOneLine
<1>2. /\ sync.finalized <= Num[final] /\ Less(sync.srcHead, Horizon) <= Num[final]
  BY DEF FollowInv, OrderInv, FinalStays
<1>3. FinalStays' /\ MissingAreSettled' /\ BatchIsAbove' /\ \A i : Waiting(i)' = Waiting(i)
  BY <1>1, <1>2, StillOrdered DEF Blocks
<1>4. WatchesComeBetween'
  BY <1>1 DEF FollowInv, OrderInv, WatchesComeBetween, Watched, HeadNumber, FirstBlock, SyncAwaits, At,
              tables
<1>5. BlockIsAbove'
  BY <1>1 DEF FollowInv, OrderInv, BlockIsAbove, Blocks, Rooted, tables, nodeVars
<1>6. WorkIsPending' /\ ItemIsPending'
  BY <1>1, <1>3 DEF FollowInv, OrderInv, WorkIsPending, ItemIsPending, Proving, At, tables
<1> QED BY <1>1, <1>3, <1>4, <1>5, <1>6 DEF OrderInv, TableStep

\* A new watch starts above the head, and above the block in work.
LEMMA WatchEndOrdered ==
  ASSUME FollowInv, TypeOK', WatchEnd
  PROVE  TableStep /\ OrderInv'
<1> USE FollowFacts DEF FollowInv, OrderInv
<1>1. /\ user.pc = "watch" /\ user'.pc = "idle" /\ UNCHANGED nodeVars /\ sync' = sync
      /\ lazy' = lazy /\ inFlight' = inFlight
      /\ \/ user.start > inFlight /\ Watch(user.addr, user.start, user.seen)
         \/ UNCHANGED tables
  BY DEF WatchEnd, ReleaseGate, NoCall
<1>2. /\ user.addr \in Addr /\ user.start \in Heights \ {0} /\ user.start \in Starts
      /\ user.seen = HeadNumber /\ SyncAwaits
  BY <1>1 DEF ProcessesInv, ProcessesTypeOK, NoCall, WatchesComeBetween
<1>3. CASE UNCHANGED tables
  <2>1. /\ sync.finalized <= Num[final] /\ Less(sync.srcHead, Horizon) <= Num[final]
    BY DEF FinalStays
  <2>2. FinalStays' /\ MissingAreSettled' /\ BatchIsAbove' /\ \A i : Waiting(i)' = Waiting(i)
    BY <1>1, <1>3, <2>1, StillOrdered DEF Blocks
  <2>3. WatchesComeBetween'
    BY <1>1, <1>3 DEF WatchesComeBetween, Watched, HeadNumber, FirstBlock, SyncAwaits, At, tables
  <2>4. BlockIsAbove' BY <1>1, <1>3 DEF BlockIsAbove, Blocks, Rooted, tables, nodeVars
  <2>5. WorkIsPending' /\ ItemIsPending'
    BY <1>1, <1>3, <2>2 DEF WorkIsPending, ItemIsPending, Proving, At, tables
  <2> QED BY <1>3, <2>2, <2>3, <2>4, <2>5 DEF TableStep
<1>4. CASE user.start > inFlight /\ Watch(user.addr, user.start, user.seen)
  <2> DEFINE c == user.addr
             n == user.start
  <2>1. /\ n > HeadNumber /\ n > inFlight /\ watch[c] = 0
        /\ \A a \in Addr : watch'[a] = IF a = c THEN n ELSE watch[a]
        /\ UNCHANGED <<boot, pending, hashes, head>>
    BY <1>2, <1>4 DEF Watch, TypeOK
  <2>2. n \in Nat /\ HeadNumber \in Nat /\ inFlight \in Int BY <1>2, HeightsFact DEF HeadNumber, TypeOK
  <2>3. Watch(c, n, HeadNumber) BY <1>2, <1>4
  <2> HIDE DEF c, n
  <2>4. c \in Addr /\ n \in Heights /\ n \in Starts /\ n # 0 BY <1>2 DEF c, n
  <2>5. FinalStays' BY <1>1 DEF FinalStays, OnLine, nodeVars
  <2>6. MissingAreSettled'
    <3> SUFFICES ASSUME head # NoHash, NEW m \in Heights, m <= Num[head], hashes[m] = NoHash,
                        ~ Settled(m)
                 PROVE  \A a \in Watched' : m < watch'[a]
      BY <1>1, <2>1 DEF MissingAreSettled, Settled, nodeVars
    <3>1. \A a \in Watched : m < watch[a] BY DEF MissingAreSettled
    <3>2. m < n BY <2>1, <2>2, HeightsFact DEF HeadNumber
    <3> QED BY <2>1, <3>1, <3>2 DEF Watched
  <2>7. BatchIsAbove' /\ BlockIsAbove'
    BY <1>1, <2>1 DEF BatchIsAbove, BlockIsAbove, Blocks, Rooted, nodeVars
  <2>8. ~ At("undo") /\ ~ At("apply") BY <1>2 DEF SyncAwaits, At
  <2>9. WatchesComeBetween'
    <3>1. \A a \in Watched' : watch'[a] \in Starts BY <2>1, <2>4 DEF WatchesComeBetween, Watched
    <3>2. ASSUME Watched # {}, head = NoHash, inFlight = FirstBlock PROVE FirstBlock' = FirstBlock
      <4> DEFINE old == {watch[a] : a \in Watched}
                 new == {watch'[a] : a \in Watched'}
      <4>1. FirstBlock = Min(old) /\ FirstBlock' = Min(new) BY <2>1, <3>2 DEF FirstBlock
      <4>2. Watched' = Watched \cup {c} BY <2>1, <2>4 DEF Watched
      <4>3. new = old \cup {n} BY <2>1, <2>4, <4>2 DEF Watched
      <4>4. old # {} /\ old \subseteq Nat
        <5>1. \A a \in Watched : watch[a] \in Nat BY HeightsFact DEF TypeOK, Watched
        <5> QED BY <3>2, <5>1
      <4>5. n > Min(old) BY <2>1, <3>2, <4>1
      <4> HIDE DEF old, new
      <4>6. Min(old) \in old /\ \A x \in old : Min(old) <= x BY <4>4, MinIsMember
      <4>7. Min(new) \in new /\ \A x \in new : Min(new) <= x BY <2>2, <4>3, <4>4, MinIsMember
      <4>8. Min(new) <= Min(old) BY <4>3, <4>6, <4>7
      <4>9. Min(new) \in old
        <5>1. Min(old) \in Nat BY <4>4, <4>6
        <5>2. Min(new) # n BY <2>2, <4>5, <4>8, <5>1
        <5> QED BY <4>3, <4>7, <5>2
      <4>10. Min(old) <= Min(new) BY <4>6, <4>9
      <4>11. Min(old) \in Nat /\ Min(new) \in Nat BY <4>4, <4>6, <4>9
      <4> QED BY <4>1, <4>8, <4>10, <4>11
    <3>3. Watched # {} => Watched' # {} BY <2>1, <2>4 DEF Watched
    <3> QED BY <1>1, <2>1, <2>8, <3>1, <3>2, <3>3 DEF WatchesComeBetween, At, SyncAwaits
  <2>10. WorkIsPending' /\ ItemIsPending'
    <3>1. \A i : Waiting(i)' = Waiting(i) BY <2>1 DEF Waiting
    <3>2. \A i \in Item : i.start = watch[i.addr] => i.start = watch'[i.addr]
      BY <2>1 DEF Item
    <3>3. Proving => sync.work \subseteq Item BY DEF ProcessesInv, ProofsAreRooted, Proving
    <3>4. sync.pc \in {"header", "proof", "store"} => sync.item \in Item
      BY DEF ProcessesInv, ProofsAreRooted
    <3>5. WorkIsPending' BY <1>1, <3>1, <3>2, <3>3 DEF WorkIsPending, Proving, At
    <3>6. ItemIsPending' BY <1>1, <3>1, <3>2, <3>4 DEF ItemIsPending, At
    <3> QED BY <3>5, <3>6
  <2> QED BY <2>3, <2>4, <2>5, <2>6, <2>7, <2>9, <2>10 DEF TableStep
<1> QED BY <1>1, <1>3, <1>4

\* A pass that ended, was dropped or died left everything in the tables.
LEMMA EndOrdered ==
  ASSUME FollowInv, UNCHANGED tables, UNCHANGED nodeVars, sync' = Idle, user'.pc = "idle",
         lazy' = NoLazy
  PROVE  TableStep /\ OrderInv'
<1>1. /\ sync'.pc = "idle" /\ sync'.finalized = 0 /\ sync'.srcHead = 0
      /\ DOMAIN sync'.queue = {}
  BY IdleFact
<1>2. 0 <= Num[final] BY FollowFacts
<1>3. Less(0, Horizon) = 0 BY SyncAssumption DEF Less
<1>4. FinalStays' /\ MissingAreSettled' /\ BatchIsAbove' /\ \A i : Waiting(i)' = Waiting(i)
  BY <1>1, <1>2, <1>3, StillOrdered DEF Blocks
<1>5. WatchesComeBetween' BY <1>1 DEF FollowInv, OrderInv, WatchesComeBetween, Watched, At, tables
<1>6. BlockIsAbove' /\ WorkIsPending' /\ ItemIsPending'
  BY <1>1 DEF BlockIsAbove, Blocks, WorkIsPending, ItemIsPending, Proving, At
<1> QED BY <1>4, <1>5, <1>6 DEF OrderInv, TableStep

-----------------------------------------------------------------------------
(* A pass: what it asks, and where it goes on *)

\* No other process is in the middle of something.
Alone == user.pc = "idle" /\ user' = user /\ lazy' = lazy

\* From one state of a pass to another where it has neither a block nor work in hand.
LEMMA PassOrdered ==
  ASSUME FollowInv, Alone, UNCHANGED archiveVars, UNCHANGED nodeVars,
         ~ At("idle"), ~ At("claim"),
         sync'.pc \in {"finalized", "check", "fork", "rollback", "loop", "fetch", "retry"},
         sync'.finalized <= Num[final], Less(sync'.srcHead, Horizon) <= Num[final],
         \/ Blocks' = {}
         \/ /\ sync'.finalized = sync.finalized
            /\ \A n \in Blocks' : n \in Blocks /\ sync'.queue[n] = sync.queue[n],
         sync'.pc = "finalized" => Blocks' = {},
         head # NoHash \/ sync'.next = sync.next
  PROVE  TableStep /\ OrderInv'
<1>1. UNCHANGED tables /\ inFlight' = inFlight BY DEF archiveVars, volatile
<1>2. FinalStays' /\ MissingAreSettled' /\ BatchIsAbove' BY <1>1, StillOrdered
<1>3. WatchesComeBetween'
  <2>1. /\ Watched' = Watched /\ FirstBlock' = FirstBlock /\ head' = head /\ watch' = watch
        /\ user'.pc = "idle" /\ lazy' = lazy
    BY <1>1 DEF Watched, FirstBlock, tables, Alone
  <2> QED BY <1>1, <2>1 DEF FollowInv, OrderInv, WatchesComeBetween, At
<1>4. BlockIsAbove' BY DEF BlockIsAbove
<1>5. WorkIsPending' /\ ItemIsPending' BY DEF WorkIsPending, ItemIsPending, Proving, At
<1> QED BY <1>1, <1>2, <1>3, <1>4, <1>5 DEF OrderInv, TableStep

LEMMA SameBatch ==
  ASSUME FollowInv, sync'.queue = sync.queue, sync'.finalized = sync.finalized,
         sync'.srcHead = sync.srcHead
  PROVE  /\ sync'.finalized <= Num[final] /\ Less(sync'.srcHead, Horizon) <= Num[final]
         /\ sync'.finalized = sync.finalized
         /\ \A n \in Blocks' : n \in Blocks /\ sync'.queue[n] = sync.queue[n]
BY DEF FollowInv, OrderInv, FinalStays, Blocks

LEMMA BeginOrdered ==
  ASSUME FollowInv, Alone, NEW m \in Budgets \cup {NoLimit}, NEW p \in BOOLEAN, Begin(m, p)
  PROVE  TableStep /\ OrderInv'
<1>1. /\ sync.pc = "idle" /\ UNCHANGED tables /\ UNCHANGED nodeVars
      /\ sync' = [sync EXCEPT !.pc = "claim", !.budget = m, !.prover = p]
  BY DEF Begin, BeginSync, At
<1>2. /\ sync'.pc = "claim" /\ sync'.queue = sync.queue /\ sync'.finalized = sync.finalized
      /\ sync'.srcHead = sync.srcHead
  BY <1>1, FollowFacts DEF Pass
<1>3. FinalStays' /\ MissingAreSettled' /\ BatchIsAbove' BY <1>1, <1>2, SameBatch, StillOrdered
<1>4. WatchesComeBetween'
  BY <1>1, <1>2 DEF FollowInv, OrderInv, WatchesComeBetween, Watched, At, tables, Alone
<1>5. BlockIsAbove' /\ WorkIsPending' /\ ItemIsPending'
  BY <1>1, <1>2
  DEF FollowInv, OrderInv, BlockIsAbove, Blocks, WorkIsPending, ItemIsPending, Proving, At
<1> QED BY <1>1, <1>3, <1>4, <1>5 DEF OrderInv, TableStep

LEMMA ClaimOrdered ==
  ASSUME FollowInv, Alone, Claim, sync'.pc # "idle"
  PROVE  TableStep /\ OrderInv'
<1>1. /\ sync.pc = "claim" /\ Watched # {} /\ inFlight' = FirstBlock
      /\ UNCHANGED tables /\ UNCHANGED nodeVars
      /\ sync' = [sync EXCEPT !.pc = "head", !.next = FirstBlock]
  BY IdleFact DEF Claim, ClaimStart, At, EndPass
<1>2. /\ sync'.pc = "head" /\ sync'.queue = sync.queue /\ sync'.finalized = sync.finalized
      /\ sync'.srcHead = sync.srcHead /\ sync'.next = FirstBlock
  BY <1>1, FollowFacts DEF Pass
<1>3. FinalStays' /\ MissingAreSettled' /\ BatchIsAbove' BY <1>1, <1>2, SameBatch, StillOrdered
<1>4. WatchesComeBetween'
  <2>1. /\ Watched' = Watched /\ FirstBlock' = FirstBlock /\ head' = head /\ watch' = watch
        /\ user'.pc = "idle" /\ lazy' = lazy
    BY <1>1 DEF Watched, FirstBlock, tables, Alone
  <2> QED BY <1>1, <1>2, <2>1 DEF FollowInv, OrderInv, WatchesComeBetween, At
<1>5. BlockIsAbove' /\ WorkIsPending' /\ ItemIsPending'
  BY <1>1, <1>2 DEF FollowInv, OrderInv, BlockIsAbove, Blocks, WorkIsPending, ItemIsPending, Proving, At
<1> QED BY <1>1, <1>3, <1>4, <1>5 DEF OrderInv, TableStep

\* The horizon under the node's head is final.
LEMMA AskHeadOrdered ==
  ASSUME FollowInv, FollowsOneLine, Alone, AskHead
  PROVE  TableStep /\ OrderInv'
<1>1. /\ sync.pc = "head" /\ UNCHANGED archiveVars /\ UNCHANGED nodeVars
      /\ sync' = [sync EXCEPT !.pc = "finalized", !.srcHead = Num[canon]]
  BY DEF AskHead, At, Local, SourceHead
<1>2. /\ sync'.pc = "finalized" /\ sync'.queue = sync.queue /\ sync'.finalized = sync.finalized
      /\ sync'.srcHead = Num[canon] /\ sync'.next = sync.next
  BY <1>1, FollowFacts DEF Pass
<1>3. Less(Num[canon], Horizon) <= Num[final]
  <2>1. Num[canon] <= Num[final] + FinalityLag BY DEF FollowInv, OrderInv, FinalStays
  <2>2. FinalityLag \in Nat /\ FinalityLag <= Horizon /\ Horizon \in Nat
    BY SyncAssumption DEF FollowsOneLine
  <2> QED BY <2>1, <2>2, FollowFacts DEF Less
<1>4. Blocks' = {} BY <1>1, <1>2 DEF FollowInv, OrderInv, BlockIsAbove, Blocks
<1> QED BY <1>1, <1>2, <1>3, <1>4, FollowFacts, PassOrdered DEF At

LEMMA AskFinalizedOrdered ==
  ASSUME FollowInv, Alone, AskFinalized
  PROVE  TableStep /\ OrderInv'
<1> DEFINE deepest == Less(sync.srcHead, Horizon)
           tagged == Max({deepest, Min({SourceFinalized, sync.srcHead})})
<1>1. PICK f \in {deepest, tagged} :
        /\ sync.pc = "finalized" /\ UNCHANGED archiveVars /\ UNCHANGED nodeVars
        /\ sync' = [sync EXCEPT !.finalized = f,
                                !.pc = IF head = NoHash THEN "loop" ELSE "check"]
  BY DEF AskFinalized, At, Local
<1>2. sync.srcHead \in Int /\ SourceFinalized \in Int /\ SourceFinalized = Num[final]
  BY FollowFacts, HeightsFact DEF SourceFinalized, Pass
<1>3. deepest \in Int /\ deepest <= Num[final]
  <2>1. sync.srcHead \in Heights BY FollowFacts DEF Pass
  <2> QED BY <2>1, LessFact, SyncAssumption, HeightsFact DEF FollowInv, OrderInv, FinalStays
<1> HIDE DEF deepest
<1>4. tagged <= Num[final]
  <2> DEFINE clamped == Min({SourceFinalized, sync.srcHead})
  <2>1. clamped \in {SourceFinalized, sync.srcHead} /\ clamped <= SourceFinalized
    BY <1>2, MinOfTwo
  <2>2. clamped \in Int BY <1>2, <2>1
  <2> HIDE DEF clamped
  <2>3. Max({deepest, clamped}) \in {deepest, clamped} BY <1>3, <2>2, MaxOfTwo
  <2>4. Max({deepest, clamped}) <= Num[final] BY <1>2, <1>3, <2>1, <2>2, <2>3
  <2> QED BY <2>4 DEF clamped
<1> HIDE DEF tagged
<1>5. /\ sync'.pc \in {"loop", "check"} /\ sync'.queue = sync.queue /\ sync'.finalized = f
      /\ sync'.srcHead = sync.srcHead /\ sync'.next = sync.next
  BY <1>1, FollowFacts DEF Pass
<1>6. f <= Num[final] BY <1>3, <1>4
<1>7. Blocks' = {} BY <1>1, <1>5 DEF FollowInv, OrderInv, BlockIsAbove, Blocks
<1>8. Less(sync.srcHead, Horizon) <= Num[final] BY DEF FollowInv, OrderInv, FinalStays
<1> QED BY <1>1, <1>5, <1>6, <1>7, <1>8, PassOrdered DEF At

LEMMA CheckHeadOrdered ==
  ASSUME FollowInv, Alone, CheckHead, sync'.pc # "idle"
  PROVE  TableStep /\ OrderInv'
<1>1. /\ sync.pc = "check" /\ UNCHANGED archiveVars /\ UNCHANGED nodeVars
      /\ \/ sync' = [sync EXCEPT !.pc = "loop"]
         \/ sync' = [sync EXCEPT !.pc = "fork", !.cursor = Num[head],
                                 !.floor = Less(Num[head], Horizon), !.mid = FALSE]
  BY IdleFact DEF CheckHead, At, EndPass
<1>2. /\ sync'.pc \in {"loop", "fork"} /\ sync'.queue = sync.queue
      /\ sync'.finalized = sync.finalized /\ sync'.srcHead = sync.srcHead
      /\ sync'.next = sync.next
  BY <1>1, FollowFacts DEF Pass
<1> QED BY <1>1, <1>2, SameBatch, PassOrdered DEF At

LEMMA ForkStepOrdered ==
  ASSUME FollowInv, Alone, ForkStep, sync'.pc # "idle"
  PROVE  TableStep /\ OrderInv'
<1>1. /\ sync.pc = "fork" /\ UNCHANGED archiveVars /\ UNCHANGED nodeVars
      /\ \/ sync' = [sync EXCEPT !.pc = "rollback",
                       !.lastFork = IF sync.mid THEN sync.cursor ELSE @]
         \/ sync' = [sync EXCEPT !.cursor = @ - 1]
  BY IdleFact DEF ForkStep, At, EndPass
<1>2. /\ sync'.pc \in {"rollback", "fork"} /\ sync'.queue = sync.queue
      /\ sync'.finalized = sync.finalized /\ sync'.srcHead = sync.srcHead
      /\ sync'.next = sync.next
  BY <1>1, FollowFacts DEF Pass
<1> QED BY <1>1, <1>2, SameBatch, PassOrdered DEF At

LEMMA LoopDoneOrdered ==
  ASSUME FollowInv, Alone, LoopDone
  PROVE  TableStep /\ OrderInv'
<1> DEFINE empty == <<>>
<1>1. /\ sync.pc = "loop" /\ UNCHANGED archiveVars /\ UNCHANGED nodeVars
      /\ sync' = [sync EXCEPT !.pc = "retry", !.queue = empty]
      /\ DOMAIN empty = {}
  BY EmptyFact DEF LoopDone, At, Local
<1> HIDE DEF empty
<1>2. /\ sync'.pc = "retry" /\ sync'.queue = empty
      /\ sync'.finalized = sync.finalized /\ sync'.srcHead = sync.srcHead
      /\ sync'.next = sync.next
  BY <1>1, FollowFacts DEF Pass
<1>3. Blocks' = {} BY <1>1, <1>2 DEF Blocks
<1>4. sync'.finalized <= Num[final] /\ Less(sync'.srcHead, Horizon) <= Num[final]
  BY <1>2 DEF FollowInv, OrderInv, FinalStays
<1> QED BY <1>1, <1>2, <1>3, <1>4, PassOrdered DEF At

LEMMA StartFetchOrdered ==
  ASSUME FollowInv, Alone, StartFetch
  PROVE  TableStep /\ OrderInv'
<1>1. PICK D : /\ sync.pc = "loop" /\ UNCHANGED archiveVars /\ UNCHANGED nodeVars
               /\ sync' = [sync EXCEPT !.pc = "fetch", !.queue = [n \in D |-> "asked"]]
  BY DEF StartFetch, At, Local
<1> DEFINE asked == [n \in D |-> "asked"]
<1>2. \A n \in DOMAIN asked : asked[n] = "asked" OBVIOUS
<1>3. sync' = [sync EXCEPT !.pc = "fetch", !.queue = asked] BY <1>1
<1> HIDE DEF asked
<1>4. /\ sync'.pc = "fetch" /\ sync'.queue = asked
      /\ sync'.finalized = sync.finalized /\ sync'.srcHead = sync.srcHead
      /\ sync'.next = sync.next
  BY <1>3, FollowFacts DEF Pass
<1>5. Blocks' = {} BY <1>2, <1>4 DEF Blocks
<1>6. sync'.finalized <= Num[final] /\ Less(sync'.srcHead, Horizon) <= Num[final]
  BY <1>4 DEF FollowInv, OrderInv, FinalStays
<1> QED BY <1>1, <1>4, <1>5, <1>6, PassOrdered DEF At

\* A block that is served is above the head, or the head's own header is there to tell.
LEMMA FetchedOrdered ==
  ASSUME FollowInv, Alone, NEW n \in Heights, FetchServed(n) \/ FetchFailed(n)
  PROVE  TableStep /\ OrderInv'
<1>1. PICK answer \in {SourceBlock(n), "failed"} : Fetched(n, answer)
  BY DEF FetchServed, FetchFailed
<1> DEFINE queue == [sync.queue EXCEPT ![n] = answer]
           pc == IF \E m \in DOMAIN queue : queue[m] = "asked" THEN "fetch" ELSE "loop"
<1>2. /\ sync.pc = "fetch" /\ n \in DOMAIN sync.queue
      /\ UNCHANGED archiveVars /\ UNCHANGED nodeVars
      /\ sync' = [sync EXCEPT !.queue = queue, !.pc = pc]
  BY <1>1 DEF Fetched, At, Local
<1>3. \A m \in DOMAIN queue : /\ m \in DOMAIN sync.queue
                              /\ queue[m] = IF m = n THEN answer ELSE sync.queue[m]
  <2>1. PICK D \in SUBSET Heights : sync.queue \in [D -> Answer] BY FollowFacts DEF Pass
  <2> QED BY <2>1
<1>4. pc \in {"fetch", "loop"} OBVIOUS
<1> HIDE DEF queue, pc
<1>5. /\ sync'.pc = pc /\ sync'.queue = queue
      /\ sync'.finalized = sync.finalized /\ sync'.srcHead = sync.srcHead
      /\ sync'.next = sync.next
  BY <1>2, FollowFacts DEF Pass
<1> USE DEF FollowInv, OrderInv
<1>6. UNCHANGED tables /\ inFlight' = inFlight BY <1>2 DEF archiveVars, volatile
<1>7. FinalStays' /\ MissingAreSettled'
  BY <1>2, <1>5, <1>6
  DEF FinalStays, OnLine, MissingAreSettled, Settled, Watched, tables, nodeVars
<1>8. BatchIsAbove'
  <2> SUFFICES ASSUME NEW m \in Blocks'
               PROVE  /\ Rooted(queue[m], m)
                      /\ head # NoHash /\ Num[head] < m /\ hashes[Num[head]] = NoHash =>
                           Line[queue[m]][Num[head]] = head
    BY <1>2, <1>5, <1>6 DEF BatchIsAbove, Rooted, tables, nodeVars
  <2>1. m \in DOMAIN queue /\ queue[m] \notin {NoHash, "asked", "failed"} BY <1>5 DEF Blocks
  <2>2. CASE m # n
    <3>1. m \in Blocks /\ queue[m] = sync.queue[m] BY <1>3, <2>1, <2>2 DEF Blocks
    <3> QED BY <3>1 DEF BatchIsAbove
  <2>3. CASE m = n
    <3>1. queue[m] = SourceBlock(n) /\ SourceBlock(n) # NoHash BY <1>3, <2>1, <2>3
    <3>2. \A k \in Heights : k <= n /\ k <= Num[final] => Line[queue[m]][k] = Line[final][k]
      BY <3>1, FinalIsServed
    <3>3. Rooted(queue[m], m)
      <4> SUFFICES ASSUME NEW k \in Heights, k <= m, k <= sync.finalized
                   PROVE  Line[queue[m]][k] = Line[final][k]
        BY DEF Rooted
      <4>1. k <= Num[final] BY FollowFacts, HeightsFact
      <4> QED BY <2>3, <3>2, <4>1
    <3>4. ASSUME head # NoHash, Num[head] < m, hashes[Num[head]] = NoHash
          PROVE  Line[queue[m]][Num[head]] = head
      <4>1. Num[head] <= Num[final] /\ Line[head][Num[head]] = Line[final][Num[head]]
        BY <3>4 DEF MissingAreSettled, Settled
      <4>2. head \in Hash /\ Num[head] \in Heights /\ Num[head] <= n
        BY <2>3, <3>4, FollowFacts, HeightsFact
      <4>3. Line[head][Num[head]] = head BY <4>2, TreeAssumption
      <4> QED BY <3>2, <4>1, <4>2, <4>3
    <3> QED BY <3>3, <3>4
  <2> QED BY <2>2, <2>3
<1>9. WatchesComeBetween'
  <2>1. /\ Watched' = Watched /\ FirstBlock' = FirstBlock /\ head' = head /\ watch' = watch
        /\ user'.pc = "idle" /\ lazy' = lazy
    BY <1>6 DEF Watched, FirstBlock, tables, Alone
  <2> QED BY <1>2, <1>4, <1>5, <1>6, <2>1 DEF WatchesComeBetween, At
<1>10. BlockIsAbove' /\ WorkIsPending' /\ ItemIsPending'
  BY <1>4, <1>5 DEF BlockIsAbove, WorkIsPending, ItemIsPending, Proving, At
<1> QED BY <1>6, <1>7, <1>8, <1>9, <1>10 DEF TableStep

-----------------------------------------------------------------------------
(* A pass: rollbacks and blocks *)

LEMMA RollbackScanOrdered ==
  ASSUME FollowInv, Alone, RollbackScan
  PROVE  TableStep /\ OrderInv'
<1>1. /\ sync.pc = "rollback" /\ UNCHANGED archiveVars /\ UNCHANGED nodeVars
      /\ sync' = [sync EXCEPT !.pc = "undo", !.snap = watch]
  BY DEF RollbackScan, At, Local
<1>2. /\ sync'.pc = "undo" /\ sync'.queue = sync.queue /\ sync'.snap = watch
      /\ sync'.finalized = sync.finalized /\ sync'.srcHead = sync.srcHead
      /\ sync'.next = sync.next
  BY <1>1, FollowFacts DEF Pass
<1>3. UNCHANGED tables /\ inFlight' = inFlight BY <1>1 DEF archiveVars, volatile
<1>4. FinalStays' /\ MissingAreSettled' /\ BatchIsAbove'
  BY <1>1, <1>2, <1>3, SameBatch, StillOrdered
<1>5. WatchesComeBetween'
  <2>1. /\ Watched' = Watched /\ FirstBlock' = FirstBlock /\ head' = head /\ watch' = watch
        /\ user'.pc = "idle" /\ lazy' = lazy
    BY <1>3 DEF Watched, FirstBlock, tables, Alone
  <2> QED BY <1>1, <1>2, <1>3, <2>1 DEF FollowInv, OrderInv, WatchesComeBetween, At
<1>6. BlockIsAbove' /\ WorkIsPending' /\ ItemIsPending'
  BY <1>2 DEF BlockIsAbove, WorkIsPending, ItemIsPending, Proving, At
<1> QED BY <1>3, <1>4, <1>5, <1>6 DEF OrderInv, TableStep

\* A rollback goes to an ancestor of the head, whose header is kept.
LEMMA RollbackOrdered ==
  ASSUME FollowInv, Alone, Rollback
  PROVE  TableStep /\ OrderInv'
<1> DEFINE b == sync.cursor
<1>1. /\ sync.pc = "undo" /\ RollbackTo(b, sync.snap) /\ UNCHANGED nodeVars
      /\ sync' = [sync EXCEPT !.pc = "loop", !.next = sync.cursor + 1,
                    !.cursor = 0, !.floor = 0, !.mid = FALSE, !.snap = Idle.snap]
  BY DEF Rollback, At
<1>2. /\ sync'.pc = "loop" /\ sync'.queue = sync.queue
      /\ sync'.finalized = sync.finalized /\ sync'.srcHead = sync.srcHead
  BY <1>1, FollowFacts DEF Pass
<1>3. b \in Heights BY FollowFacts DEF Pass
<1> HIDE DEF b
<1> USE DEF FollowInv, OrderInv
<1>4. sync.snap = watch BY <1>1 DEF WatchesComeBetween, At
<1>5. /\ head # NoHash /\ b <= Num[head] /\ hashes[b] = Line[head][b] /\ hashes[b] # NoHash
      /\ head' = hashes[b] /\ watch' = watch
      /\ \A n \in Heights : hashes'[n] = IF n > b THEN NoHash ELSE hashes[n]
  BY <1>1, <1>3 DEF RollbackTo, StoreHolds, HashesAreHeld
<1>6. TableStep BY <1>1, <1>3, <1>4, <1>5 DEF TableStep, Reorg
<1>7. head \in Hash /\ Num[head'] = b /\ head' # NoHash
      /\ \A n \in Heights : n <= b => Line[head'][n] = Line[head][n]
  BY <1>3, <1>5, FollowFacts, LineFact
<1>8. FinalStays' BY <1>1, <1>2 DEF FinalStays, OnLine, nodeVars
<1>9. hashes'[Num[head']] # NoHash
  BY <1>3, <1>5, <1>7, HeightsFact
<1>10. MissingAreSettled'
  <2> SUFFICES ASSUME NEW n \in Heights, n <= b, hashes'[n] = NoHash
               PROVE  Settled(n)' \/ \A a \in Watched' : n < watch'[a]
    BY <1>7, <1>9 DEF MissingAreSettled
  <2>1. hashes[n] = NoHash /\ n <= Num[head]
    BY <1>3, <1>5, FollowFacts, HeightsFact
  <2>2. Settled(n) \/ \A a \in Watched : n < watch[a] BY <1>5, <2>1 DEF MissingAreSettled
  <2>3. Settled(n) => Settled(n)' BY <1>1, <1>7 DEF Settled, nodeVars
  <2> QED BY <1>5, <2>2, <2>3 DEF Watched
<1>11. BatchIsAbove'
  BY <1>1, <1>2, <1>9 DEF BatchIsAbove, Blocks, Rooted, nodeVars
<1>12. WatchesComeBetween'
  BY <1>1, <1>2, <1>5, <1>7 DEF WatchesComeBetween, Watched, At, Alone
<1>13. BlockIsAbove' /\ WorkIsPending' /\ ItemIsPending'
  BY <1>2 DEF BlockIsAbove, WorkIsPending, ItemIsPending, Proving, At
<1> QED BY <1>6, <1>8, <1>10, <1>11, <1>12, <1>13

\* The block that is taken is a child of the head: the header says so, or the batch.
LEMMA TakeBlockOrdered ==
  ASSUME FollowInv, Alone, TakeBlock, sync'.pc # "idle"
  PROVE  TableStep /\ OrderInv'
<1> DEFINE h == sync.queue[sync.next]
           rest == [n \in DOMAIN sync.queue \ {sync.next} |-> sync.queue[n]]
           empty == <<>>
<1>1. sync.pc = "loop" /\ QueueReady BY DEF TakeBlock, At
<1>2. /\ UNCHANGED archiveVars /\ UNCHANGED nodeVars
      /\ \/ sync' = [sync EXCEPT !.pc = "retry", !.queue = empty]
         \/ sync' = [sync EXCEPT !.pc = "fork", !.queue = rest, !.mid = TRUE,
                       !.cursor = sync.next - 1, !.floor = Less(sync.next - 1, Horizon)]
         \/ /\ h # "failed" /\ h # NoHash /\ ~ Unlinked(h)
            /\ sync' = [sync EXCEPT !.pc = "snapshot", !.queue = rest, !.blk = h]
  BY IdleFact DEF TakeBlock, At, EndPass
<1>3. /\ sync.next \in DOMAIN sync.queue /\ sync.next \in Heights
      /\ h # "failed" /\ h # NoHash => h \in Hash /\ Num[h] = sync.next
  BY <1>1, FrontFact DEF FollowInv
<1>4. \A n \in DOMAIN rest : n \in DOMAIN sync.queue /\ rest[n] = sync.queue[n] OBVIOUS
<1>5. DOMAIN empty = {} BY EmptyFact
<1> HIDE DEF rest, empty
<1>6. UNCHANGED tables /\ inFlight' = inFlight BY <1>2 DEF archiveVars, volatile
<1>7. CASE sync' = [sync EXCEPT !.pc = "retry", !.queue = empty]
  <2>1. /\ sync'.pc = "retry" /\ sync'.queue = empty
        /\ sync'.finalized = sync.finalized /\ sync'.srcHead = sync.srcHead
        /\ sync'.next = sync.next
    BY <1>7, FollowFacts DEF Pass
  <2>2. Blocks' = {} BY <1>5, <2>1 DEF Blocks
  <2>3. sync'.finalized <= Num[final] /\ Less(sync'.srcHead, Horizon) <= Num[final]
    BY <2>1 DEF FollowInv, OrderInv, FinalStays
  <2> QED BY <1>1, <1>2, <2>1, <2>2, <2>3, PassOrdered DEF At
<1>8. ASSUME sync'.queue = rest, sync'.finalized = sync.finalized, sync'.srcHead = sync.srcHead
      PROVE  /\ sync'.finalized <= Num[final] /\ Less(sync'.srcHead, Horizon) <= Num[final]
             /\ \A n \in Blocks' : n \in Blocks /\ sync'.queue[n] = sync.queue[n]
  BY <1>4, <1>8 DEF FollowInv, OrderInv, FinalStays, Blocks
<1>9. CASE sync' = [sync EXCEPT !.pc = "fork", !.queue = rest, !.mid = TRUE,
                      !.cursor = sync.next - 1, !.floor = Less(sync.next - 1, Horizon)]
  <2>1. /\ sync'.pc = "fork" /\ sync'.queue = rest
        /\ sync'.finalized = sync.finalized /\ sync'.srcHead = sync.srcHead
        /\ sync'.next = sync.next
    BY <1>9, FollowFacts DEF Pass
  <2> QED BY <1>1, <1>2, <1>8, <2>1, PassOrdered DEF At
<1>10. CASE /\ h # "failed" /\ h # NoHash /\ ~ Unlinked(h)
            /\ sync' = [sync EXCEPT !.pc = "snapshot", !.queue = rest, !.blk = h]
  <2>1. /\ sync'.pc = "snapshot" /\ sync'.queue = rest /\ sync'.blk = h
        /\ sync'.finalized = sync.finalized /\ sync'.srcHead = sync.srcHead
        /\ sync'.next = sync.next
    BY <1>10, FollowFacts DEF Pass
  <2>2. h \in Hash /\ Num[h] = sync.next /\ h # "asked"
    BY <1>1, <1>3, <1>10 DEF FollowInv, ProcessesInv, BatchIsNumbered
  <2>3. FinalStays' /\ MissingAreSettled' /\ BatchIsAbove'
    BY <1>2, <1>6, <1>8, <2>1, StillOrdered
  <2>4. sync.next \in Blocks BY <1>3, <1>10, <2>2 DEF Blocks
  <2>5. Rooted(h, sync.next)
    BY <2>4 DEF FollowInv, OrderInv, BatchIsAbove
  <2>6. ASSUME head # NoHash PROVE Parent(h) = head
    <3>1. /\ head \in Hash /\ Num[head] \in Heights /\ Num[head] \in Nat
          /\ sync.next = Num[head] + 1
      BY <1>1, <2>6, FollowFacts DEF FollowInv, ProcessesInv, NextIsAbove
    <3>2. Num[h] > 0 /\ Num[h] - 1 = Num[head] /\ Parent(h) = Line[h][Num[head]]
      BY <2>2, <3>1 DEF Parent
    <3>3. hashes[Num[head]] \in {NoHash, Parent(h)} BY <1>10, <3>2 DEF Unlinked
    <3>4. CASE hashes[Num[head]] = NoHash
      BY <2>4, <2>6, <3>1, <3>2, <3>4 DEF FollowInv, OrderInv, BatchIsAbove
    <3>5. CASE hashes[Num[head]] # NoHash
      <4>1. hashes[Num[head]] = Line[head][Num[head]]
        BY <3>1, <3>5 DEF FollowInv, StoreHolds, HashesAreHeld
      <4> QED BY <3>1, <3>3, <3>5, <4>1, TreeAssumption
    <3> QED BY <3>4, <3>5
  <2>7. BlockIsAbove'
    BY <1>2, <1>6, <2>1, <2>5, <2>6 DEF BlockIsAbove, Rooted, tables, nodeVars, Parent
  <2>8. WatchesComeBetween'
    <3>1. /\ Watched' = Watched /\ FirstBlock' = FirstBlock /\ head' = head /\ watch' = watch
          /\ user'.pc = "idle" /\ lazy' = lazy
      BY <1>6 DEF Watched, FirstBlock, tables, Alone
    <3> QED BY <1>1, <1>6, <2>1, <3>1 DEF FollowInv, OrderInv, WatchesComeBetween, At
  <2>9. WorkIsPending' /\ ItemIsPending'
    BY <2>1 DEF WorkIsPending, ItemIsPending, Proving, At
  <2> QED BY <1>6, <2>3, <2>7, <2>8, <2>9 DEF OrderInv, TableStep
<1> QED BY <1>2, <1>7, <1>9, <1>10

LEMMA SnapshotOrdered ==
  ASSUME FollowInv, Alone, Snapshot
  PROVE  TableStep /\ OrderInv'
<1>1. /\ sync.pc = "snapshot" /\ UNCHANGED tables /\ inFlight' = sync.next /\ UNCHANGED nodeVars
      /\ sync' = [sync EXCEPT !.pc = "apply", !.snap = watch]
  BY DEF Snapshot, WatchlistFor, At
<1>2. /\ sync'.pc = "apply" /\ sync'.queue = sync.queue /\ sync'.snap = watch
      /\ sync'.finalized = sync.finalized /\ sync'.srcHead = sync.srcHead
      /\ sync'.next = sync.next /\ sync'.blk = sync.blk
  BY <1>1, FollowFacts DEF Pass
<1>3. FinalStays' /\ MissingAreSettled' /\ BatchIsAbove' BY <1>1, <1>2, SameBatch, StillOrdered
<1>4. WatchesComeBetween'
  <2>1. /\ Watched' = Watched /\ FirstBlock' = FirstBlock /\ head' = head /\ watch' = watch
        /\ user'.pc = "idle" /\ lazy' = lazy
    BY <1>1 DEF Watched, FirstBlock, tables, Alone
  <2> QED BY <1>1, <1>2, <2>1 DEF FollowInv, OrderInv, WatchesComeBetween, At
<1>5. BlockIsAbove'
  BY <1>1, <1>2 DEF FollowInv, OrderInv, BlockIsAbove, Rooted, tables, nodeVars
<1>6. WorkIsPending' /\ ItemIsPending'
  BY <1>2 DEF WorkIsPending, ItemIsPending, Proving, At
<1> QED BY <1>1, <1>3, <1>4, <1>5, <1>6 DEF OrderInv, TableStep

\* What waits was seen at the head or under it.
LEMMA WaitingIsCovered ==
  ASSUME FollowInv, NEW a \in Addr, NEW s \in Slot, pending[a][s] # 0
  PROVE  /\ head # NoHash /\ pending[a][s] <= Num[head] /\ watch[a] <= pending[a][s]
         /\ watch[a] # 0
         /\ boot[a][s].tag = "pending" /\ boot[a][s].seen = pending[a][s]
<1>1. PendingMirrorsBoot /\ Told(boot[a][s], watch, head, a, s)
  BY DEF FollowInv, StoreHolds, StateInv, StatesAreTold
<1>2. boot[a][s].tag = "pending" /\ boot[a][s].seen = pending[a][s]
  BY <1>1 DEF PendingMirrorsBoot
<1> QED BY <1>1, <1>2 DEF Told, Unresolved, Covered

\* What a block leaves to prove is what the pending table then says of it.
LEMMA FreshIsWaiting ==
  ASSUME FollowInv, NEW h \in Hash, head # NoHash => Num[head] < Num[h],
         NEW below, ApplyBlock(h, watch, below), NEW i \in FreshWork(h, watch)
  PROVE  /\ i.addr \in Addr /\ i.start = watch[i.addr] /\ i.slots = Waiting(i)' /\ i.slots # {}
<1>1. PICK a \in Live(h, watch) : /\ FreshSlots(h, a) # {}
                                  /\ i = [addr |-> a, start |-> watch[a], seen |-> Num[h],
                                          slots |-> FreshSlots(h, a)]
  BY DEF FreshWork
<1>2. a \in Addr /\ watch[a] \in Nat /\ watch[a] # 0 /\ Num[h] \in Nat /\ Num[h] # 0
  BY <1>1, FollowFacts, HeightsFact DEF Live, TypeOK
<1>3. FreshSlots(h, a) \subseteq Slot BY <1>2, DataAssumption DEF FreshSlots, Written, Change
<1>4. \A s \in Slot : pending'[a][s] = PendingAfter(h, a, s) BY <1>1, <1>2 DEF ApplyBlock
<1>5. ASSUME NEW s \in Slot PROVE pending[a][s] # Num[h]
  <2>1. CASE pending[a][s] = 0 BY <1>2, <2>1
  <2>2. CASE pending[a][s] # 0
    <3>1. head # NoHash /\ pending[a][s] <= Num[head] BY <1>2, <2>2, WaitingIsCovered
    <3>2. pending[a][s] \in Nat /\ Num[head] \in Nat
      BY <1>2, <3>1, FollowFacts, HeightsFact DEF TypeOK
    <3> QED BY <1>2, <3>1, <3>2
  <2> QED BY <2>1, <2>2
<1>6. \A s \in Slot : pending'[a][s] = Num[h] <=> s \in FreshSlots(h, a)
  BY <1>2, <1>4, <1>5 DEF PendingAfter
<1> QED BY <1>1, <1>2, <1>3, <1>6 DEF Waiting

LEMMA ApplyOrdered ==
  ASSUME FollowInv, Alone, Apply
  PROVE  TableStep /\ OrderInv'
<1> DEFINE fresh == IF sync.prover THEN FreshWork(sync.blk, sync.snap) ELSE {}
           left == IF sync.budget = NoLimit THEN sync.budget ELSE sync.budget - 1
           h == sync.blk
<1>1. /\ sync.pc = "apply" /\ ApplyBlock(h, sync.snap, PruneBelow) /\ UNCHANGED nodeVars
      /\ \/ sync' = [sync EXCEPT !.blk = NoHash, !.snap = Idle.snap, !.budget = left,
                                 !.pc = "loop", !.next = @ + 1]
         \/ sync' = [sync EXCEPT !.blk = NoHash, !.snap = Idle.snap, !.budget = left,
                                 !.pc = "pick", !.work = fresh]
  BY FollowFacts DEF Apply, At, Pass
<1> HIDE DEF left
<1>2. /\ sync'.queue = sync.queue /\ sync'.finalized = sync.finalized
      /\ sync'.srcHead = sync.srcHead
      /\ sync'.pc = "loop" \/ (sync'.pc = "pick" /\ sync'.work = fresh)
  <2> HIDE DEF fresh
  <2> QED BY <1>1, FollowFacts DEF Pass
<1> USE DEF FollowInv, OrderInv
<1>3. /\ h \in Hash /\ Num[h] = sync.next /\ Num[h] \in Heights /\ Num[h] \in Nat /\ h # NoHash
      /\ head # NoHash => /\ head \in Hash /\ Num[h] = Num[head] + 1 /\ Parent(h) = head
                          /\ Num[head] \in Heights /\ Num[head] \in Nat
      /\ Rooted(h, Num[h])
  BY <1>1, FollowFacts, HeightsFact DEF ProcessesInv, BatchIsNumbered, NextIsAbove, BlockIsAbove
<1>4. /\ sync.snap = watch /\ Watched # {}
      /\ head = NoHash => Num[h] = FirstBlock
  BY <1>1, <1>3 DEF WatchesComeBetween, At
<1>5. PruneBelow \in Heights /\ PruneBelow <= sync.finalized
  <2>1. sync.srcHead \in Heights /\ sync.finalized \in Heights /\ Window + 1 \in Nat
    BY FollowFacts, SyncAssumption DEF Pass
  <2>2. Less(sync.srcHead, Window + 1) \in Heights BY <2>1, LessFact
  <2>3. sync.finalized \in Int /\ Less(sync.srcHead, Window + 1) \in Int
    BY <2>1, <2>2, HeightsFact
  <2>4. /\ PruneBelow \in {sync.finalized, Less(sync.srcHead, Window + 1)}
        /\ PruneBelow <= sync.finalized
    BY <2>3, MinOfTwo DEF PruneBelow
  <2> QED BY <2>1, <2>2, <2>4
<1> DEFINE below == PruneBelow
<1> HIDE DEF h, below
<1>6. /\ ApplyBlock(h, watch, below) /\ below \in Heights /\ below \in Nat
      /\ below <= sync.finalized /\ sync.finalized <= Num[final] /\ sync.finalized \in Nat
      /\ Num[final] \in Nat
  BY <1>1, <1>4, <1>5, FollowFacts, HeightsFact DEF below
<1>7. /\ TableStep
      /\ head # NoHash => \A n \in Heights : n <= Num[head] => Line[h][n] = Line[head][n]
      /\ head = NoHash => \A a \in Addr : watch[a] # 0 => Num[h] <= watch[a]
  <2>1. Follows(h) BY <1>3, <1>4 DEF Follows, FirstBlock
  <2>2. TableStep BY <1>3, <1>6, <2>1 DEF TableStep, Extend
  <2> QED BY <1>3, <2>1, <2>2, FollowFacts, FollowsFact
<1>8. /\ head' = h /\ watch' = watch /\ inFlight' = inFlight
      /\ \A n \in Heights : hashes'[n] = IF n < below THEN NoHash ELSE IF n = Num[h] THEN h
                                         ELSE hashes[n]
  BY <1>6 DEF ApplyBlock, HashesAfter, volatile
<1>9. FinalStays' BY <1>1, <1>2 DEF FinalStays, OnLine, nodeVars
\* What was pruned is final.
<1>10. ASSUME NEW n \in Heights, n <= Num[h], n < below
       PROVE  Settled(n)'
  <2>1. n <= sync.finalized /\ n <= Num[final] BY <1>6, <1>10, HeightsFact
  <2> QED BY <1>1, <1>3, <1>8, <1>10, <2>1 DEF Settled, Rooted, nodeVars
<1>11. hashes'[Num[h]] = NoHash => Num[h] < below BY <1>3, <1>8
<1>12. MissingAreSettled'
  <2> SUFFICES ASSUME NEW n \in Heights, n <= Num[h], hashes'[n] = NoHash, ~ (n < below)
               PROVE  Settled(n)' \/ \A a \in Watched' : n < watch'[a]
    BY <1>3, <1>8, <1>10, <1>11 DEF MissingAreSettled
  <2>1. n \in Nat /\ n # Num[h] /\ hashes[n] = NoHash /\ n < Num[h]
    BY <1>3, <1>8, HeightsFact
  <2>2. CASE head = NoHash
    <3>1. \A a \in Watched : watch[a] \in Nat /\ Num[h] <= watch[a]
      BY <1>7, <2>2, FollowFacts, HeightsFact DEF Watched, TypeOK
    <3> QED BY <1>3, <1>8, <2>1, <3>1 DEF Watched
  <2>3. CASE head # NoHash
    <3>1. n <= Num[head] BY <1>3, <2>1, <2>3
    <3>2. Settled(n) \/ \A a \in Watched : n < watch[a]
      BY <2>1, <2>3, <3>1 DEF MissingAreSettled
    <3>3. Line[h][n] = Line[head][n] BY <1>7, <2>3, <3>1
    <3>4. Settled(n) => Settled(n)' BY <1>1, <1>8, <3>3 DEF Settled, nodeVars
    <3> QED BY <1>8, <3>2, <3>4 DEF Watched
  <2> QED BY <2>2, <2>3
<1>13. BatchIsAbove'
  <2> SUFFICES ASSUME NEW n \in Blocks
               PROVE  /\ Rooted(sync.queue[n], n)
                      /\ Num[h] < n /\ hashes'[Num[h]] = NoHash => Line[sync.queue[n]][Num[h]] = h
    BY <1>1, <1>2, <1>8 DEF BatchIsAbove, Blocks, Rooted, nodeVars
  <2>1. Rooted(sync.queue[n], n) BY DEF BatchIsAbove
  <2>2. ASSUME Num[h] < n, hashes'[Num[h]] = NoHash PROVE Line[sync.queue[n]][Num[h]] = h
    <3>1. Num[h] <= sync.finalized BY <1>3, <1>6, <1>11, <2>2
    <3>2. Line[h][Num[h]] = Line[final][Num[h]] BY <1>3, <3>1 DEF Rooted
    <3>3. n \in Nat
      <4>1. PICK D \in SUBSET Heights : sync.queue \in [D -> Answer] BY FollowFacts DEF Pass
      <4> QED BY <4>1, HeightsFact DEF Blocks
    <3>4. Line[sync.queue[n]][Num[h]] = Line[final][Num[h]] BY <1>3, <2>1, <2>2, <3>1, <3>3 DEF Rooted
    <3> QED BY <1>3, <3>2, <3>4, TreeAssumption
  <2> QED BY <2>1, <2>2
<1>14. WatchesComeBetween'
  BY <1>1, <1>2, <1>3, <1>4, <1>8 DEF WatchesComeBetween, Watched, At, Alone
<1>15. BlockIsAbove' /\ ItemIsPending' BY <1>2 DEF BlockIsAbove, ItemIsPending, At
<1>16. WorkIsPending'
  <2> SUFFICES ASSUME sync'.pc = "pick", NEW i \in sync'.work
               PROVE  i.slots = Waiting(i)' /\ i.slots # {} /\ i.start = watch'[i.addr]
    BY <1>2 DEF WorkIsPending, Proving, At
  <2>1. i \in FreshWork(h, watch) BY <1>2, <1>4 DEF h
  <2>2. head # NoHash => Num[head] < Num[h] BY <1>3
  <2> QED BY <1>3, <1>6, <1>8, <2>1, <2>2, FreshIsWaiting
<1> QED BY <1>7, <1>9, <1>12, <1>13, <1>14, <1>15, <1>16

-----------------------------------------------------------------------------
(* A pass: the proofs it stores *)

\* From one step to the next of the proofs, where only headers come and slots stop waiting.
LEMMA WorkOrdered ==
  ASSUME FollowInv, Alone, UNCHANGED nodeVars, ~ At("idle"), ~ At("claim"),
         watch' = watch, head' = head, inFlight' = inFlight,
         \A n \in Heights : hashes'[n] = NoHash => hashes[n] = NoHash,
         sync'.queue = sync.queue, sync'.finalized = sync.finalized,
         sync'.srcHead = sync.srcHead, sync'.next = sync.next,
         sync'.pc \in {"groups", "pick", "header", "proof", "store"},
         WorkIsPending', ItemIsPending'
  PROVE  OrderInv'
<1> USE DEF FollowInv, OrderInv
<1>1. FinalStays' BY DEF FinalStays, OnLine, nodeVars
<1>2. head # NoHash => Num[head] \in Heights BY FollowFacts
<1>3. MissingAreSettled'
  BY <1>2 DEF MissingAreSettled, Settled, Watched, nodeVars
<1>4. BatchIsAbove' BY <1>2 DEF BatchIsAbove, Blocks, Rooted, nodeVars
<1>5. WatchesComeBetween'
  <2>1. /\ Watched' = Watched /\ FirstBlock' = FirstBlock /\ user'.pc = "idle" /\ lazy' = lazy
    BY DEF Watched, FirstBlock, Alone
  <2> QED BY <2>1 DEF WatchesComeBetween, At
<1>6. BlockIsAbove' BY DEF BlockIsAbove
<1> QED BY <1>1, <1>3, <1>4, <1>5, <1>6

\* An address has one item for the slots that one block wrote first.
LEMMA OneItem ==
  ASSUME FollowInv, Proving, NEW i \in sync.work, NEW j \in sync.work,
         i.addr = j.addr, i.seen = j.seen
  PROVE  i = j
<1>1. i \in Item /\ j \in Item
  BY DEF FollowInv, ProcessesInv, ProofsAreRooted, Proving
<1>2. i.slots = Waiting(i) /\ j.slots = Waiting(j) /\ i.start = j.start
  BY DEF FollowInv, OrderInv, WorkIsPending
<1>3. Waiting(i) = Waiting(j) BY DEF Waiting
<1> QED BY <1>1, <1>2, <1>3 DEF Item

LEMMA RetryScanOrdered ==
  ASSUME FollowInv, Alone, RetryScan, sync'.pc # "idle"
  PROVE  TableStep /\ OrderInv'
<1> DEFINE groups == PendingGroups
           yes == TRUE
<1>1. /\ sync.pc = "retry" /\ UNCHANGED archiveVars /\ UNCHANGED nodeVars
      /\ sync' = [sync EXCEPT !.pc = "groups", !.retry = yes, !.work = groups]
  BY IdleFact DEF RetryScan, At, EndPass
<1>2. \A i \in groups : i.slots = Waiting(i) /\ i.slots # {}
  BY DEF PendingGroups, Waiting
<1> HIDE DEF groups, yes
<1>3. /\ sync'.pc = "groups" /\ sync'.queue = sync.queue /\ sync'.work = groups
      /\ sync'.finalized = sync.finalized /\ sync'.srcHead = sync.srcHead
      /\ sync'.next = sync.next
  BY <1>1, FollowFacts DEF Pass
<1>4. UNCHANGED tables /\ inFlight' = inFlight BY <1>1 DEF archiveVars, volatile
<1>5. WorkIsPending' BY <1>2, <1>3, <1>4 DEF WorkIsPending, Proving, Waiting, tables
<1>6. ItemIsPending' BY <1>3 DEF ItemIsPending, At
<1> QED BY <1>1, <1>3, <1>4, <1>5, <1>6, WorkOrdered DEF TableStep, tables, At

LEMMA RetryGroupsOrdered ==
  ASSUME FollowInv, Alone, RetryGroups
  PROVE  TableStep /\ OrderInv'
<1> DEFINE work == {[i EXCEPT !.start = watch[i.addr]] : i \in {j \in sync.work : watch[j.addr] # 0}}
<1>1. /\ sync.pc = "groups" /\ UNCHANGED archiveVars /\ UNCHANGED nodeVars
      /\ sync' = [sync EXCEPT !.pc = "pick", !.work = work]
  BY DEF RetryGroups, At, Local
<1>2. ASSUME NEW k \in work
      PROVE  k.slots = Waiting(k) /\ k.slots # {} /\ k.start = watch[k.addr]
  <2>1. PICK i \in sync.work : k = [i EXCEPT !.start = watch[i.addr]] OBVIOUS
  <2>2. i \in Group BY <1>1 DEF FollowInv, ProcessesInv, ProofsAreRooted
  <2>3. i.slots = Waiting(i) /\ i.slots # {}
    BY <1>1 DEF FollowInv, OrderInv, WorkIsPending, At
  <2>4. k.addr = i.addr /\ k.seen = i.seen /\ k.slots = i.slots /\ k.start = watch[i.addr]
    BY <2>1, <2>2 DEF Group
  <2> QED BY <2>3, <2>4 DEF Waiting
<1> HIDE DEF work
<1>3. /\ sync'.pc = "pick" /\ sync'.queue = sync.queue /\ sync'.work = work
      /\ sync'.finalized = sync.finalized /\ sync'.srcHead = sync.srcHead
      /\ sync'.next = sync.next
  BY <1>1, FollowFacts DEF Pass
<1>4. UNCHANGED tables /\ inFlight' = inFlight BY <1>1 DEF archiveVars, volatile
<1>5. WorkIsPending' BY <1>2, <1>3, <1>4 DEF WorkIsPending, Proving, Waiting, tables
<1>6. ItemIsPending' BY <1>3 DEF ItemIsPending, At
<1> QED BY <1>1, <1>3, <1>4, <1>5, <1>6, WorkOrdered DEF TableStep, tables, At

\* Slots are given up as the pending table says, whole groups at a time.
LEMMA PickItemOrdered ==
  ASSUME FollowInv, Alone, PickItem
  PROVE  TableStep /\ OrderInv'
<1>1. sync.pc = "pick" /\ UNCHANGED nodeVars /\ Proving BY DEF PickItem, At, Proving
<1>2. PICK item \in sync.work :
        \/ /\ \/ watch[item.addr] # 0 /\ MarkLost(item.addr, item.slots, item.seen)
              \/ UNCHANGED archiveVars
           /\ sync' = [sync EXCEPT !.work = @ \ {item}]
        \/ /\ UNCHANGED archiveVars
           /\ sync' = [sync EXCEPT !.work = @ \ {item}, !.item = item,
                         !.root = hashes[item.seen - 1],
                         !.pc = IF hashes[item.seen - 1] = NoHash THEN "header" ELSE "proof"]
  BY FollowFacts DEF PickItem, Pass
<1> USE DEF FollowInv, OrderInv
<1>3. /\ sync.work \subseteq Item /\ item \in Item
      /\ \A j \in sync.work : j.slots = Waiting(j) /\ j.slots # {} /\ j.start = watch[j.addr]
  BY <1>1 DEF ProcessesInv, ProofsAreRooted, WorkIsPending
<1>4. item.addr \in Addr /\ item.seen \in Heights \ {0} /\ item.slots \subseteq Slot
  BY <1>3 DEF Item
<1>5. \A j \in sync.work \ {item} : <<j.addr, j.seen>> # <<item.addr, item.seen>>
  BY <1>1, OneItem
<1>6. CASE sync' = [sync EXCEPT !.work = @ \ {item}]
  <2>1. /\ sync'.pc = "pick" /\ sync'.queue = sync.queue /\ sync'.work = sync.work \ {item}
        /\ sync'.finalized = sync.finalized /\ sync'.srcHead = sync.srcHead
        /\ sync'.next = sync.next
    BY <1>1, <1>6, FollowFacts DEF Pass
  <2>2. ItemIsPending' BY <2>1 DEF ItemIsPending, At
  <2>3. CASE UNCHANGED archiveVars
    <3>1. UNCHANGED tables /\ inFlight' = inFlight BY <2>3 DEF archiveVars, volatile
    <3>2. WorkIsPending' BY <1>1, <1>3, <2>1, <3>1 DEF WorkIsPending, Waiting, tables
    <3> QED BY <1>1, <2>1, <2>2, <3>1, <3>2, WorkOrdered DEF TableStep, tables, At
  <2>4. CASE watch[item.addr] # 0 /\ MarkLost(item.addr, item.slots, item.seen)
    <3>1. Expire(item.addr, item.seen) BY <1>3, <1>4, <2>4 DEF Expire, Waiting
    <3>2. TableStep BY <1>4, <3>1 DEF TableStep, Proofs
    <3>3. /\ watch' = watch /\ head' = head /\ hashes' = hashes /\ inFlight' = inFlight
          /\ \A a \in Addr, s \in Slot : pending'[a][s] =
               IF a = item.addr /\ s \in item.slots THEN 0 ELSE pending[a][s]
      BY <1>4, <2>4, FollowFacts DEF MarkLost, volatile, TypeOK
    <3>4. ASSUME NEW j \in sync.work \ {item} PROVE Waiting(j)' = Waiting(j)
      <4>1. j \in Item /\ j.addr \in Addr /\ j.seen # 0 BY <1>3 DEF Item
      <4>2. j.addr = item.addr => \A s \in item.slots : pending[j.addr][s] # j.seen
        BY <1>3, <1>5, <3>4 DEF Waiting
      <4> QED BY <3>3, <4>1, <4>2 DEF Waiting
    <3>5. WorkIsPending' BY <1>1, <1>3, <2>1, <3>3, <3>4 DEF WorkIsPending
    <3> QED BY <1>1, <2>1, <2>2, <3>2, <3>3, <3>5, WorkOrdered DEF At
  <2> QED BY <1>2, <1>6, <2>3, <2>4
<1>7. CASE /\ UNCHANGED archiveVars
           /\ sync' = [sync EXCEPT !.work = @ \ {item}, !.item = item,
                         !.root = hashes[item.seen - 1],
                         !.pc = IF hashes[item.seen - 1] = NoHash THEN "header" ELSE "proof"]
  <2>1. /\ sync'.pc \in {"header", "proof"} /\ sync'.queue = sync.queue
        /\ sync'.work = sync.work \ {item} /\ sync'.item = item
        /\ sync'.finalized = sync.finalized /\ sync'.srcHead = sync.srcHead
        /\ sync'.next = sync.next
    BY <1>7, FollowFacts DEF Pass
  <2>2. UNCHANGED tables /\ inFlight' = inFlight BY <1>7 DEF archiveVars, volatile
  <2>3. WorkIsPending' BY <1>1, <1>3, <2>1, <2>2 DEF WorkIsPending, Waiting, tables
  <2>4. ItemIsPending' BY <1>3, <1>5, <2>1, <2>2 DEF ItemIsPending, Waiting, At, tables
  <2> QED BY <1>1, <2>1, <2>2, <2>3, <2>4, WorkOrdered DEF TableStep, tables, At
<1> QED BY <1>2, <1>6, <1>7

\* A header that is fetched for a proof is one the head's line has there: it was pruned
\* below the finalized block, or lies where all branches meet.
LEMMA HeaderAnswerOrdered ==
  ASSUME FollowInv, FollowsOneLine, Alone, HeaderAnswer
  PROVE  TableStep /\ OrderInv'
<1> DEFINE n == sync.item.seen - 1
           h == SourceBlock(n)
           work == IF sync.retry THEN sync.work ELSE {}
<1>1. /\ sync.pc = "header" /\ UNCHANGED nodeVars
      /\ \/ /\ h # NoHash /\ RememberHeader(h)
            /\ sync' = [sync EXCEPT !.pc = "proof", !.root = h]
         \/ /\ UNCHANGED archiveVars
            /\ sync' = [sync EXCEPT !.pc = "pick", !.item = NoItem, !.work = work]
  BY FollowFacts DEF HeaderAnswer, At, Pass
<1> USE DEF FollowInv, OrderInv
<1>2. /\ sync.item \in Item /\ sync.item.slots # {} /\ sync.item.slots \subseteq Waiting(sync.item)
      /\ sync.item.addr \in Addr /\ sync.item.seen \in Heights \ {0} /\ sync.item.slots \subseteq Slot
  BY <1>1 DEF ProcessesInv, ProofsAreRooted, ItemIsPending, At, Item
<1>3. n \in Heights /\ n \in Nat /\ sync.item.seen = n + 1 BY <1>2, HeightsFact
<1> DEFINE a == sync.item.addr
<1>4. PICK s \in Slot : pending[a][s] = n + 1 BY <1>2, <1>3 DEF Waiting
<1>5. /\ head # NoHash /\ n + 1 <= Num[head] /\ watch[a] <= n + 1 /\ watch[a] # 0
      /\ head \in Hash /\ Num[head] \in Nat /\ a \in Addr
  BY <1>2, <1>3, <1>4, FollowFacts, WaitingIsCovered
<1>6. work \subseteq sync.work OBVIOUS
<1> HIDE DEF n, h, work, a
<1>7. CASE h # NoHash /\ RememberHeader(h) /\ sync' = [sync EXCEPT !.pc = "proof", !.root = h]
  <2>1. h \in Hash /\ Num[h] = n /\ Line[h][n] = h
    BY <1>3, <1>7, FollowFacts, SourceFact, TreeAssumption DEF h
  <2>2. ASSUME hashes[n] # NoHash PROVE TableStep
    BY <1>7, <2>1, <2>2 DEF RememberHeader, TableStep, tables
  <2>3. ASSUME hashes[n] = NoHash PROVE TableStep
    <3>1. n <= Num[head] BY <1>3, <1>5
    <3>2. CASE Settled(n)
      <4>1. Line[h][n] = Line[final][n]
        BY <1>3, <1>7, <3>2, HeightsFact, FinalIsServed DEF Settled, h
      <4> QED BY <1>3, <1>4, <1>5, <1>7, <2>1, <3>2, <4>1
          DEF Settled, TableStep, Proofs, Remember
    <3>3. CASE \A b \in Watched : n < watch[b]
      <4>1. watch[a] \in Nat /\ a \in Watched
        BY <1>5, FollowFacts, HeightsFact DEF TypeOK, Watched
      <4>2. watch[a] - 1 = n /\ watch[a] \in Starts
        BY <1>3, <1>5, <3>3, <4>1 DEF WatchesComeBetween
      <4>3. Line[head][n] = Line[h][n] BY <1>3, <1>5, <2>1, <3>1, <4>2 DEF FollowsOneLine
      <4> QED BY <1>3, <1>4, <1>5, <1>7, <2>1, <4>3 DEF TableStep, Proofs, Remember
    <3> QED BY <1>3, <1>5, <2>3, <3>1, <3>2, <3>3 DEF MissingAreSettled
  <2>4. TableStep BY <2>2, <2>3
  <2>5. /\ watch' = watch /\ head' = head /\ inFlight' = inFlight /\ pending' = pending
        /\ \A m \in Heights : hashes'[m] = NoHash => hashes[m] = NoHash
    BY <1>7, <2>1, HeightsFact, FollowFacts DEF RememberHeader, volatile, TypeOK
  <2>6. /\ sync'.pc = "proof" /\ sync'.queue = sync.queue
        /\ sync'.work = sync.work /\ sync'.item = sync.item
        /\ sync'.finalized = sync.finalized /\ sync'.srcHead = sync.srcHead
        /\ sync'.next = sync.next
    BY <1>7, FollowFacts DEF Pass
  <2>7. WorkIsPending' BY <1>1, <2>5, <2>6 DEF WorkIsPending, Proving, Waiting
  <2>8. ItemIsPending' BY <1>1, <2>5, <2>6 DEF ItemIsPending, Waiting, At
  <2> QED BY <1>1, <2>4, <2>5, <2>6, <2>7, <2>8, WorkOrdered DEF At
<1>8. CASE /\ UNCHANGED archiveVars
           /\ sync' = [sync EXCEPT !.pc = "pick", !.item = NoItem, !.work = work]
  <2>1. /\ sync'.pc = "pick" /\ sync'.queue = sync.queue /\ sync'.work = work
        /\ sync'.finalized = sync.finalized /\ sync'.srcHead = sync.srcHead
        /\ sync'.next = sync.next
    BY <1>8, FollowFacts DEF Pass
  <2>2. UNCHANGED tables /\ inFlight' = inFlight BY <1>8 DEF archiveVars, volatile
  <2>3. WorkIsPending' BY <1>1, <1>6, <2>1, <2>2 DEF WorkIsPending, Proving, Waiting, tables
  <2>4. ItemIsPending' BY <2>1 DEF ItemIsPending, At
  <2> QED BY <1>1, <2>1, <2>2, <2>3, <2>4, WorkOrdered DEF TableStep, tables, At
<1> QED BY <1>1, <1>7, <1>8

LEMMA ProofAnswerOrdered ==
  ASSUME FollowInv, Alone, ProofAnswer
  PROVE  TableStep /\ OrderInv'
<1>1. sync.pc = "proof" /\ UNCHANGED archiveVars /\ UNCHANGED nodeVars
  BY DEF ProofAnswer, At, Local
<1>2. UNCHANGED tables /\ inFlight' = inFlight BY <1>1 DEF archiveVars, volatile
<1> USE DEF FollowInv, OrderInv
<1>3. /\ sync.item \in Item /\ sync.item.start = watch[sync.item.addr]
      /\ sync.item.slots \subseteq Waiting(sync.item)
      /\ \A i \in sync.work : <<i.addr, i.seen>> # <<sync.item.addr, sync.item.seen>>
  BY <1>1 DEF ProcessesInv, ProofsAreRooted, ItemIsPending
<1>4. CASE sync' = [sync EXCEPT !.pc = "pick", !.item = NoItem, !.root = NoHash]
  <2>1. /\ sync'.pc = "pick" /\ sync'.queue = sync.queue /\ sync'.work = sync.work
        /\ sync'.finalized = sync.finalized /\ sync'.srcHead = sync.srcHead
        /\ sync'.next = sync.next
    BY <1>4, FollowFacts DEF Pass
  <2>2. WorkIsPending' BY <1>1, <1>2, <2>1 DEF WorkIsPending, Proving, Waiting, tables
  <2>3. ItemIsPending' BY <2>1 DEF ItemIsPending, At
  <2> QED BY <1>1, <1>2, <2>1, <2>2, <2>3, WorkOrdered DEF TableStep, tables, At
<1>5. ASSUME NEW chunk \in SUBSET sync.item.slots,
             sync' = [sync EXCEPT !.pc = "store", !.item.slots = @ \ chunk,
                        !.answer = [s \in chunk |->
                          ValueAt(sync.root, sync.item.seen - 1, sync.item.addr, s)]]
      PROVE  TableStep /\ OrderInv'
  <2> DEFINE answer == [s \in chunk |->
                          ValueAt(sync.root, sync.item.seen - 1, sync.item.addr, s)]
             item == [sync.item EXCEPT !.slots = @ \ chunk]
  <2>1. sync' = [sync EXCEPT !.pc = "store", !.item = item, !.answer = answer]
    BY <1>5, FollowFacts DEF Pass
  <2>2. /\ item.addr = sync.item.addr /\ item.seen = sync.item.seen
        /\ item.start = sync.item.start /\ item.slots = sync.item.slots \ chunk
    BY <1>3 DEF Item
  <2>3. /\ DOMAIN answer = chunk
        /\ \A s \in chunk : answer[s] = ValueAt(sync.root, sync.item.seen - 1, sync.item.addr, s)
    OBVIOUS
  <2> HIDE DEF answer, item
  <2>4. /\ sync'.pc = "store" /\ sync'.queue = sync.queue /\ sync'.work = sync.work
        /\ sync'.item = item /\ sync'.answer = answer /\ sync'.root = sync.root
        /\ sync'.finalized = sync.finalized /\ sync'.srcHead = sync.srcHead
        /\ sync'.next = sync.next
    BY <2>1, FollowFacts DEF Pass
  <2>5. WorkIsPending' BY <1>1, <1>2, <2>4 DEF WorkIsPending, Proving, Waiting, tables
  <2>6. Waiting(sync.item)' = Waiting(sync.item) BY <1>2, <2>2, <2>4 DEF Waiting, tables
  <2>7. ItemIsPending'
    <3>1. item.slots \subseteq Waiting(sync.item) BY <1>3, <2>2
    <3>2. chunk \subseteq Waiting(sync.item) \ item.slots BY <1>3, <2>2
    <3> QED BY <1>2, <1>3, <2>2, <2>3, <2>4, <2>6, <3>1, <3>2 DEF ItemIsPending, At, tables
  <2> QED BY <1>1, <1>2, <2>4, <2>5, <2>7, WorkOrdered DEF TableStep, tables, At
<1> QED BY <1>4, <1>5 DEF ProofAnswer

\* A proof is stored for slots that still wait, right under the block they wait since.
LEMMA StoreProofOrdered ==
  ASSUME FollowInv, Alone, StoreProof
  PROVE  TableStep /\ OrderInv'
<1> DEFINE i == sync.item
           at == i.seen - 1
           answer == sync.answer
<1>1. /\ sync.pc = "store" /\ UNCHANGED nodeVars
      /\ \/ /\ hashes[at] = sync.root
            /\ PutBootstrap(i.addr, i.start, at, sync.root, answer)
         \/ UNCHANGED archiveVars
      /\ \/ i.slots # {} /\ sync' = [sync EXCEPT !.answer = <<>>, !.pc = "proof"]
         \/ sync' = [sync EXCEPT !.answer = <<>>, !.pc = "pick", !.item = NoItem, !.root = NoHash]
  BY FollowFacts DEF StoreProof, At, NoAnswer, Pass
<1> USE DEF FollowInv, OrderInv
<1>2. /\ i \in Item /\ sync.root \in Hash /\ i.start = watch[i.addr]
      /\ i.slots \subseteq Waiting(i) /\ DOMAIN answer \subseteq Waiting(i) \ i.slots
      /\ \A s \in DOMAIN answer : answer[s] = ValueAt(sync.root, at, i.addr, s)
      /\ \A j \in sync.work : <<j.addr, j.seen>> # <<i.addr, i.seen>>
  BY <1>1 DEF ProcessesInv, ProofsAreRooted, ItemIsPending, At
<1>3. /\ i.addr \in Addr /\ i.start \in Heights \ {0} /\ i.seen \in Heights \ {0}
      /\ at \in Heights /\ sync.work \subseteq Item
  BY <1>1, <1>2, HeightsFact DEF Item, ProcessesInv, ProofsAreRooted
<1>4. answer \in Values BY FollowFacts DEF Pass
<1>5. PICK E : \/ sync' = [sync EXCEPT !.answer = E, !.pc = "proof"]
               \/ sync' = [sync EXCEPT !.answer = E, !.pc = "pick", !.item = NoItem, !.root = NoHash]
  BY <1>1
<1>6. /\ sync'.queue = sync.queue /\ sync'.work = sync.work
      /\ sync'.finalized = sync.finalized /\ sync'.srcHead = sync.srcHead
      /\ sync'.next = sync.next
      /\ sync'.pc = "pick" \/ (sync'.pc = "proof" /\ sync'.item = i)
  BY <1>5, FollowFacts DEF Pass
<1> HIDE DEF i, at, answer
<1>7. /\ TableStep
      /\ watch' = watch /\ head' = head /\ hashes' = hashes /\ inFlight' = inFlight
      /\ \A a \in Addr, s \in Slot :
           \/ pending'[a][s] = pending[a][s]
           \/ a = i.addr /\ s \in DOMAIN answer /\ pending'[a][s] = 0
  <2>1. CASE UNCHANGED archiveVars BY <2>1 DEF archiveVars, tables, volatile, TableStep
  <2>2. CASE hashes[at] = sync.root /\ PutBootstrap(i.addr, i.start, at, sync.root, answer)
    <3>1. /\ watch' = watch /\ head' = head /\ hashes' = hashes /\ inFlight' = inFlight
          /\ \A a \in Addr, s \in Slot : pending'[a][s] =
               IF a = i.addr /\ s \in {x \in DOMAIN answer : Accepts(i.addr, x, at)} THEN 0
               ELSE pending[a][s]
      BY <1>3, <2>2, FollowFacts DEF PutBootstrap, volatile, TypeOK
    <3>2. DOMAIN answer \subseteq Slot BY <1>2 DEF Waiting
    <3>3. \A s \in DOMAIN answer : Unresolved(boot[i.addr][s]) /\ boot[i.addr][s].seen = i.seen
      <4> SUFFICES ASSUME NEW s \in DOMAIN answer
                   PROVE  Unresolved(boot[i.addr][s]) /\ boot[i.addr][s].seen = i.seen
        OBVIOUS
      <4>1. s \in Slot /\ pending[i.addr][s] = i.seen /\ i.seen # 0
        BY <1>2, <1>3 DEF Waiting
      <4> QED BY <1>3, <4>1, WaitingIsCovered DEF Unresolved
    <3>4. answer = [s \in DOMAIN answer |-> ValueAt(sync.root, at, i.addr, s)]
      <4>1. answer = [s \in DOMAIN answer |-> answer[s]] BY <1>4 DEF Values
      <4> QED BY <1>2, <4>1
    <3>5. ProveBefore(i.addr, i.seen, DOMAIN answer)
      <4>1. watch[i.addr] # 0 /\ hashes[at] # NoHash BY <1>2, <1>3, <2>2, HeightsFact
      <4>2. PutBootstrap(i.addr, watch[i.addr], at, hashes[at],
              [s \in DOMAIN answer |-> ValueAt(hashes[at], at, i.addr, s)])
        BY <1>2, <2>2, <3>4
      <4> QED BY <1>3, <3>3, <4>1, <4>2 DEF ProveBefore, Prove, at
    <3>6. TableStep BY <1>3, <3>2, <3>5 DEF TableStep, Proofs
    <3> QED BY <3>1, <3>6
  <2> QED BY <1>1, <2>1, <2>2 DEF i, at, answer
<1>8. ASSUME NEW j \in sync.work PROVE Waiting(j)' = Waiting(j)
  <2>1. j \in Item /\ j.addr \in Addr /\ j.seen # 0 BY <1>3 DEF Item
  <2>2. j.addr = i.addr => \A s \in DOMAIN answer : pending[j.addr][s] # j.seen
    BY <1>2, <1>8 DEF Waiting
  <2>3. \A s \in Slot : pending'[j.addr][s] = j.seen <=> pending[j.addr][s] = j.seen
    BY <1>7, <2>1, <2>2
  <2> QED BY <2>3 DEF Waiting
<1>9. WorkIsPending'
  <2>1. \A j \in sync.work : j.slots = Waiting(j) /\ j.slots # {} /\ j.start = watch[j.addr]
    BY <1>1 DEF WorkIsPending, Proving
  <2> QED BY <1>6, <1>7, <1>8, <2>1 DEF WorkIsPending
<1>10. ItemIsPending'
  <2>1. CASE sync'.pc = "pick" BY <2>1 DEF ItemIsPending, At
  <2>2. CASE sync'.pc = "proof" /\ sync'.item = i
    <3>1. i.slots \subseteq {s \in Slot : pending'[i.addr][s] = i.seen}
      <4> SUFFICES ASSUME NEW s \in i.slots PROVE s \in Slot /\ pending'[i.addr][s] = i.seen
        OBVIOUS
      <4>1. s \in Slot /\ pending[i.addr][s] = i.seen /\ s \notin DOMAIN answer
        BY <1>2 DEF Waiting
      <4> QED BY <1>3, <1>7, <4>1
    <3> QED BY <1>2, <1>6, <1>7, <2>2, <3>1 DEF ItemIsPending, Waiting, At
  <2> QED BY <1>6, <2>1, <2>2
<1> QED BY <1>1, <1>6, <1>7, <1>9, <1>10, WorkOrdered DEF At

LEMMA WorkDoneOrdered ==
  ASSUME FollowInv, Alone, WorkDone, sync'.pc # "idle"
  PROVE  TableStep /\ OrderInv'
<1>1. /\ sync.pc = "pick" /\ ~ sync.retry /\ UNCHANGED archiveVars /\ UNCHANGED nodeVars
      /\ sync' = [sync EXCEPT !.pc = "loop", !.next = @ + 1]
  BY IdleFact DEF WorkDone, At, EndPass
<1>2. head # NoHash BY <1>1 DEF FollowInv, ProcessesInv, NextIsAbove, Proving
<1>3. /\ sync'.pc = "loop" /\ sync'.queue = sync.queue
      /\ sync'.finalized = sync.finalized /\ sync'.srcHead = sync.srcHead
  BY <1>1, FollowFacts DEF Pass
<1> QED BY <1>1, <1>2, <1>3, SameBatch, PassOrdered DEF At

-----------------------------------------------------------------------------
(* Every step *)

LEMMA PassOrder ==
  ASSUME FollowInv, FollowsOneLine, Alone, SyncStep \/ Abort
  PROVE  TableStep /\ OrderInv'
<1>1. CASE EndPass
  <2>1. UNCHANGED nodeVars BY PassesLeaveNode
  <2>2. UNCHANGED tables /\ sync' = Idle /\ user'.pc = "idle" /\ lazy' = NoLazy
    BY <1>1 DEF EndPass, SyncIdle, Alone, FollowInv, OrderInv, WatchesComeBetween
  <2> QED BY <2>1, <2>2, EndOrdered
<1>2. CASE ~ EndPass
  <2>1. sync'.pc # "idle" BY <1>2, PassEnds DEF FollowInv
  <2>2. ~ ForkUnknown /\ ~ Abort BY <1>2 DEF ForkUnknown, Abort
  <2> QED BY <2>1, <2>2, ClaimOrdered, AskHeadOrdered, AskFinalizedOrdered, CheckHeadOrdered,
             ForkStepOrdered, RollbackScanOrdered, RollbackOrdered, StartFetchOrdered,
             FetchedOrdered, TakeBlockOrdered, LoopDoneOrdered, SnapshotOrdered, ApplyOrdered,
             RetryScanOrdered, RetryGroupsOrdered, PickItemOrdered, HeaderAnswerOrdered,
             ProofAnswerOrdered, StoreProofOrdered, WorkDoneOrdered
          DEF SyncStep
<1> QED BY <1>1, <1>2

LEMMA FollowStep ==
  ASSUME FollowInv, FollowsOneLine, [FollowNext]_vars
  PROVE  TableStep /\ FollowInv'
<1>1. TablesInv' /\ ProcessesInv'
  BY SystemStep DEF FollowInv, FollowNext, SystemNext
<1>2. TypeOK' BY <1>1 DEF TablesInv
<1>3. CASE Syncs
  <2>1. Alone BY <1>3 DEF Syncs, SyncMay, UserAwaits, FollowsOneLine, Alone
  <2> QED BY <1>1, <1>2, <1>3, <2>1, PassOrder, BeginOrdered, StoreKept DEF Syncs, FollowInv
<1>4. CASE Watches
  BY <1>1, <1>2, <1>4, WatchBeginOrdered, WatchEndOrdered, StoreKept DEF Watches, FollowInv
<1>5. CASE Moves BY <1>1, <1>2, <1>5, MovesOrdered, StoreKept DEF FollowInv
<1>6. CASE Crash
  <2>1. /\ UNCHANGED tables /\ UNCHANGED nodeVars /\ sync' = Idle /\ user'.pc = "idle"
        /\ lazy' = NoLazy
    BY <1>6 DEF Crash, NoCall
  <2> QED BY <1>1, <1>2, <2>1, EndOrdered, StoreKept DEF FollowInv
<1>7. CASE UNCHANGED vars
  <2>1. UNCHANGED tables /\ UNCHANGED nodeVars /\ UNCHANGED <<sync, user, lazy, inFlight>>
    BY <1>7 DEF vars, syncVars, archiveVars, volatile
  <2>2. OrderInv'
    BY <2>1
    DEF FollowInv, OrderInv, FinalStays, OnLine, MissingAreSettled, Settled, Watched,
        WatchesComeBetween, HeadNumber, FirstBlock, SyncAwaits, At, BatchIsAbove, Rooted, Blocks,
        BlockIsAbove, WorkIsPending, ItemIsPending, Waiting, Proving, tables, nodeVars
  <2> QED BY <1>1, <1>2, <2>1, <2>2, StoreKept DEF FollowInv, TableStep
<1> QED BY <1>3, <1>4, <1>5, <1>6, <1>7 DEF FollowNext

-----------------------------------------------------------------------------
(* Every state *)

LEMMA FollowStart ==
  ASSUME FollowsOneLine
  PROVE  SystemInit => FollowInv
<1> SUFFICES ASSUME SystemInit PROVE FollowInv OBVIOUS
<1>1. Init /\ NodeInit /\ sync = Idle /\ user = NoCall /\ lazy = NoLazy BY DEF SystemInit
<1>2. TablesInv /\ ProcessesInv BY SystemStart
<1>3. StoreHolds
  <2>1. IndexInv /\ PendingMirrorsBoot
    BY <1>1, <1>2
    DEF TablesInv, Init, IndexInv, IndexCovers, IndexIsBacked, RecordsInRange, BlockRecords
  <2>2. ChainHeld BY <1>1 DEF Init, ChainHeld, Covered
  <2>3. StatesAreTold /\ CreationsAreTrue
    BY <1>1, ToldCases DEF Init, StatesAreTold, CreationsAreTrue, Quiet, Covered, Born
  <2>4. HashesAreHeld BY <1>1 DEF Init, HashesAreHeld
  <2>5. PreValuesAreTrue BY <1>1 DEF Init, PreValuesAreTrue
  <2> QED BY <2>1, <2>2, <2>3, <2>4, <2>5 DEF StoreHolds, StateInv, HoldInv
<1>4. FinalStays
  <2>1. canon \in Hash /\ Num[canon] = 1 /\ final = Line[canon][0] BY <1>1 DEF NodeInit
  <2>2. 0 \in Heights /\ 0 <= Num[canon] BY <2>1, HeightsFact
  <2>3. final \in Hash /\ Num[final] = 0 BY <2>1, <2>2, LineFact
  <2>4. OnLine(final, canon) BY <2>1, <2>2, <2>3 DEF OnLine
  <2>5. FinalityLag \in Nat /\ 1 <= FinalityLag BY DEF FollowsOneLine
  <2>6. sync.finalized = 0 /\ sync.srcHead = 0 BY <1>1, IdleFact
  <2>7. Less(0, Horizon) = 0 BY SyncAssumption DEF Less
  <2> QED BY <2>1, <2>3, <2>4, <2>5, <2>6, <2>7 DEF FinalStays
<1>5. head = NoHash /\ Watched = {} BY <1>1 DEF Init, Watched
<1>6. /\ At("idle") /\ Blocks = {} /\ user.pc = "idle"
      /\ ~ Proving /\ ~ At("groups") /\ ~ At("undo") /\ ~ At("apply") /\ ~ At("header")
      /\ ~ At("store") /\ sync.pc \notin {"snapshot", "apply", "header", "proof", "store"}
  BY <1>1, IdleFact DEF At, Blocks, Proving, NoCall
<1>7. MissingAreSettled BY <1>5 DEF MissingAreSettled
<1>8. WatchesComeBetween BY <1>1, <1>5, <1>6 DEF WatchesComeBetween
<1>9. BatchIsAbove /\ BlockIsAbove /\ WorkIsPending /\ ItemIsPending
  BY <1>6 DEF BatchIsAbove, BlockIsAbove, WorkIsPending, ItemIsPending
<1> QED BY <1>2, <1>3, <1>4, <1>7, <1>8, <1>9 DEF FollowInv, OrderInv

LEMMA FollowKeeps ==
  ASSUME FollowsOneLine
  PROVE  FollowSpec => []FollowInv
<1>1. SystemInit => FollowInv BY FollowStart
<1>2. FollowInv /\ [FollowNext]_vars => FollowInv' BY FollowStep
<1> QED BY <1>1, <1>2, PTL DEF FollowSpec

-----------------------------------------------------------------------------
(* The processes implement the store under a single caller *)

LEMMA StoreWatch ==
  ASSUME NEW a \in Addr, NEW n \in Heights, Watch(a, n, HeadNumber)
  PROVE  Store!StartWatch(a, n)
BY HeightsFact DEF Watch, HeadNumber, Store!StartWatch, Store!Watch, Store!HeadNumber, Store!volatile

LEMMA StoreReorg ==
  ASSUME NEW b \in Heights, Reorg(b)
  PROVE  Store!Reorg(b)
BY DEF Reorg, RollbackTo, Wiped, Victims, Forgotten, Unresolved, Unseen, Heights,
  Store!Reorg, Store!RollbackTo, Store!Wiped, Store!Victims, Store!Forgotten,
  Store!Unresolved, Store!Unseen, Store!Heights, Store!volatile

LEMMA StoreExtend ==
  ASSUME NEW h \in Hash, NEW below \in Heights, Extend(h, below)
  PROVE  Store!Extend(h, below)
<1>1. Store!Follows(h)
  BY DEF Extend, Follows, Watched, FirstBlock, Parent, Min,
    Store!Follows, Store!Watched, Store!FirstBlock, Store!Parent, Store!Min
<1>2. /\ Store!Live(h, watch) = Live(h, watch)
      /\ \A a, p : Store!BalRecords(h, a, p) = BalRecords(h, a, p)
  BY DEF Live, BalRecords, FinalChange, Store!Live, Store!BalRecords, Store!FinalChange
<1>3. \A as : Store!IndexAfter(h, as) = IndexAfter(h, as)
  BY DEF IndexAfter, IndexOf, Written, Store!IndexAfter, Store!IndexOf, Store!Written
<1>4. \A a, s : /\ Store!BootAfter(h, a, s) = BootAfter(h, a, s)
                /\ Store!PendingAfter(h, a, s) = PendingAfter(h, a, s)
                /\ Store!Creates(h, a) = Creates(h, a)
  BY DEF BootAfter, PendingAfter, FreshSlots, IsCreated, Creates, Written, Unseen, Done, Pending,
    Store!BootAfter, Store!PendingAfter, Store!FreshSlots, Store!IsCreated, Store!Creates,
    Store!Written, Store!Unseen, Store!Done, Store!Pending
<1>5. Store!HashesAfter(h, below) = HashesAfter(h, below)
  BY DEF HashesAfter, Store!HashesAfter, Store!Heights
<1>6. \A table, new : Store!Insert(table, new) = Insert(table, new) BY DEF Insert, Store!Insert
<1>7. ApplyBlock(h, watch, below) BY DEF Extend
<1>8. Store!ApplyBlock(h, watch, below)
  BY <1>2, <1>3, <1>4, <1>5, <1>6, <1>7 DEF ApplyBlock, Store!ApplyBlock, Store!volatile
<1> QED BY <1>1, <1>8 DEF Store!Extend

LEMMA StoreRemember ==
  ASSUME NEW n \in Heights, Remember(n)
  PROVE  Store!Remember(n)
BY DEF Remember, RememberHeader, Store!Remember, Store!RememberHeader, Store!volatile

LEMMA StoreValueAt ==
  \A h, n, a, s : Store!ValueAt(h, n, a, s) = ValueAt(h, n, a, s)
BY DEF ValueAt, WriteBlocks, Written, FinalChange, Max,
  Store!ValueAt, Store!WriteBlocks, Store!Written, Store!FinalChange, Store!Max

LEMMA StoreProve ==
  ASSUME NEW a \in Addr, NEW S, NEW at, Prove(a, S, at)
  PROVE  Store!Prove(a, S, at)
<1>1. \A x, s, n : Store!Accepts(x, s, n) = Accepts(x, s, n)
  BY DEF Accepts, Unresolved, Unseen, Store!Accepts, Store!Unresolved, Store!Unseen
<1>2. \A table, new : Store!Insert(table, new) = Insert(table, new) BY DEF Insert, Store!Insert
<1>3. [s \in S |-> Store!ValueAt(hashes[at], at, a, s)] = [s \in S |-> ValueAt(hashes[at], at, a, s)]
  BY StoreValueAt
<1> DEFINE vals == [s \in S |-> ValueAt(hashes[at], at, a, s)]
<1>4. PutBootstrap(a, watch[a], at, hashes[at], vals) BY DEF Prove
<1> HIDE DEF vals
<1>5. Store!PutBootstrap(a, watch[a], at, hashes[at], vals)
  BY <1>1, <1>2, <1>4 DEF PutBootstrap, Done, Store!PutBootstrap, Store!Done, Store!volatile
<1> QED BY <1>3, <1>5 DEF vals, Prove, Store!Prove

LEMMA StoreExpire ==
  ASSUME NEW a \in Addr, NEW n \in Heights, Expire(a, n)
  PROVE  Store!Expire(a, n)
BY DEF Expire, MarkLost, Lost, Store!Expire, Store!MarkLost, Store!Lost, Store!volatile

LEMMA StoreProofs ==
  ASSUME Proofs
  PROVE  Store!Proofs
<1>1. ASSUME NEW a \in Addr, NEW n \in Heights, NEW S \in SUBSET Slot, ProveBefore(a, n, S)
      PROVE  Store!ProveBefore(a, n, S)
  BY <1>1, StoreProve DEF ProveBefore, Unresolved, Store!ProveBefore, Store!Unresolved
<1>2. ASSUME NEW a \in Addr, NEW s \in Slot, NEW at \in Heights, ProveHead(a, s, at)
      PROVE  Store!ProveHead(a, s, at)
  BY <1>2, StoreProve DEF ProveHead, Store!ProveHead
<1> QED BY <1>1, <1>2, StoreRemember, StoreExpire DEF Proofs, Store!Proofs, Store!Heights

\* What a pass read before an await, a commit or a prune is still so where it uses it.
THEOREM ReadsStayCurrent == ASSUME FollowsOneLine PROVE FollowSpec => []OrderInv
<1>1. FollowInv => OrderInv BY DEF FollowInv
<1>2. FollowSpec => []FollowInv BY FollowKeeps
<1> QED BY <1>1, <1>2, PTL

\* However passes are dropped, fail, take answers of any branch and await while watches
\* come and the node moves: what they commit is what one caller of the store would, that
\* applies blocks in parent order (sync.rs:190), rolls back along the head's line and files
\* a proof right under the first change it was asked for (sync.rs:330).
THEOREM FollowsTheOrder == ASSUME FollowsOneLine PROVE FollowSpec => KeepsTheOrder
<1>1. SystemInit => Store!Init
  BY DEF SystemInit, Init, Unseen, Heights, Store!Init, Store!Unseen, Store!Heights
<1>2. FollowInv /\ [FollowNext]_vars
        => [UNCHANGED tables \/ Store!Forward \/ Store!Proofs]_tables
  <2> SUFFICES ASSUME FollowInv, [FollowNext]_vars, ~ UNCHANGED tables
               PROVE  Store!Forward \/ Store!Proofs
    OBVIOUS
  <2>1. TableStep BY FollowStep
  <2> QED BY <2>1, StoreWatch, StoreExtend, StoreReorg, StoreProofs
         DEF TableStep, Store!Forward, Store!Heights
<1>3. FollowSpec => []FollowInv BY FollowKeeps
<1> QED BY <1>1, <1>2, <1>3, PTL DEF FollowSpec, KeepsTheOrder

\* So the archive of a follow loop holds the chain its head is on, block by block.
THEOREM FollowedChainHolds == ASSUME FollowsOneLine PROVE FollowSpec => []HoldsTheChain
<1>1. FollowInv => HoldsTheChain BY ChainFollows DEF FollowInv, StoreHolds, StateInv
<1>2. FollowSpec => []FollowInv BY FollowKeeps
<1> QED BY <1>1, <1>2, PTL

\* And what a read of it answers, proven pre-values included, is the value the slot had.
THEOREM FollowedReadsHold == ASSUME FollowsOneLine PROVE FollowSpec => []ReadsAreTrue
<1>1. FollowInv => ReadsAreTrue BY ReadsFollow DEF FollowInv, StoreHolds
<1>2. FollowSpec => []FollowInv BY FollowKeeps
<1> QED BY <1>1, <1>2, PTL

\* One that finds nothing says rightly before which block the slot is unknown.
THEOREM FollowedUnknownHolds == ASSUME FollowsOneLine PROVE FollowSpec => []UnknownIsExact
<1>1. FollowInv => UnknownIsExact BY UnknownFollows DEF FollowInv, StoreHolds
<1>2. FollowSpec => []FollowInv BY FollowKeeps
<1> QED BY <1>1, <1>2, PTL

\* And where no block deploys a watched contract, none ends in Internal: a proof is filed
\* with the state it settles, and whatever is dropped in between leaves both or none.
THEOREM FollowedNoHole ==
  ASSUME FollowsOneLine, \A h \in Hash : Deploys[h] = {}
  PROVE  FollowSpec => []NoInternal
<1>1. SystemInit => DoneIsProven BY DEF SystemInit, Init, DoneIsProven, Done, Unseen
<1>2. FollowInv /\ DoneIsProven /\ [FollowNext]_vars => DoneIsProven'
  <2> SUFFICES ASSUME FollowInv, DoneIsProven, [FollowNext]_vars PROVE DoneIsProven' OBVIOUS
  <2>1. TableStep BY FollowStep
  <2>2. CASE slots' = slots /\ boot' = boot BY <2>2 DEF DoneIsProven
  <2>3. CASE Forward \/ Proofs BY <2>3, DoneStep DEF FollowInv, StoreHolds
  <2> QED BY <2>1, <2>2, <2>3 DEF TableStep, Forward, Watch, tables
<1>3. FollowSpec => []FollowInv BY FollowKeeps
<1>4. FollowInv /\ DoneIsProven => NoInternal BY DoneFollows DEF FollowInv, StoreHolds
<1> QED BY <1>1, <1>2, <1>3, <1>4, PTL DEF FollowSpec
=============================================================================
