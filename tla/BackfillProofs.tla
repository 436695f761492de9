--------------------------- MODULE BackfillProofs ----------------------------
(***************************************************************************)
(* A walk does to the store what the single caller of module Archive may:  *)
(* the block it writes for an address is the one below its start on the    *)
(* line of the head, though the answers it got may be of any branch and    *)
(* the address may have been unwatched, or watched again, meanwhile.  So   *)
(* all that is proved of the store holds with walks, in any interleaving.  *)
(* And it holds of balq index, which runs passes and walks one after the   *)
(* other, tries them again when they fail, and is killed.                  *)
(***************************************************************************)
EXTENDS Index, ReadsProofs

USE DEF Heights

-----------------------------------------------------------------------------
(* The store *)

StoreInv == StateInv /\ HashesAreHeld /\ NoneProven

LEMMA StoreStep ==
  ASSUME StoreInv, [Forward \/ Backfills]_archiveVars
  PROVE  StoreInv'
<1>1. [Next]_archiveVars BY DEF Next
<1>2. StateInv /\ HoldInv /\ IndexInv /\ TypeOK /\ PendingMirrorsBoot
  BY DEF StoreInv, StateInv, HoldInv, IndexInv
<1>3. TypeOK' BY <1>1, <1>2, TypeStep
<1>4. HoldInv' BY <1>1, <1>2, <1>3, IndexStep, HoldStep DEF HoldInv, IndexInv
<1>5. PendingMirrorsBoot' BY <1>1, <1>2, MirrorStep
<1>6. StatesAreTold' /\ CreationsAreTrue'
  BY <1>1, <1>2, StateStep DEF StatesAreTold, CreationsAreTrue, TrueStates
<1>7. HashesAreHeld' BY <1>1, <1>2, HashesStep DEF StoreInv
<1>8. NoneProven' BY <1>2, NoneProvenStep DEF StoreInv
<1> QED BY <1>4, <1>5, <1>6, <1>7, <1>8 DEF StoreInv, StateInv

\* What a process does to the volatile fields leaves the tables as they are.
LEMMA VolatileKeeps ==
  ASSUME StoreInv, UNCHANGED tables,
         inFlight' \in {0, inFlight}, syncing' \in BOOLEAN, gate' \in {FALSE, gate}
  PROVE  StoreInv'
<1> USE DEF tables
<1>1. StateInv /\ HoldInv /\ IndexInv /\ TypeOK /\ PendingMirrorsBoot
  BY DEF StoreInv, StateInv, HoldInv, IndexInv
<1>2. TypeOK'
  <2>1. inFlight' \in 0 .. MaxHeight + 1 BY <1>1, HeightsFact DEF TypeOK
  <2>2. gate' \in BOOLEAN BY <1>1, Zenon DEF TypeOK
  <2> QED BY <1>1, <2>1, <2>2 DEF TypeOK
<1>3. BlockRecords' = BlockRecords BY DEF BlockRecords
<1>4. IndexCovers' /\ IndexIsBacked' /\ RecordsInRange'
  BY <1>1, <1>3 DEF IndexInv, IndexCovers, IndexIsBacked, RecordsInRange
<1>5. ChainHeld' BY <1>1, <1>3, OtherHolds
<1>6. PendingMirrorsBoot' BY <1>1 DEF PendingMirrorsBoot
<1>7. StatesAreTold' /\ CreationsAreTrue' BY <1>1 DEF StateInv, StatesAreTold, CreationsAreTrue
<1>8. HashesAreHeld' /\ NoneProven' BY DEF StoreInv, HashesAreHeld, NoneProven
<1> QED BY <1>2, <1>4, <1>5, <1>6, <1>7, <1>8 DEF StoreInv, StateInv, HoldInv, IndexInv

-----------------------------------------------------------------------------
(* Walks that end *)

LEMMA NoWalkerFact ==
  /\ NoWalker.done /\ NoWalker.start = 0 /\ NoWalker \in Walker
  /\ [a \in Addr |-> NoWalker] \in [Addr -> Walker]
  /\ \A a \in Addr : [c \in Addr |-> NoWalker][a] = NoWalker
<1>1. NoWalker.done BY Zenon DEF NoWalker
<1>2. NoWalker \in Walker BY HeightsFact DEF NoWalker, Walker
<1> QED BY <1>1, <1>2 DEF NoWalker

LEMMA EmptyFact == <<>> \in UNION {[D -> Answer] : D \in SUBSET Heights}
<1>1. <<>> = [n \in {} |-> NoHash] OBVIOUS
<1>2. <<>> \in [{} -> Answer] BY <1>1
<1>3. {} \in SUBSET Heights OBVIOUS
<1> QED BY <1>2, <1>3

LEMMA NoWalkFact ==
  ASSUME NEW o \in {"none", "error", "stop", "budget"}, walk' = [NoWalk EXCEPT !.out = o]
  PROVE  /\ walk'.pc = "idle" /\ walk'.walkers = [a \in Addr |-> NoWalker]
         /\ WalkTypeOK'
<1> DEFINE none == [a \in Addr |-> NoWalker]
           no == FALSE
           empty == <<>>
<1>1. walk' = [pc |-> "idle", target |-> 0, budget |-> 0, resolve |-> no, todo |-> {},
               item |-> "none", walkers |-> none, cur |-> 0,
               expect |-> NoHash, last |-> NoHash, blk |-> NoHash, queue |-> empty, out |-> o]
  BY DEF NoWalk
<1>2. none \in [Addr -> Walker] /\ no \in BOOLEAN BY NoWalkerFact
<1>3. empty \in UNION {[D -> Answer] : D \in SUBSET Heights} BY EmptyFact
<1> HIDE DEF none, no, empty
<1>4. 0 \in Heights /\ 0 \in -1 .. MaxHeight /\ 0 \in Nat BY HeightsFact
<1>5. /\ walk'.pc \in {"idle", "plan", "known", "above", "batch", "fetch", "take", "apply"}
      /\ walk'.todo \in SUBSET Addr /\ walk'.item \in Addr \cup {"none"}
      /\ walk'.out \in {"none", "error", "stop", "budget"}
  BY <1>1
<1>6. walk'.target \in Heights /\ walk'.budget \in Nat /\ walk'.cur \in -1 .. MaxHeight
  BY <1>1, <1>4
<1>7. /\ walk'.resolve \in BOOLEAN /\ walk'.walkers \in [Addr -> Walker]
      /\ walk'.queue \in UNION {[D -> Answer] : D \in SUBSET Heights}
  BY <1>1, <1>2, <1>3
<1>8. /\ walk'.expect \in Hash \cup {NoHash} /\ walk'.last \in Hash \cup {NoHash}
      /\ walk'.blk \in Hash \cup {NoHash}
  BY <1>1
<1>9. WalkTypeOK' BY <1>1, <1>5, <1>6, <1>7, <1>8 DEF WalkTypeOK
<1>10. walk'.pc = "idle" /\ walk'.walkers = none BY <1>1
<1> QED BY <1>9, <1>10 DEF none

LEMMA WalkEnds ==
  ASSUME WalkInv, UNCHANGED tables, UNCHANGED nodeVars,
         NEW o \in {"none", "error", "stop", "budget"}, walk' = [NoWalk EXCEPT !.out = o]
  PROVE  WalkInv'
<1> USE DEF tables, nodeVars
<1>1. /\ walk'.pc = "idle" /\ walk'.walkers = [a \in Addr |-> NoWalker]
      /\ WalkTypeOK'
  BY NoWalkFact
<1>2. FinalStays' /\ StartsAreKnown'
  BY DEF WalkInv, FinalStays, NodeTypeOK, OnLine, StartsAreKnown, Settled, HeadNumber
<1>3. \A a \in Addr : walk'.walkers[a] = NoWalker /\ walk'.walkers[a].done
  BY <1>1, NoWalkerFact
<1>4. SlotIsTaken' /\ WalkersHold' BY <1>1, <1>3 DEF SlotIsTaken, WalkersHold
<1>5. ChainIsUnbroken' /\ WorkIsPlanned'
  BY <1>1 DEF ChainIsUnbroken, WorkIsPlanned, Descends
<1>6. WalkersAreOnTheChain' BY <1>3 DEF WalkersAreOnTheChain, Attached, Walking
<1> QED BY <1>1, <1>2, <1>4, <1>5, <1>6 DEF WalkInv

-----------------------------------------------------------------------------
(* Passes, between walks *)

LEMMA IdleKeeps ==
  ASSUME WalkInv, walk.pc = "idle", walk' = walk, FinalStays', StartsAreKnown'
  PROVE  WalkInv'
<1>1. \A a \in Addr : walk.walkers[a] = NoWalker /\ walk.walkers[a].done
  BY NoWalkerFact DEF WalkInv, SlotIsTaken
<1>2. WalkTypeOK' BY DEF WalkInv, WalkTypeOK
<1>3. SlotIsTaken' /\ WalkersHold' BY <1>1 DEF WalkInv, SlotIsTaken, WalkersHold
<1>4. ChainIsUnbroken' /\ WorkIsPlanned'
  BY DEF ChainIsUnbroken, WorkIsPlanned, Descends
<1>5. WalkersAreOnTheChain' BY <1>1 DEF WalkersAreOnTheChain, Attached, Walking
<1> QED BY <1>2, <1>3, <1>4, <1>5 DEF WalkInv

LEMMA PassBlockKnown ==
  ASSUME TypeOK, FinalStays, StartsAreKnown, NEW h \in Hash, NEW below \in Heights,
         OnLine(h, canon), below <= Num[final], Extend(h, below), UNCHANGED nodeVars
  PROVE  StartsAreKnown'
<1>1. /\ Follows(h) /\ head' = h /\ hashes' = HashesAfter(h, below)
      /\ anchor' = anchor /\ watch' = watch /\ UNCHANGED nodeVars
      /\ OnLine(h, canon) /\ below <= Num[final]
  BY DEF Extend, ApplyBlock
<1> SUFFICES ASSUME NEW a \in Addr, watch[a] # 0, watch[a] <= Num[h], hashes'[watch[a]] = NoHash
             PROVE  \/ anchor[a] = Line[h][watch[a]]
                    \/ watch[a] <= Num[final] /\ Line[h][watch[a]] = Line[final][watch[a]]
  BY <1>1, HeightsFact DEF StartsAreKnown, Settled, HeadNumber, nodeVars
<1> DEFINE s == watch[a]
<1>2. s \in Heights /\ s \in Nat /\ h # NoHash /\ Num[h] \in Nat /\ below \in Nat
  BY HeightsFact DEF TypeOK
<1>3. final \in Hash /\ canon \in Hash /\ Num[final] \in Nat /\ Num[canon] \in Nat
  BY HeightsFact DEF FinalStays, NodeTypeOK
<1>4. hashes'[s] = IF s < below THEN NoHash ELSE IF s = Num[h] THEN h ELSE hashes[s]
  BY <1>1, <1>2 DEF HashesAfter
<1>5. CASE s < below
  <2>1. s <= Num[final] BY <1>1, <1>2, <1>3, <1>5
  <2>2. Line[h][s] = Line[canon][s]
    <3>1. Num[h] <= Num[canon] /\ Line[canon][Num[h]] = h BY <1>1 DEF OnLine
    <3>2. Num[h] \in Heights BY HeightsFact
    <3> QED BY <1>2, <1>3, <3>1, <3>2, LineFact
  <2>3. Line[final][s] = Line[canon][s]
    <3>1. Num[final] <= Num[canon] /\ Line[canon][Num[final]] = final BY DEF FinalStays, OnLine
    <3>2. Num[final] \in Heights BY <1>3, HeightsFact
    <3> QED BY <1>2, <1>3, <2>1, <3>1, <3>2, LineFact
  <2> QED BY <2>1, <2>2, <2>3
<1>6. CASE ~ s < below
  <2>1. s # Num[h] /\ hashes[s] = NoHash BY <1>2, <1>4, <1>6
  <2>2. s < Num[h] BY <1>2, <2>1
  <2>3. head # NoHash BY <1>1, <1>2, <2>2, FollowsFact
  <2>4. /\ head \in Hash /\ Num[head] \in Nat /\ Num[h] = Num[head] + 1
        /\ \A n \in Heights : n <= Num[head] => Line[h][n] = Line[head][n]
    BY <1>1, <2>3, FollowsFact, HeightsFact DEF TypeOK
  <2>5. s <= Num[head] /\ s <= HeadNumber BY <1>2, <2>2, <2>3, <2>4 DEF HeadNumber
  <2>6. anchor[a] = Line[head][s] \/ Settled(s) BY <2>1, <2>5 DEF StartsAreKnown
  <2> QED BY <1>2, <2>4, <2>5, <2>6 DEF Settled
<1> QED BY <1>5, <1>6

LEMMA PassReorgKnown ==
  ASSUME TypeOK, FinalStays, StartsAreKnown, NEW b \in Heights, Reorg(b), UNCHANGED nodeVars
  PROVE  StartsAreKnown'
<1>1. Reorg(b) /\ UNCHANGED nodeVars OBVIOUS
<1>2. /\ head # NoHash /\ head' # NoHash /\ b <= Num[head] /\ Num[head] \in Nat
      /\ Num[head'] = b /\ watch' = watch
      /\ \A n \in Heights : n <= b => Line[head'][n] = Line[head][n]
  BY <1>1, ReorgFact
<1>3. anchor' = anchor /\ \A n \in Heights : n <= b => hashes'[n] = hashes[n]
  BY <1>1, HeightsFact DEF Reorg, RollbackTo
<1> SUFFICES ASSUME NEW a \in Addr, watch[a] # 0, watch[a] <= b, hashes'[watch[a]] = NoHash
             PROVE  anchor[a] = Line[head][watch[a]] \/ Settled(watch[a])
  BY <1>1, <1>2, <1>3 DEF StartsAreKnown, Settled, HeadNumber, nodeVars, TypeOK
<1>4. watch[a] \in Heights /\ watch[a] \in Nat /\ b \in Nat BY HeightsFact DEF TypeOK
<1>5. watch[a] <= HeadNumber /\ hashes[watch[a]] = NoHash
  BY <1>2, <1>3, <1>4 DEF HeadNumber
<1> QED BY <1>5 DEF StartsAreKnown

-----------------------------------------------------------------------------
(* What comes between two steps of a walk: users and the node *)

\* A new watch lies above the head, where no walker is.
LEMMA WatchKeepsWalk ==
  ASSUME TypeOK, WalkInv, NEW c \in Addr, NEW n \in Heights, UserWatch(c, n)
  PROVE  WalkInv'
<1>1. /\ walk' = walk /\ UNCHANGED nodeVars /\ watch[c] = 0 /\ n > HeadNumber
      /\ \A a \in Addr : watch'[a] = IF a = c THEN n ELSE watch[a]
      /\ UNCHANGED <<created, anchor, hashes, head, syncing>>
  BY DEF UserWatch, StartWatch, Watch, volatile, TypeOK
<1>2. HeadNumber' = HeadNumber /\ HeadNumber \in Nat /\ n \in Nat
  BY <1>1, HeightsFact DEF HeadNumber, TypeOK
<1>3. WalkTypeOK' /\ FinalStays' /\ SlotIsTaken' /\ ChainIsUnbroken' /\ WorkIsPlanned'
  BY <1>1 DEF WalkInv, WalkTypeOK, FinalStays, NodeTypeOK, OnLine, SlotIsTaken, ChainIsUnbroken,
              WorkIsPlanned, Descends, Walking, nodeVars
<1>4. StartsAreKnown'
  <2> SUFFICES ASSUME NEW a \in Addr, watch'[a] # 0, watch'[a] <= HeadNumber, hashes[watch'[a]] = NoHash
               PROVE  anchor[a] = Line[head][watch'[a]] \/ Settled(watch'[a])
    BY <1>1, <1>2 DEF StartsAreKnown, Settled, nodeVars
  <2>1. a # c BY <1>1, <1>2
  <2> QED BY <1>1, <2>1 DEF WalkInv, StartsAreKnown
<1>5. WalkersHold'
  <2> SUFFICES ASSUME NEW a \in Addr, walk.walkers[a] # NoWalker
               PROVE  LET start == walk.walkers[a].start IN
                      /\ start # 0 /\ start <= HeadNumber
                      /\ watch'[a] \in {0, start} \/ watch'[a] > HeadNumber
    BY <1>1, <1>2 DEF WalkersHold
  <2> QED BY <1>1 DEF WalkInv, WalkersHold
<1>6. WalkersAreOnTheChain'
  <2>1. \A a \in Addr : Attached(a)' => a # c /\ Attached(a)
    <3> SUFFICES ASSUME NEW a \in Addr, Attached(a)' PROVE a # c /\ Attached(a) OBVIOUS
    <3>1. ~ walk.walkers[a].done /\ watch'[a] = walk.walkers[a].start
      BY <1>1 DEF Attached, Walking
    <3>2. walk.walkers[a] # NoWalker BY <3>1 DEF NoWalker
    <3>3. watch'[a] <= HeadNumber BY <3>1, <3>2 DEF WalkInv, WalkersHold
    <3>4. a # c BY <1>1, <1>2, <3>3
    <3> QED BY <1>1, <3>1, <3>4 DEF Attached, Walking
  <2>2. \A a \in Addr : Above(a)' = Above(a) BY <1>1 DEF Above
  <2> QED BY <1>1, <2>1, <2>2
    DEF WalkInv, WalkersAreOnTheChain, Settled, Descends, nodeVars
<1> QED BY <1>3, <1>4, <1>5, <1>6 DEF WalkInv

LEMMA UnwatchKeepsWalk ==
  ASSUME TypeOK, WalkInv, NEW c \in Addr, UserUnwatch(c)
  PROVE  WalkInv'
<1>1. /\ walk' = walk /\ UNCHANGED nodeVars
      /\ \A a \in Addr : watch'[a] = IF a = c THEN 0 ELSE watch[a]
      /\ \A a \in Addr : a # c => created'[a] = created[a] /\ anchor'[a] = anchor[a]
      /\ UNCHANGED <<hashes, head, syncing>>
  BY DEF UserUnwatch, EndWatch, Unwatch, volatile, TypeOK
<1>2. HeadNumber' = HeadNumber BY <1>1 DEF HeadNumber
<1>3. WalkTypeOK' /\ FinalStays' /\ SlotIsTaken' /\ ChainIsUnbroken' /\ WorkIsPlanned'
  BY <1>1 DEF WalkInv, WalkTypeOK, FinalStays, NodeTypeOK, OnLine, SlotIsTaken, ChainIsUnbroken,
              WorkIsPlanned, Descends, Walking, nodeVars
<1>4. StartsAreKnown'
  <2> SUFFICES ASSUME NEW a \in Addr, a # c, watch[a] # 0, watch[a] <= HeadNumber,
                      hashes[watch[a]] = NoHash
               PROVE  anchor[a] = Line[head][watch[a]] \/ Settled(watch[a])
    BY <1>1, <1>2 DEF StartsAreKnown, Settled, nodeVars
  <2> QED BY DEF WalkInv, StartsAreKnown
<1>5. WalkersHold' BY <1>1, <1>2 DEF WalkInv, WalkersHold
<1>6. WalkersAreOnTheChain'
  <2>1. \A a \in Addr : Attached(a)' => a # c /\ Attached(a)
    <3> SUFFICES ASSUME NEW a \in Addr, Attached(a)' PROVE a # c /\ Attached(a) OBVIOUS
    <3>1. ~ walk.walkers[a].done /\ watch'[a] = walk.walkers[a].start
      BY <1>1 DEF Attached, Walking
    <3>2. walk.walkers[a] # NoWalker BY <3>1 DEF NoWalker
    <3>3. watch'[a] # 0 BY <3>1, <3>2 DEF WalkInv, WalkersHold
    <3> QED BY <1>1, <3>1, <3>3 DEF Attached, Walking
  <2>2. \A a \in Addr : Above(a)' = Above(a) BY <1>1 DEF Above
  <2> QED BY <1>1, <2>1, <2>2
    DEF WalkInv, WalkersAreOnTheChain, Settled, Descends, nodeVars
<1> QED BY <1>3, <1>4, <1>5, <1>6 DEF WalkInv

\* What is final stays final.
LEMMA NodeKeepsWalk ==
  ASSUME TypeOK, WalkInv, NodeMoves
  PROVE  WalkInv'
<1>1. walk' = walk /\ UNCHANGED <<tables, volatile>> BY DEF NodeMoves, archiveVars
<1>2. final \in Hash /\ canon \in Hash /\ OnLine(final, canon)
  BY DEF WalkInv, FinalStays, NodeTypeOK
<1>3. FinalStays' /\ (final' = final \/ (OnLine(final, final') /\ final' \in Hash))
  BY <1>2 DEF NodeMoves, SetCanon, Finalize, FinalStays, NodeTypeOK
<1>4. \A n \in Heights : Settled(n) => Settled(n)'
  <2> SUFFICES ASSUME NEW n \in Heights, Settled(n), OnLine(final, final'), final' \in Hash
               PROVE  n <= Num[final'] /\ Line[head][n] = Line[final'][n]
    BY <1>1, <1>3 DEF Settled, tables
  <2>1. n <= Num[final] /\ Num[final] <= Num[final'] /\ Line[final'][Num[final]] = final
        /\ Line[head][n] = Line[final][n]
    BY DEF Settled, OnLine
  <2>2. Num[final] \in Heights /\ n \in Nat /\ Num[final] \in Nat /\ Num[final'] \in Nat
    BY <1>2, HeightsFact
  <2>3. Line[final][n] = Line[final'][n] BY <2>1, <2>2, LineFact
  <2> QED BY <2>1, <2>2, <2>3
<1>5. StartsAreKnown'
  BY <1>1, <1>4 DEF WalkInv, StartsAreKnown, HeadNumber, TypeOK, tables
<1>6. WalkTypeOK' /\ SlotIsTaken' /\ ChainIsUnbroken' /\ WorkIsPlanned' /\ WalkersHold'
  BY <1>1 DEF WalkInv, WalkTypeOK, SlotIsTaken, ChainIsUnbroken, WorkIsPlanned, WalkersHold,
              HeadNumber, Descends, Walking, tables, volatile
<1>7. WalkersAreOnTheChain'
  <2>1. \A a \in Addr : Attached(a)' => Attached(a) /\ walk.walkers[a].start \in Heights
    BY <1>1 DEF Attached, Walking, WalkInv, WalkTypeOK, Walker, tables
  <2>2. \A a \in Addr : Above(a)' = Above(a) BY <1>1 DEF Above
  <2> QED BY <1>1, <1>4, <2>1, <2>2 DEF WalkInv, WalkersAreOnTheChain, Descends, tables
<1> QED BY <1>3, <1>5, <1>6, <1>7 DEF WalkInv

-----------------------------------------------------------------------------
(* The plan *)

LEMMA LocalKeeps ==
  ASSUME WalkInv, UNCHANGED tables, UNCHANGED nodeVars
  PROVE  /\ FinalStays' /\ StartsAreKnown' /\ HeadNumber' = HeadNumber
         /\ \A n : Settled(n)' <=> Settled(n)
         /\ watch' = watch /\ created' = created /\ head' = head
BY DEF WalkInv, FinalStays, NodeTypeOK, OnLine, StartsAreKnown, Settled, HeadNumber, tables, nodeVars

LEMMA BeginKeepsWalk ==
  ASSUME WalkInv, NEW as \in SUBSET Addr, NEW to \in Heights \ {0}, NEW max \in Nat,
         NEW r \in BOOLEAN, WalkBegin(as, to, max, r)
  PROVE  WalkInv'
<1>1. UNCHANGED tables /\ UNCHANGED nodeVars /\ syncing' = TRUE BY DEF WalkBegin, BeginSync
<1>2. walk' = [pc |-> "plan", target |-> to, budget |-> max, resolve |-> r, todo |-> as,
               item |-> "none", walkers |-> [a \in Addr |-> NoWalker], cur |-> 0,
               expect |-> NoHash, last |-> NoHash, blk |-> NoHash, queue |-> <<>>, out |-> "none"]
  BY DEF WalkBegin, NoWalk
<1>3. WalkTypeOK'
  <2>1. [a \in Addr |-> NoWalker] \in [Addr -> Walker] BY NoWalkerFact
  <2>2. to \in Heights /\ max \in Nat /\ 0 \in -1 .. MaxHeight
    BY HeightsFact
  <2> QED BY <1>2, <2>1, <2>2, EmptyFact DEF WalkTypeOK
<1>4. to # 0 OBVIOUS
<1>5. \A a \in Addr : walk'.walkers[a] = NoWalker /\ walk'.walkers[a].done
  BY <1>2, NoWalkerFact
<1>6. SlotIsTaken' /\ WalkersHold' BY <1>1, <1>2, <1>4, <1>5 DEF SlotIsTaken, WalkersHold
<1>7. ChainIsUnbroken' /\ WorkIsPlanned'
  BY <1>2, <1>5 DEF ChainIsUnbroken, WorkIsPlanned, Descends
<1>8. WalkersAreOnTheChain' BY <1>5 DEF WalkersAreOnTheChain, Attached, Walking
<1> QED BY <1>1, <1>3, <1>6, <1>7, <1>8, LocalKeeps DEF WalkInv

\* The start of a walker is that of the watch, inside the covered range.
LEMMA PlanStartKeepsWalk ==
  ASSUME TypeOK, WalkInv, PlanStart, ~ walk'.pc = "idle"
  PROVE  WalkInv'
<1>1. PICK a \in walk.todo :
        /\ watch[a] # 0 /\ HeadNumber >= watch[a] /\ walk.pc = "plan"
        /\ walk' = [walk EXCEPT !.pc = "known", !.todo = @ \ {a}, !.item = a,
                                !.walkers[a].start = watch[a]]
        /\ UNCHANGED archiveVars /\ UNCHANGED nodeVars
  BY DEF PlanStart, WalkAt, EndWalk, NoWalk
<1>2. a \in Addr /\ walk.walkers \in [Addr -> Walker] /\ walk.walkers[a] = NoWalker
  BY <1>1 DEF WalkInv, WalkTypeOK, WorkIsPlanned
<1> DEFINE w == [NoWalker EXCEPT !.start = watch[a]]
<1> DEFINE ws == [walk.walkers EXCEPT ![a] = w]
<1>3. walk' = [walk EXCEPT !.pc = "known", !.todo = walk.todo \ {a}, !.item = a, !.walkers = ws]
  BY <1>1, <1>2 DEF WalkInv, WalkTypeOK
<1>4. ws \in [Addr -> Walker]
  <2>1. watch[a] \in Heights BY <1>2 DEF TypeOK
  <2>2. w \in Walker BY <2>1, NoWalkerFact DEF Walker
  <2> HIDE DEF w
  <2> QED BY <1>2, <2>2
<1>5. \A c \in Addr : ws[c] = IF c = a THEN w ELSE walk.walkers[c]
  <2> HIDE DEF w
  <2> QED BY <1>2
<1> HIDE DEF ws
<1>6. /\ walk'.pc = "known" /\ walk'.todo = walk.todo \ {a} /\ walk'.item = a
       /\ walk'.walkers = ws /\ walk'.target = walk.target
  BY <1>3 DEF WalkInv, WalkTypeOK
<1>7. WalkTypeOK' BY <1>2, <1>3, <1>4 DEF WalkInv, WalkTypeOK
<1>8. UNCHANGED tables /\ syncing' = syncing BY <1>1 DEF archiveVars, volatile
<1>9. \A c \in Addr : walk'.walkers[c] = IF c = a THEN w ELSE walk.walkers[c] BY <1>5, <1>6
<1>10. w.start = watch[a] /\ w.done BY NoWalkerFact DEF Walker
<1> HIDE DEF w
<1>11. SlotIsTaken' /\ ChainIsUnbroken' /\ WorkIsPlanned'
  BY <1>1, <1>2, <1>6, <1>8, <1>9, <1>10
  DEF WalkInv, SlotIsTaken, ChainIsUnbroken, WorkIsPlanned, Descends
<1>12. WalkersHold'
  BY <1>1, <1>8, <1>9, <1>10, LocalKeeps DEF WalkInv, WalkersHold
<1>13. WalkersAreOnTheChain'
  <2>1. \A c \in Addr : Attached(c)' => c # a /\ Attached(c)
    BY <1>1, <1>8, <1>9, <1>10, LocalKeeps DEF Attached, Walking
  <2> QED BY <1>1, <1>6, <1>8, <1>9, <2>1, LocalKeeps DEF WalkInv, WalkersAreOnTheChain, Descends
<1> QED BY <1>1, <1>7, <1>8, <1>11, <1>12, <1>13, LocalKeeps DEF WalkInv

\* A walker that will do something knows where it joins the chain.
LEMMA PlanKnownKeepsWalk ==
  ASSUME TypeOK, HashesAreHeld, WalkInv, PlanKnown
  PROVE  WalkInv'
<1> DEFINE a == walk.item
           start == walk.walkers[a].start
           unresolved == UnknownPreValues(a)
           nothing == \/ created[a] # 0 \/ walk.target >= start
                      \/ walk.resolve /\ unresolved = {}
           w == [start |-> start, known |-> Known(a, start), joined |-> FALSE,
                 unresolved |-> unresolved, done |-> nothing]
<1>1. /\ walk.pc = "known" /\ UNCHANGED archiveVars /\ UNCHANGED nodeVars
      /\ walk' = [walk EXCEPT !.pc = "plan", !.item = "none", !.walkers[a] = w]
  BY DEF PlanKnown, LocalStep, WalkAt
<1>2. a \in Addr /\ walk.walkers \in [Addr -> Walker] /\ start # 0 /\ start \in Heights
  BY <1>1, HeightsFact DEF WalkInv, WalkTypeOK, WorkIsPlanned, Walker
<1>3. /\ walk'.pc = "plan" /\ walk'.todo = walk.todo /\ walk'.target = walk.target
      /\ walk'.walkers = [walk.walkers EXCEPT ![a] = w]
  BY <1>1, <1>2 DEF WalkInv, WalkTypeOK
<1>4. WalkTypeOK'
  <2>1. w \in Walker
    <3>1. Known(a, start) \in Hash \cup {NoHash} BY <1>2 DEF Known, TypeOK
    <3>2. unresolved \in SUBSET Slot /\ nothing \in BOOLEAN BY DEF UnknownPreValues
    <3> HIDE DEF unresolved, nothing
    <3> QED BY <1>2, <3>1, <3>2 DEF Walker
  <2>2. [walk.walkers EXCEPT ![a] = w] \in [Addr -> Walker] BY <1>2, <2>1
  <2>3. walk' = [walk EXCEPT !.pc = "plan", !.item = "none",
                             !.walkers = [walk.walkers EXCEPT ![a] = w]]
    BY <1>1, <1>2 DEF WalkInv, WalkTypeOK
  <2> HIDE DEF w
  <2> QED BY <1>2, <2>2, <2>3 DEF WalkInv, WalkTypeOK
<1>5. UNCHANGED tables /\ syncing' = syncing BY <1>1 DEF archiveVars, volatile
<1>6. /\ w.start = start /\ w.known = Known(a, start) /\ ~ w.joined /\ (~ w.done => created[a] = 0)
  OBVIOUS
<1>7. start <= HeadNumber /\ (watch[a] \in {0, start} \/ watch[a] > HeadNumber)
  BY <1>2 DEF WalkInv, WalkersHold, NoWalker
<1>8. watch[a] = start => w.known = Line[head][start] \/ Settled(start)
  <2>1. CASE hashes[start] # NoHash BY <1>2, <1>6, <2>1 DEF Known, HashesAreHeld
  <2>2. CASE hashes[start] = NoHash
    BY <1>2, <1>6, <1>7, <2>2 DEF Known, WalkInv, StartsAreKnown
  <2> QED BY <2>1, <2>2
<1>9. a \notin walk.todo BY <1>1, <1>2, <1>7 DEF WalkInv, WorkIsPlanned, NoWalker
<1> HIDE DEF w
<1>10. \A c \in Addr : walk'.walkers[c] = IF c = a THEN w ELSE walk.walkers[c]
  BY <1>2, <1>3
<1> HIDE DEF a, start
<1>11. SlotIsTaken' /\ ChainIsUnbroken'
  BY <1>1, <1>3, <1>5 DEF WalkInv, SlotIsTaken, ChainIsUnbroken, Descends
<1>12. WorkIsPlanned'
  BY <1>1, <1>3, <1>9, <1>10 DEF WalkInv, WorkIsPlanned, WalkTypeOK
<1>13. WalkersHold'
  BY <1>1, <1>2, <1>5, <1>6, <1>7, <1>10, LocalKeeps DEF WalkInv, WalkersHold
<1>14. WalkersAreOnTheChain'
  <2> SUFFICES ASSUME NEW c \in Addr, Attached(c)'
               PROVE  /\ created[c] = 0 /\ ~ walk'.walkers[c].joined
                      /\ \/ walk'.walkers[c].known = Line[head][walk'.walkers[c].start]
                         \/ Settled(walk'.walkers[c].start)
    BY <1>1, <1>3, <1>5, LocalKeeps DEF WalkersAreOnTheChain, Descends
  <2>0. ~ walk'.walkers[c].done /\ watch[c] = walk'.walkers[c].start
    BY <1>1, <1>5, LocalKeeps DEF Attached, Walking
  <2>1. CASE c = a
    <3>1. walk'.walkers[c] = w BY <1>10, <2>1
    <3>2. ~ w.done /\ watch[a] = start BY <1>6, <2>0, <2>1, <3>1
    <3> QED BY <1>6, <1>8, <2>1, <3>1, <3>2
  <2>2. CASE c # a
    <3>1. Attached(c) BY <1>10, <2>0, <2>2 DEF Attached, Walking
    <3> QED BY <1>1, <1>10, <2>2, <3>1 DEF WalkInv, WalkersAreOnTheChain
  <2> QED BY <2>1, <2>2
<1> QED BY <1>1, <1>4, <1>5, <1>11, <1>12, <1>13, <1>14, LocalKeeps DEF WalkInv

\* The highest start is that of a walker.
LEMMA PlanDoneKeepsWalk ==
  ASSUME TypeOK, WalkInv, PlanDone, ~ walk'.pc = "idle"
  PROVE  WalkInv'
<1> DEFINE T == {walk.walkers[a].start : a \in Walking}
<1>1. /\ walk.pc = "plan" /\ Walking # {} /\ UNCHANGED archiveVars /\ UNCHANGED nodeVars
      /\ walk' = [walk EXCEPT !.pc = "above", !.cur = Max(T)]
  BY DEF PlanDone, WalkAt, EndWalk, NoWalk
<1>2. Max(T) \in T /\ \A n \in T : n <= Max(T)
  <2>1. T # {} /\ T \subseteq 0 .. MaxHeight
    BY <1>1 DEF Walking, WalkInv, WalkTypeOK, Walker
  <2> HIDE DEF T
  <2> QED BY <2>1, HeightsFact, MaxIsMember
<1>3. Max(T) \in Heights BY <1>2 DEF Walking, WalkInv, WalkTypeOK, Walker
<1>4. \A a \in Walking : walk.walkers[a].start <= Max(T) BY <1>2
<1> HIDE DEF T
<1>5. /\ walk'.pc = "above" /\ walk'.cur = Max(T)
      /\ walk'.todo = walk.todo /\ walk'.target = walk.target /\ walk'.walkers = walk.walkers
  BY <1>1 DEF WalkInv, WalkTypeOK
<1>6. WalkTypeOK'
  <2>1. Max(T) \in -1 .. MaxHeight BY <1>3, HeightsFact
  <2> QED BY <1>1, <2>1 DEF WalkInv, WalkTypeOK
<1>7. UNCHANGED tables /\ syncing' = syncing BY <1>1 DEF archiveVars, volatile
<1>8. SlotIsTaken' /\ ChainIsUnbroken' /\ WorkIsPlanned' /\ WalkersHold'
  BY <1>1, <1>3, <1>4, <1>5, <1>7, LocalKeeps, HeightsFact
  DEF WalkInv, SlotIsTaken, ChainIsUnbroken, WorkIsPlanned, WalkersHold, Descends, Walking
<1>9. \A a \in Addr : Attached(a)' => Attached(a)
  BY <1>1, <1>5, <1>7, LocalKeeps DEF Attached, Walking
<1>10. WalkersAreOnTheChain'
  BY <1>1, <1>5, <1>7, <1>9, LocalKeeps DEF WalkInv, WalkersAreOnTheChain, Descends
<1> QED BY <1>1, <1>6, <1>7, <1>8, <1>10, LocalKeeps DEF WalkInv

\* A start that is final lies on the line of the block the node serves.
LEMMA AskAboveKeepsWalk ==
  ASSUME TypeOK, WalkInv, AskAbove, ~ walk'.pc = "idle"
  PROVE  WalkInv'
<1> DEFINE h == SourceBlock(walk.cur)
<1>1. /\ walk.pc = "above" /\ h # NoHash /\ UNCHANGED archiveVars /\ UNCHANGED nodeVars
      /\ walk' = [walk EXCEPT !.pc = "batch", !.expect = Parent(h), !.last = h, !.cur = walk.cur - 1]
  BY DEF AskAbove, WalkAt, EndWalk, NoWalk
<1>2. canon \in Hash /\ final \in Hash /\ walk.cur <= Num[canon] /\ h = Line[canon][walk.cur]
  BY <1>1 DEF WalkInv, FinalStays, NodeTypeOK, SourceBlock
<1>3. ASSUME NEW a \in Addr, Attached(a)
      PROVE  walk.walkers[a].start \in Heights /\ walk.walkers[a].start <= walk.cur
  BY <1>1, <1>3 DEF Attached, WalkInv, WalkTypeOK, Walker, WorkIsPlanned
<1>4. /\ h \in Hash /\ Num[h] = walk.cur
      /\ \A n \in Heights : n <= walk.cur => Line[h][n] = Line[canon][n]
  <2>1. walk.cur \in Heights BY <1>1, HeightsFact DEF WalkInv, WalkTypeOK, WorkIsPlanned
  <2> QED BY <1>2, <2>1, LineFact
<1>5. ASSUME NEW a \in Addr, Attached(a), Settled(walk.walkers[a].start)
      PROVE  Line[h][walk.walkers[a].start] = Line[head][walk.walkers[a].start]
  <2> DEFINE n == walk.walkers[a].start
  <2>1. n \in Heights /\ n <= walk.cur BY <1>3, <1>5
  <2>2. n <= Num[final] /\ Line[head][n] = Line[final][n] BY <1>5 DEF Settled
  <2>3. Num[final] <= Num[canon] /\ Line[canon][Num[final]] = final
    BY DEF WalkInv, FinalStays, OnLine
  <2>4. Num[final] \in Heights BY <1>2, HeightsFact
  <2> HIDE DEF n, h
  <2>5. Line[final][n] = Line[canon][n] BY <1>2, <2>1, <2>2, <2>3, <2>4, LineFact
  <2> QED BY <1>4, <2>1, <2>2, <2>5 DEF n
<1> HIDE DEF h
<1>6. Parent(h) \in Hash \cup {NoHash} BY <1>4, ParentFact
<1>7. /\ walk'.pc = "batch" /\ walk'.expect = Parent(h) /\ walk'.last = h /\ walk'.cur = walk.cur - 1
      /\ walk'.todo = walk.todo /\ walk'.target = walk.target /\ walk'.walkers = walk.walkers
  BY <1>1 DEF WalkInv, WalkTypeOK
<1>8. WalkTypeOK'
  <2>1. walk.cur - 1 \in -1 .. MaxHeight
    BY <1>1, HeightsFact DEF WalkInv, WalkTypeOK, WorkIsPlanned
  <2> QED BY <1>1, <1>4, <1>6, <2>1 DEF WalkInv, WalkTypeOK
<1>9. UNCHANGED tables /\ syncing' = syncing BY <1>1 DEF archiveVars, volatile
<1>10. SlotIsTaken' /\ WorkIsPlanned' /\ WalkersHold'
  BY <1>1, <1>7, <1>9, LocalKeeps DEF WalkInv, SlotIsTaken, WorkIsPlanned, WalkersHold
<1>11. ChainIsUnbroken'
  <2>1. walk.cur - 1 + 1 = walk.cur BY HeightsFact DEF WalkInv, WalkTypeOK
  <2> QED BY <1>4, <1>7, <2>1 DEF ChainIsUnbroken, Descends
<1>12. WalkersAreOnTheChain'
  <2>1. \A a \in Addr : Attached(a)' => Attached(a)
    BY <1>1, <1>7, <1>9, LocalKeeps DEF Attached, Walking
  <2>2. \A a \in Addr : Above(a)' = h BY <1>7 DEF Above
  <2> SUFFICES ASSUME NEW a \in Addr, Attached(a)
               PROVE  /\ created[a] = 0 /\ ~ walk.walkers[a].joined
                      /\ walk.walkers[a].start <= Num[h]
                      /\ \/ walk.walkers[a].known = Line[head][walk.walkers[a].start]
                         \/ Line[h][walk.walkers[a].start] = Line[head][walk.walkers[a].start]
    BY <1>1, <1>7, <1>9, <2>1, <2>2, LocalKeeps DEF WalkersAreOnTheChain
  <2> QED BY <1>1, <1>3, <1>4, <1>5 DEF WalkInv, WalkersAreOnTheChain
<1> QED BY <1>1, <1>8, <1>9, <1>10, <1>11, <1>12, LocalKeeps DEF WalkInv

-----------------------------------------------------------------------------
(* Down the chain *)

\* A step that reads and checks, and leaves walkers and chain where they are.
LEMMA CheckKeeps ==
  ASSUME WalkInv, UNCHANGED tables, UNCHANGED nodeVars, syncing' = syncing,
         walk.pc \in {"batch", "fetch", "take"}, walk'.pc \in {"batch", "fetch", "take"},
         walk'.walkers = walk.walkers, walk'.target = walk.target, walk'.last = walk.last,
         WalkTypeOK', ChainIsUnbroken'
  PROVE  WalkInv'
<1>1. SlotIsTaken' /\ WalkersHold' /\ WorkIsPlanned'
  BY LocalKeeps DEF WalkInv, SlotIsTaken, WalkersHold, WorkIsPlanned
<1>2. \A a \in Addr : Attached(a)' => Attached(a)
  BY LocalKeeps DEF Attached, Walking
<1>3. \A a \in Addr : Above(a)' = Above(a) BY DEF Above
<1>4. WalkersAreOnTheChain'
  BY <1>2, <1>3, LocalKeeps DEF WalkInv, WalkersAreOnTheChain, Descends
<1> QED BY <1>1, <1>4, LocalKeeps DEF WalkInv

\* A batch ends above the target and within the budget.
LEMMA BatchKeepsWalk ==
  ASSUME WalkInv, WalkBatch, ~ walk'.pc = "idle"
  PROVE  WalkInv'
<1> DEFINE T == {FetchAhead, walk.cur - walk.target + 1, walk.budget}
           lo == walk.cur - BatchSize + 1
           queue == [n \in lo .. walk.cur |-> "asked"]
<1>1. /\ walk.pc = "batch" /\ walk.target <= walk.cur /\ walk.budget > 0
      /\ walk' = [walk EXCEPT !.pc = "fetch", !.queue = queue]
      /\ UNCHANGED archiveVars /\ UNCHANGED nodeVars
  BY DEF WalkBatch, WalkAt, EndWalk, NoWalk
<1>2. /\ walk.target \in Nat \ {0} /\ walk.target <= MaxHeight /\ walk.budget \in Nat
      /\ walk.cur \in Int /\ walk.cur <= MaxHeight /\ MaxHeight \in Nat
  BY <1>1, HeightsFact DEF WalkInv, WalkTypeOK, SlotIsTaken
<1>3. /\ BatchSize \in Nat \ {0} /\ BatchSize <= walk.cur - walk.target + 1
      /\ BatchSize <= walk.budget
  <2>1. T \subseteq Nat \ {0} /\ T # {} BY <1>1, <1>2, BackfillAssumption
  <2>2. Min(T) \in T /\ \A n \in T : Min(T) <= n
    <3> HIDE DEF T
    <3>1. T \subseteq Nat BY <2>1
    <3> QED BY <2>1, <3>1, MinIsMember
  <2>3. BatchSize = Min(T) BY DEF BatchSize
  <2> QED BY <2>1, <2>2, <2>3
<1>4. /\ lo \in Heights \ {0} /\ lo <= walk.cur /\ walk.cur - lo < walk.budget
      /\ lo .. walk.cur \subseteq Heights
  BY <1>1, <1>2, <1>3
<1> HIDE DEF lo
<1>5. queue \in UNION {[D -> Answer] : D \in SUBSET Heights} /\ DOMAIN queue = lo .. walk.cur
  <2>1. queue \in [lo .. walk.cur -> Answer] BY DEF Answer
  <2>2. lo .. walk.cur \in SUBSET Heights BY <1>4
  <2> QED BY <2>1, <2>2
<1> HIDE DEF queue
<1>6. /\ walk'.pc = "fetch" /\ walk'.queue = queue /\ walk'.cur = walk.cur
      /\ walk'.last = walk.last /\ walk'.expect = walk.expect /\ walk'.budget = walk.budget
      /\ walk'.walkers = walk.walkers /\ walk'.target = walk.target
  BY <1>1 DEF WalkInv, WalkTypeOK
<1>7. WalkTypeOK' BY <1>1, <1>5 DEF WalkInv, WalkTypeOK
<1>8. ChainIsUnbroken' BY <1>1, <1>4, <1>5, <1>6 DEF WalkInv, ChainIsUnbroken, Descends
<1> QED BY <1>1, <1>6, <1>7, <1>8, CheckKeeps DEF archiveVars, volatile

\* An answer may be of any branch: nothing is said of it until it is taken.
LEMMA AnswerKeepsWalk ==
  ASSUME WalkInv, NEW n \in Heights, WalkAnswer(n)
  PROVE  WalkInv'
<1>1. PICK answer \in {SourceBlock(n), "failed"} :
        /\ walk.pc = "fetch" /\ n \in DOMAIN walk.queue
        /\ walk' = [walk EXCEPT !.queue = [walk.queue EXCEPT ![n] = answer],
             !.pc = IF \E m \in DOMAIN [walk.queue EXCEPT ![n] = answer] :
                          [walk.queue EXCEPT ![n] = answer][m] = "asked" THEN "fetch" ELSE "take"]
        /\ UNCHANGED archiveVars /\ UNCHANGED nodeVars
  BY DEF WalkAnswer, WalkAt, LocalStep
<1> DEFINE queue == [walk.queue EXCEPT ![n] = answer]
           pc == IF \E m \in DOMAIN queue : queue[m] = "asked" THEN "fetch" ELSE "take"
<1>2. pc \in {"fetch", "take"} OBVIOUS
<1>3. answer \in Answer
  <2>1. SourceBlock(n) \in Hash \cup {NoHash}
    BY LineFact DEF SourceBlock, WalkInv, FinalStays, NodeTypeOK
  <2> QED BY <2>1 DEF Answer
<1>4. queue \in UNION {[D -> Answer] : D \in SUBSET Heights} /\ DOMAIN queue = DOMAIN walk.queue
  <2>1. PICK D \in SUBSET Heights : walk.queue \in [D -> Answer] BY DEF WalkInv, WalkTypeOK
  <2>2. queue \in [D -> Answer] BY <1>3, <2>1
  <2> QED BY <2>1, <2>2
<1>5. walk' = [walk EXCEPT !.queue = queue, !.pc = pc] BY <1>1
<1> HIDE DEF queue, pc
<1>6. /\ walk'.pc = pc /\ walk'.queue = queue /\ walk'.cur = walk.cur
      /\ walk'.last = walk.last /\ walk'.expect = walk.expect /\ walk'.budget = walk.budget
      /\ walk'.walkers = walk.walkers /\ walk'.target = walk.target
  BY <1>5 DEF WalkInv, WalkTypeOK
<1>7. WalkTypeOK' BY <1>2, <1>4, <1>5 DEF WalkInv, WalkTypeOK
<1>8. ChainIsUnbroken' BY <1>1, <1>2, <1>4, <1>6 DEF WalkInv, ChainIsUnbroken, Descends
<1> QED BY <1>1, <1>2, <1>6, <1>7, <1>8, CheckKeeps DEF archiveVars, volatile

\* A block that is taken is the parent of the one above it.
LEMMA TakeKeepsWalk ==
  ASSUME TypeOK, WalkInv, WalkTake, ~ walk'.pc = "idle"
  PROVE  WalkInv'
<1> DEFINE n == walk.cur
           h == walk.queue[n]
           budget == IF walk.budget = NoBudget THEN walk.budget ELSE walk.budget - 1
           queue == [m \in DOMAIN walk.queue \ {n} |-> walk.queue[m]]
           todo == {a \in Walking : walk.walkers[a].start = n + 1}
<1>1. /\ walk.pc = "take" /\ h = walk.expect /\ h \in Committed /\ h \in Hash
      /\ walk' = [walk EXCEPT !.pc = "apply", !.blk = h, !.budget = budget, !.queue = queue,
                              !.todo = todo]
      /\ UNCHANGED archiveVars /\ UNCHANGED nodeVars
  BY DataAssumption DEF WalkTake, WalkAt, EndWalk, NoWalk, Chained
<1>2. PICK lo \in Heights \ {0} : /\ lo <= walk.cur /\ DOMAIN walk.queue = lo .. walk.cur
                                  /\ walk.cur - lo < walk.budget
  BY <1>1 DEF WalkInv, ChainIsUnbroken
<1>3. /\ n \in Nat \ {0} /\ n <= MaxHeight /\ lo \in Nat \ {0} /\ walk.budget \in Nat
      /\ MaxHeight \in Nat
  BY <1>2, HeightsFact DEF WalkInv, WalkTypeOK
<1>4. budget \in Nat /\ n - lo <= budget BY <1>2, <1>3 DEF NoBudget
<1>5. queue \in UNION {[D -> Answer] : D \in SUBSET Heights} /\ DOMAIN queue = lo .. n - 1
  <2>1. PICK D \in SUBSET Heights : walk.queue \in [D -> Answer] BY DEF WalkInv, WalkTypeOK
  <2>2. queue \in [D \ {n} -> Answer] BY <2>1
  <2>3. D \ {n} \in SUBSET Heights OBVIOUS
  <2>4. DOMAIN queue = lo .. n - 1 BY <1>2, <1>3
  <2> HIDE DEF queue
  <2> QED BY <2>2, <2>3, <2>4
<1>6. todo \in SUBSET Addr BY DEF Walking
<1>7. walk.last \in Hash /\ Num[walk.last] = n + 1 /\ h = Parent(walk.last)
  BY <1>1 DEF WalkInv, ChainIsUnbroken, Descends
<1>8. Num[h] = n /\ \A m \in Heights : m <= n => Line[h][m] = Line[walk.last][m]
  <2>1. Num[walk.last] # 0 /\ n + 1 - 1 = n /\ \A m \in Heights : m <= n => m < n + 1
    BY <1>3, <1>7, HeightsFact
  <2>2. /\ Num[Parent(walk.last)] = Num[walk.last] - 1
        /\ \A m \in Heights : m < Num[walk.last] => Line[Parent(walk.last)][m] = Line[walk.last][m]
    BY <1>7, <2>1, ParentFact
  <2> HIDE DEF h, n
  <2>3. Num[h] = n BY <1>3, <1>7, <2>1, <2>2
  <2>4. ASSUME NEW m \in Heights, m <= n PROVE Line[h][m] = Line[walk.last][m]
    BY <1>3, <1>7, <2>1, <2>2, <2>4
  <2> QED BY <2>3, <2>4
<1> HIDE DEF h, budget, queue
<1>9. /\ walk'.pc = "apply" /\ walk'.blk = h /\ walk'.budget = budget /\ walk'.queue = queue
      /\ walk'.todo = todo /\ walk'.cur = n /\ walk'.last = walk.last
      /\ walk'.expect = walk.expect /\ walk'.walkers = walk.walkers /\ walk'.target = walk.target
  BY <1>1 DEF WalkInv, WalkTypeOK
<1>10. WalkTypeOK'
  <2> HIDE DEF todo
  <2> QED BY <1>1, <1>4, <1>5, <1>6 DEF WalkInv, WalkTypeOK
<1>11. UNCHANGED tables /\ syncing' = syncing BY <1>1 DEF archiveVars, volatile
<1>12. SlotIsTaken' /\ WalkersHold'
  BY <1>1, <1>9, <1>11, LocalKeeps DEF WalkInv, SlotIsTaken, WalkersHold
<1>13. ChainIsUnbroken'
  BY <1>1, <1>2, <1>4, <1>5, <1>7, <1>9 DEF WalkInv, ChainIsUnbroken, Descends
<1>14. WorkIsPlanned' BY <1>9 DEF WorkIsPlanned, Walking
<1>15. WalkersAreOnTheChain'
  <2> SUFFICES ASSUME NEW a \in Addr, Attached(a)
               PROVE  LET w == walk.walkers[a]
                          above == IF a \in todo THEN walk.last ELSE h
                      IN  /\ created[a] = 0 /\ w.start <= Num[above]
                          /\ w.joined => above = Line[head][w.start]
                          /\ ~ w.joined =>
                               \/ w.known = Line[head][w.start]
                               \/ Line[above][w.start] = Line[head][w.start]
    <3>1. \A a \in Addr : Attached(a)' => Attached(a)
      BY <1>1, <1>9, <1>11, LocalKeeps DEF Attached, Walking
    <3>2. \A a \in Addr : Above(a)' = IF a \in todo THEN walk.last ELSE h BY <1>9 DEF Above
    <3> HIDE DEF todo
    <3> QED BY <1>1, <1>9, <1>11, <3>1, <3>2, LocalKeeps DEF WalkersAreOnTheChain
  <2> DEFINE start == walk.walkers[a].start
  <2>1. /\ created[a] = 0 /\ start <= n + 1 /\ a \in Walking
        /\ walk.walkers[a].joined => walk.last = Line[head][start]
        /\ ~ walk.walkers[a].joined =>
             walk.walkers[a].known = Line[head][start] \/ Line[walk.last][start] = Line[head][start]
    BY <1>1, <1>7 DEF WalkInv, WalkersAreOnTheChain, Attached, Above, Descends
  <2>2. start \in Heights /\ start \in Nat BY HeightsFact DEF WalkInv, WalkTypeOK, Walker
  <2>3. CASE a \in todo BY <1>7, <2>1, <2>3
  <2>4. CASE a \notin todo
    <3>1. start # n + 1 BY <2>1, <2>4
    <3>2. start <= n BY <1>3, <2>1, <2>2, <3>1
    <3>3. ~ walk.walkers[a].joined
      <4>1. start <= Num[head] /\ head \in Hash
        BY <2>1, <2>2 DEF WalkInv, WalkersHold, NoWalker, Walking, HeadNumber, TypeOK
      <4>2. Num[Line[head][start]] = start BY <2>2, <4>1, LineFact
      <4> QED BY <1>7, <2>1, <3>1, <4>2
    <3> QED BY <1>8, <2>1, <2>2, <2>4, <3>2, <3>3
  <2> QED BY <2>3, <2>4
<1> QED BY <1>1, <1>10, <1>11, <1>12, <1>13, <1>14, <1>15, LocalKeeps DEF WalkInv

\* Where a walker stands that has the block in work before it.
LEMMA WalkerFact ==
  ASSUME TypeOK, WalkInv, walk.pc = "apply", NEW a \in walk.todo
  PROVE  /\ a \in Addr /\ a \in Walking /\ walk.walkers[a].start = walk.cur + 1
         /\ walk.cur \in Nat \ {0} /\ walk.cur \in Heights /\ walk.cur + 1 <= HeadNumber
         /\ head # NoHash /\ head \in Hash /\ HeadNumber = Num[head] /\ Num[head] \in Nat
         /\ watch[a] \in {0, walk.cur + 1} \/ watch[a] > HeadNumber
         /\ walk.blk \in Hash /\ walk.blk \in Committed /\ Num[walk.blk] = walk.cur
         /\ walk.last \in Hash /\ Num[walk.last] = walk.cur + 1
         /\ \A n \in Heights : n <= walk.cur => Line[walk.blk][n] = Line[walk.last][n]
<1>1. a \in Addr /\ a \in Walking /\ walk.walkers[a].start = walk.cur + 1
  BY DEF WalkInv, WorkIsPlanned, Walking
<1>2. /\ walk.cur + 1 <= HeadNumber
      /\ watch[a] \in {0, walk.cur + 1} \/ watch[a] > HeadNumber
  BY <1>1 DEF WalkInv, WalkersHold, NoWalker, Walking
<1>3. walk.cur \in Nat \ {0} /\ walk.cur \in Heights
  BY HeightsFact DEF WalkInv, WalkTypeOK, ChainIsUnbroken
<1>4. head # NoHash BY <1>2, <1>3 DEF HeadNumber
<1>5. head \in Hash /\ HeadNumber = Num[head] /\ Num[head] \in Nat
  BY <1>4, HeightsFact DEF HeadNumber, TypeOK
<1>6. /\ walk.last \in Hash /\ Num[walk.last] = walk.cur + 1
      /\ walk.blk = Parent(walk.last) /\ walk.blk \in Committed
  BY DEF WalkInv, ChainIsUnbroken, Descends
<1>7. /\ Parent(walk.last) \in Hash /\ Num[Parent(walk.last)] = Num[walk.last] - 1
      /\ \A n \in Heights : n < Num[walk.last] => Line[Parent(walk.last)][n] = Line[walk.last][n]
  BY <1>3, <1>6, ParentFact
<1>8. \A n \in Heights : n <= walk.cur => n < walk.cur + 1 BY <1>3, HeightsFact
<1>9. Num[walk.blk] = walk.cur BY <1>3, <1>6, <1>7
<1> QED BY <1>1, <1>2, <1>3, <1>4, <1>5, <1>6, <1>7, <1>8, <1>9

\* A walker that has not found its start replaced, and may still write, is on the line
\* of the head: what it writes is the block below its start there.
LEMMA WriteLowers ==
  ASSUME TypeOK, WalkInv, walk.pc = "apply", NEW a \in walk.todo,
         ~ Replaced(walk.walkers[a]), watch[a] = Num[walk.blk] + 1, BackfillBlock(a, walk.blk)
  PROVE  Lower(a) /\ walk.blk = Line[head][walk.cur]
<1> DEFINE n == walk.cur
           w == walk.walkers[a]
<1>1. /\ a \in Addr /\ a \in Walking /\ w.start = n + 1 /\ n \in Nat \ {0} /\ n \in Heights
      /\ n + 1 <= Num[head] /\ head # NoHash /\ head \in Hash /\ Num[head] \in Nat
      /\ walk.blk \in Committed /\ Num[walk.blk] = n /\ walk.blk \in Hash
      /\ walk.last \in Hash /\ Num[walk.last] = n + 1
      /\ Line[walk.blk][n] = Line[walk.last][n]
  BY WalkerFact
<1>2. Attached(a) BY <1>1 DEF Attached
<1>3. /\ created[a] = 0
      /\ w.joined => walk.last = Line[head][n + 1]
      /\ ~ w.joined => w.known = Line[head][n + 1] \/ Line[walk.last][n + 1] = Line[head][n + 1]
  BY <1>1, <1>2 DEF WalkInv, WalkersAreOnTheChain, Descends, Above
<1>4. n + 1 \in Heights /\ Line[head][n + 1] \in Hash
      /\ \A m \in Heights : m <= n + 1 => Line[Line[head][n + 1]][m] = Line[head][m]
  <2>1. n + 1 \in Heights BY <1>1, HeightsFact
  <2> QED BY <1>1, <2>1, LineFact
<1>5. walk.last = Line[head][n + 1]
  <2>1. w.joined \/ w.known = NoHash \/ w.known = walk.last BY DEF Replaced
  <2>2. Line[walk.last][n + 1] = walk.last BY <1>1, TreeAssumption
  <2>3. Line[head][n + 1] # NoHash BY <1>4, HeightsFact
  <2> HIDE DEF w, n
  <2> QED BY <1>3, <2>1, <2>2, <2>3
<1>6. walk.blk = Line[head][n]
  <2>1. Line[walk.blk][n] = walk.blk BY <1>1, TreeAssumption
  <2>2. n <= n + 1 BY <1>1
  <2> QED BY <1>1, <1>4, <1>5, <2>1, <2>2
<1>7. watch[a] = n + 1 /\ watch[a] - 1 = n /\ watch[a] >= 2 /\ Num[head] >= watch[a] BY <1>1
<1>8. Line[head][watch[a] - 1] = walk.blk BY <1>6, <1>7
<1> QED BY <1>1, <1>3, <1>6, <1>7, <1>8 DEF Lower

\* The walker goes down whether it wrote or not; if not, its watch is another one.
LEMMA ApplyKeepsWalk ==
  ASSUME TypeOK, WalkInv, WalkApply, ~ walk'.pc = "idle"
  PROVE  /\ WalkInv'
         /\ (\E a \in Addr : Lower(a)) \/ UNCHANGED archiveVars
<1> DEFINE n == Num[walk.blk]
           found(a) == IF watch[a] = n + 1 THEN Written(walk.blk, a) ELSE {}
           creation(a) == watch[a] = n + 1 /\ a \in Deploys[walk.blk]
           left(a) == IF creation(a) THEN {} ELSE walk.walkers[a].unresolved \ found(a)
           done(a) == creation(a) \/ (walk.resolve /\ left(a) = {})
           next(a) == [walk.walkers[a] EXCEPT !.joined = TRUE, !.start = n,
                                              !.unresolved = left(a), !.done = done(a)]
<1>1. PICK a \in walk.todo :
        /\ walk.pc = "apply" /\ ~ Replaced(walk.walkers[a])
        /\ IF watch[a] = n + 1 THEN BackfillBlock(a, walk.blk) ELSE UNCHANGED archiveVars
        /\ walk' = [walk EXCEPT !.todo = walk.todo \ {a}, !.walkers[a] = next(a)]
        /\ UNCHANGED nodeVars
  BY DEF WalkApply, WalkAt, EndWalk, NoWalk
<1> DEFINE w == next(a)
           ws == [walk.walkers EXCEPT ![a] = w]
<1>2. /\ a \in Addr /\ a \in Walking /\ walk.walkers[a].start = n + 1 /\ walk.cur = n
      /\ n \in Nat \ {0} /\ n \in Heights /\ n + 1 <= HeadNumber
      /\ head # NoHash /\ head \in Hash /\ HeadNumber = Num[head] /\ Num[head] \in Nat
      /\ watch[a] \in {0, n + 1} \/ watch[a] > HeadNumber
      /\ walk.blk \in Hash
  BY <1>1, WalkerFact
<1>3. walk.walkers \in [Addr -> Walker] /\ walk.walkers[a] \in Walker
  BY <1>2 DEF WalkInv, WalkTypeOK
<1>4. w \in Walker /\ w.joined /\ w.start = n /\ (creation(a) => w.done)
  <2> DEFINE d == done(a)
             l == left(a)
  <2>1. d \in BOOLEAN /\ l \in SUBSET Slot /\ (creation(a) => d) BY <1>3 DEF Walker
  <2>2. w = [walk.walkers[a] EXCEPT !.joined = TRUE, !.start = n, !.unresolved = l, !.done = d]
    OBVIOUS
  <2> HIDE DEF d, l, w, n, creation
  <2> QED BY <1>2, <1>3, <2>1, <2>2 DEF Walker
<1>5. walk' = [walk EXCEPT !.todo = walk.todo \ {a}, !.walkers = ws]
  <2> HIDE DEF next
  <2> QED BY <1>1, <1>2, <1>3 DEF WalkInv, WalkTypeOK
<1> HIDE DEF w, next
<1>6. ws \in [Addr -> Walker] /\ \A c \in Addr : ws[c] = IF c = a THEN w ELSE walk.walkers[c]
  BY <1>2, <1>3, <1>4
<1> HIDE DEF ws, n
<1>7. /\ walk'.pc = "apply" /\ walk'.todo = walk.todo \ {a} /\ walk'.walkers = ws
      /\ walk'.target = walk.target /\ walk'.cur = walk.cur /\ walk'.last = walk.last
      /\ walk'.expect = walk.expect /\ walk'.blk = walk.blk /\ walk'.queue = walk.queue
      /\ walk'.budget = walk.budget
  BY <1>1, <1>5 DEF WalkInv, WalkTypeOK
<1>8. WalkTypeOK' BY <1>5, <1>6 DEF WalkInv, WalkTypeOK
<1>9. ChainIsUnbroken' BY <1>1, <1>7 DEF WalkInv, ChainIsUnbroken, Descends
<1>10. WorkIsPlanned' BY <1>1, <1>6, <1>7 DEF WalkInv, WorkIsPlanned, Walking
\* What the other walkers, and the store they see, have of this.
<1>11. ASSUME syncing' = syncing, head' = head, hashes' = hashes,
             \A c \in Addr : c # a => /\ watch'[c] = watch[c] /\ created'[c] = created[c]
                                     /\ anchor'[c] = anchor[c],
             \/ watch'[a] = n /\ anchor'[a] = Line[head][n]
             \/ watch'[a] = watch[a] /\ anchor'[a] = anchor[a],
             watch'[a] \in {0, n} \/ watch'[a] > HeadNumber,
             watch'[a] = n /\ ~ w.done => created'[a] = 0 /\ walk.blk = Line[head][n]
      PROVE  WalkInv'
  <2>1. HeadNumber' = HeadNumber /\ \A m : Settled(m)' <=> Settled(m)
    BY <1>1, <1>11 DEF HeadNumber, Settled, nodeVars
  <2>2. FinalStays' BY <1>1 DEF WalkInv, FinalStays, NodeTypeOK, OnLine, nodeVars
  <2>3. StartsAreKnown' BY <1>11, <2>1 DEF WalkInv, StartsAreKnown
  <2>4. SlotIsTaken' BY <1>1, <1>7, <1>11 DEF WalkInv, SlotIsTaken
  <2>5. WalkersHold'
    <3>1. n # 0 /\ n <= HeadNumber BY <1>2
    <3> QED BY <1>4, <1>6, <1>7, <1>11, <2>1, <3>1 DEF WalkInv, WalkersHold
  <2>6. WalkersAreOnTheChain'
    <3> SUFFICES ASSUME NEW c \in Addr, ~ walk'.walkers[c].done, watch'[c] = walk'.walkers[c].start
                 PROVE  LET v == walk'.walkers[c]
                            above == Above(c)'
                        IN  /\ created'[c] = 0 /\ v.start <= Num[above]
                            /\ v.joined => above = Line[head][v.start]
                            /\ ~ v.joined => \/ v.known = Line[head][v.start]
                                             \/ Line[above][v.start] = Line[head][v.start]
      BY <1>7, <1>11 DEF WalkersAreOnTheChain, Attached, Walking
    <3>1. CASE c = a
      <4>1. walk'.walkers[c] = w /\ watch'[a] = n /\ ~ w.done BY <1>4, <1>6, <1>7, <3>1
      <4>2. created'[a] = 0 /\ walk.blk = Line[head][n] BY <1>11, <4>1
      <4>3. Above(c)' = walk.blk BY <1>7, <3>1 DEF Above
      <4>4. n <= Num[walk.blk] BY <1>2 DEF n
      <4> QED BY <1>4, <3>1, <4>1, <4>2, <4>3, <4>4
    <3>2. CASE c # a
      <4>1. walk'.walkers[c] = walk.walkers[c] BY <1>6, <1>7, <3>2
      <4>2. Attached(c) BY <1>11, <3>2, <4>1 DEF Attached, Walking
      <4>3. Above(c)' = Above(c) BY <1>1, <1>7, <3>2 DEF Above
      <4> QED BY <1>1, <1>11, <3>2, <4>1, <4>2, <4>3 DEF WalkInv, WalkersAreOnTheChain, Descends
    <3> QED BY <3>1, <3>2
  <2> QED BY <1>8, <1>9, <1>10, <2>2, <2>3, <2>4, <2>5, <2>6 DEF WalkInv
<1>12. CASE watch[a] # n + 1
  <2>1. UNCHANGED archiveVars BY <1>1, <1>12 DEF n
  <2>2. watch[a] # n BY <1>2, <1>12
  <2> QED BY <1>2, <1>11, <1>12, <2>1, <2>2 DEF archiveVars, tables, volatile
<1>13. CASE watch[a] = n + 1
  <2>1. BackfillBlock(a, walk.blk) BY <1>1, <1>13 DEF n
  <2>2. Lower(a) /\ walk.blk = Line[head][n] BY <1>1, <1>2, <1>13, <2>1, WriteLowers DEF n
  <2>3. /\ syncing' = syncing /\ head' = head /\ hashes' = hashes
        /\ watch'[a] = n /\ anchor'[a] = walk.blk
        /\ created'[a] = IF a \in Deploys[walk.blk] THEN n ELSE created[a]
        /\ \A c \in Addr : c # a => /\ watch'[c] = watch[c] /\ created'[c] = created[c]
                                     /\ anchor'[c] = anchor[c]
    BY <1>2, <2>1 DEF BackfillBlock, TypeOK, volatile, n
  <2>4. created[a] = 0 BY <2>2 DEF Lower
  <2>5. ~ w.done => created'[a] = 0 BY <1>4, <1>13, <2>3, <2>4
  <2>6. \E c \in Addr : Lower(c) BY <1>2, <2>2
  <2>7. WalkInv' BY <1>11, <2>2, <2>3, <2>5
  <2> QED BY <2>6, <2>7
<1> QED BY <1>12, <1>13

LEMMA NextKeepsWalk ==
  ASSUME TypeOK, WalkInv, WalkNext, ~ walk'.pc = "idle"
  PROVE  WalkInv'
<1> DEFINE pc == IF walk.queue = <<>> THEN "batch" ELSE "take"
<1>1. /\ walk.pc = "apply" /\ walk.todo = {} /\ UNCHANGED archiveVars /\ UNCHANGED nodeVars
      /\ walk' = [walk EXCEPT !.pc = pc, !.expect = Parent(walk.blk), !.last = walk.blk,
                              !.blk = NoHash, !.cur = walk.cur - 1]
  BY DEF WalkNext, WalkAt, EndWalk, NoWalk
<1>2. PICK lo \in Heights \ {0} : /\ lo <= walk.cur /\ DOMAIN walk.queue = lo .. walk.cur - 1
                                  /\ walk.cur - lo <= walk.budget
  BY <1>1 DEF WalkInv, ChainIsUnbroken
<1>3. /\ walk.cur \in Nat \ {0} /\ walk.cur <= MaxHeight /\ lo \in Nat \ {0}
      /\ walk.budget \in Nat /\ MaxHeight \in Nat
  BY <1>2, HeightsFact DEF WalkInv, WalkTypeOK
<1>4. pc = "batch" \/ (pc = "take" /\ lo <= walk.cur - 1)
  <2>1. CASE lo .. walk.cur - 1 = {}
    <3>1. PICK D \in SUBSET Heights : walk.queue \in [D -> Answer] BY DEF WalkInv, WalkTypeOK
    <3>2. walk.queue = [n \in {} |-> NoHash] BY <1>2, <2>1, <3>1
    <3>3. walk.queue = <<>> BY <3>2
    <3> QED BY <3>3
  <2>2. CASE lo .. walk.cur - 1 # {} BY <1>3, <2>2
  <2> QED BY <2>1, <2>2
<1>5. /\ walk.blk \in Hash /\ walk.blk \in Committed /\ Num[walk.blk] = walk.cur
      /\ Parent(walk.blk) \in Hash \cup {NoHash}
  <2>1. /\ walk.last \in Hash /\ Num[walk.last] = walk.cur + 1 /\ walk.blk = Parent(walk.last)
        /\ walk.blk \in Committed
    BY <1>1 DEF WalkInv, ChainIsUnbroken, Descends
  <2>2. Parent(walk.last) \in Hash /\ Num[Parent(walk.last)] = Num[walk.last] - 1
    BY <1>3, <2>1, ParentFact
  <2>3. Num[walk.blk] = walk.cur BY <1>3, <2>1, <2>2
  <2> QED BY <2>1, <2>2, <2>3, ParentFact
<1> HIDE DEF pc
<1>6. /\ walk'.pc = pc /\ walk'.expect = Parent(walk.blk) /\ walk'.last = walk.blk
      /\ walk'.cur = walk.cur - 1 /\ walk'.queue = walk.queue /\ walk'.budget = walk.budget
      /\ walk'.walkers = walk.walkers /\ walk'.target = walk.target
  BY <1>1 DEF WalkInv, WalkTypeOK
<1>7. WalkTypeOK'
  <2>1. walk.cur - 1 \in -1 .. MaxHeight BY <1>3
  <2> QED BY <1>1, <1>4, <1>5, <2>1 DEF WalkInv, WalkTypeOK
<1>8. UNCHANGED tables /\ syncing' = syncing BY <1>1 DEF archiveVars, volatile
<1>9. SlotIsTaken' /\ WalkersHold' /\ WorkIsPlanned'
  BY <1>1, <1>4, <1>6, <1>8, LocalKeeps DEF WalkInv, SlotIsTaken, WalkersHold, WorkIsPlanned
<1>10. ChainIsUnbroken'
  <2>1. walk.cur - 1 + 1 = walk.cur /\ walk.cur - 1 - lo < walk.budget BY <1>2, <1>3
  <2> QED BY <1>2, <1>4, <1>5, <1>6, <2>1 DEF ChainIsUnbroken, Descends
<1>11. WalkersAreOnTheChain'
  <2>1. \A a \in Addr : Attached(a)' => Attached(a)
    BY <1>1, <1>6, <1>8, LocalKeeps DEF Attached, Walking
  <2>2. \A a \in Addr : Above(a)' = Above(a) BY <1>1, <1>4, <1>6 DEF Above
  <2> QED BY <1>1, <1>4, <1>6, <1>8, <2>1, <2>2, LocalKeeps
    DEF WalkInv, WalkersAreOnTheChain, Descends
<1> QED BY <1>1, <1>7, <1>8, <1>9, <1>10, <1>11, LocalKeeps DEF WalkInv

-----------------------------------------------------------------------------
(* The walk among the users of the store *)

\* A step of the process that no table sees.
Unseeing ==
  /\ UNCHANGED tables
  /\ inFlight' \in {0, inFlight} /\ syncing' \in BOOLEAN /\ gate' \in {FALSE, gate}

LEMMA EndKeepsWalk ==
  ASSUME WalkInv, walk'.pc = "idle",
         PlanStart \/ PlanDone \/ AskAbove \/ WalkBatch \/ WalkTake \/ WalkApply \/ WalkNext
           \/ WalkAbort
  PROVE  WalkInv' /\ Unseeing /\ ~ syncing'
<1> USE DEF WalkInv, WalkTypeOK
<1>1. PICK o \in {"none", "error", "stop", "budget"} : EndWalk(o) /\ UNCHANGED nodeVars
  <2>1. CASE PlanStart BY <2>1 DEF PlanStart
  <2>2. CASE PlanDone BY <2>2 DEF PlanDone
  <2>3. CASE AskAbove BY <2>3 DEF AskAbove
  <2>4. CASE WalkBatch BY <2>4 DEF WalkBatch
  <2>5. CASE WalkTake
    <3>1. \A h : TakenOut(h) \in {"stop", "error"} BY DEF TakenOut
    <3> QED BY <2>5, <3>1 DEF WalkTake
  <2>6. CASE WalkApply
    <3>1. \/ \E a \in walk.todo : EndWalk("error")
          \/ \E a \in walk.todo : \E w : walk' = [walk EXCEPT !.todo = @ \ {a}, !.walkers[a] = w]
      BY <2>6 DEF WalkApply
    <3>2. WalkAt("apply") /\ UNCHANGED nodeVars BY <2>6 DEF WalkApply
    <3> QED BY <3>1, <3>2 DEF WalkAt
  <2>7. CASE WalkNext BY <2>7 DEF WalkNext
  <2>8. CASE WalkAbort BY <2>8 DEF WalkAbort
  <2> QED BY <2>1, <2>2, <2>3, <2>4, <2>5, <2>6, <2>7, <2>8
<1>2. walk' = [NoWalk EXCEPT !.out = o] /\ SyncIdle BY <1>1 DEF EndWalk
<1>3. UNCHANGED tables BY <1>2 DEF SyncIdle
<1> QED BY <1>1, <1>2, <1>3, WalkEnds DEF SyncIdle, Unseeing

\* Every step keeps the walk's invariant, and is a step of the store or none.
LEMMA WalkStep ==
  ASSUME StoreInv, WalkInv, BackfillNext
  PROVE  WalkInv' /\ (Forward \/ Backfills \/ Unseeing)
<1> DEFINE Goal == WalkInv' /\ (Forward \/ Backfills \/ Unseeing)
<1>1. TypeOK /\ HashesAreHeld BY DEF StoreInv, StateInv, HoldInv, IndexInv
<1>2. UNCHANGED archiveVars => Unseeing
  BY <1>1 DEF archiveVars, tables, volatile, Unseeing, TypeOK
<1>3. UNCHANGED nodeVars => FinalStays'
  BY DEF WalkInv, FinalStays, NodeTypeOK, OnLine, nodeVars
<1>4. ~ syncing => walk.pc = "idle" BY DEF WalkInv, SlotIsTaken
<1>5. ASSUME NEW h \in Hash, NEW below \in Heights, PassBlock(h, below) PROVE Goal
  <2>1. StartsAreKnown' BY <1>1, <1>5, PassBlockKnown DEF WalkInv, PassBlock
  <2>2. WalkInv' BY <1>3, <1>4, <1>5, <2>1, IdleKeeps DEF PassBlock
  <2> QED BY <1>5, <2>2 DEF PassBlock, Forward
<1>6. ASSUME NEW b \in Heights, PassReorg(b) PROVE Goal
  <2>1. StartsAreKnown' BY <1>1, <1>6, PassReorgKnown DEF WalkInv, PassReorg
  <2>2. WalkInv' BY <1>3, <1>4, <1>6, <2>1, IdleKeeps DEF PassReorg
  <2> QED BY <1>6, <2>2 DEF PassReorg, Forward
<1>7. ASSUME NEW a \in Addr, NEW n \in Starts, UserWatch(a, n) PROVE Goal
  <2>1. n \in Heights BY BackfillAssumption
  <2>2. StartWatch(a, n) BY <1>7 DEF UserWatch
  <2> QED BY <1>1, <1>7, <2>1, <2>2, WatchKeepsWalk DEF Forward
<1>8. ASSUME NEW a \in Addr, UserUnwatch(a) PROVE Goal
  BY <1>1, <1>8, UnwatchKeepsWalk DEF UserUnwatch, Forward
<1>9. ASSUME NEW as \in SUBSET Addr \ {{}}, NEW to \in Targets, NEW max \in Budgets \cup {NoBudget},
             NEW r \in BOOLEAN, WalkBegin(as, to, max, r)
      PROVE  Goal
  <2>1. Unseeing BY <1>9 DEF WalkBegin, BeginSync, Unseeing
  <2>2. to \in Heights \ {0} /\ max \in Nat BY BackfillAssumption, HeightsFact DEF NoBudget
  <2> QED BY <1>9, <2>1, <2>2, BeginKeepsWalk
<1>10. ASSUME PlanStart \/ PlanDone \/ AskAbove \/ WalkBatch \/ WalkTake \/ WalkApply \/ WalkNext
                \/ WalkAbort
       PROVE  Goal
  <2>1. CASE walk'.pc = "idle" BY <1>10, <2>1, EndKeepsWalk
  <2>2. CASE walk'.pc # "idle"
    <3>1. CASE WalkApply
      <4>1. WalkInv' /\ ((\E a \in Addr : Lower(a)) \/ UNCHANGED archiveVars)
        BY <1>1, <2>2, <3>1, ApplyKeepsWalk
      <4> QED BY <1>2, <4>1 DEF Backfills
    <3>2. CASE PlanStart \/ PlanDone \/ AskAbove \/ WalkBatch \/ WalkTake \/ WalkNext
      <4>1. WalkInv'
        BY <1>1, <2>2, <3>2, PlanStartKeepsWalk, PlanDoneKeepsWalk, AskAboveKeepsWalk,
           BatchKeepsWalk, TakeKeepsWalk, NextKeepsWalk
      <4>2. UNCHANGED archiveVars
        <5>1. \A o : EndWalk(o) => walk'.pc = "idle" BY DEF EndWalk, NoWalk
        <5> QED BY <2>2, <3>2, <5>1
          DEF PlanStart, PlanDone, AskAbove, WalkBatch, WalkTake, WalkNext
      <4> QED BY <1>2, <4>1, <4>2
    <3>3. CASE WalkAbort BY <2>2, <3>3 DEF WalkAbort, EndWalk, NoWalk
    <3> QED BY <1>10, <3>1, <3>2, <3>3
  <2> QED BY <2>1, <2>2
<1>11. ASSUME PlanKnown PROVE Goal
  BY <1>1, <1>2, <1>11, PlanKnownKeepsWalk DEF PlanKnown, LocalStep
<1>12. ASSUME NEW n \in Heights, WalkAnswer(n) PROVE Goal
  BY <1>2, <1>12, AnswerKeepsWalk DEF WalkAnswer, LocalStep
<1>13. ASSUME WalkCrash PROVE Goal
  <2>1. walk' = [NoWalk EXCEPT !.out = "none"]
    <3> DEFINE none == [a \in Addr |-> NoWalker]
               no == FALSE
               empty == <<>>
    <3>1. NoWalk = [pc |-> "idle", target |-> 0, budget |-> 0, resolve |-> no, todo |-> {},
                    item |-> "none", walkers |-> none, cur |-> 0, expect |-> NoHash,
                    last |-> NoHash, blk |-> NoHash, queue |-> empty, out |-> "none"]
      BY DEF NoWalk
    <3> HIDE DEF none, no, empty
    <3> QED BY <1>13, <3>1 DEF WalkCrash
  <2>2. UNCHANGED tables /\ UNCHANGED nodeVars BY <1>13 DEF WalkCrash
  <2>3. WalkInv' BY <2>1, <2>2, WalkEnds
  <2> QED BY <1>13, <2>3 DEF WalkCrash, Unseeing
<1>14. ASSUME NodeMoves PROVE Goal
  BY <1>1, <1>2, <1>14, NodeKeepsWalk DEF NodeMoves
<1> HIDE DEF Goal
<1>15. Goal
  BY <1>5, <1>6, <1>7, <1>8, <1>9, <1>10, <1>11, <1>12, <1>13, <1>14 DEF BackfillNext
<1> QED BY <1>15 DEF Goal

LEMMA WalksStart == BackfillInit => StoreInv /\ WalkInv
<1> SUFFICES ASSUME BackfillInit PROVE StoreInv /\ WalkInv OBVIOUS
<1>1. Init /\ NodeInit /\ walk = NoWalk BY DEF BackfillInit
<1>2. TypeOK BY <1>1, InitType
<1>3. IndexInv BY <1>1, <1>2 DEF Init, IndexInv, IndexCovers, IndexIsBacked, RecordsInRange, BlockRecords
<1>4. ChainHeld BY <1>1 DEF Init, ChainHeld, Covered
<1>5. PendingMirrorsBoot BY <1>1 DEF Init, PendingMirrorsBoot, Unseen
<1>6. StatesAreTold /\ CreationsAreTrue
  BY <1>1, ToldCases DEF Init, StatesAreTold, CreationsAreTrue, Quiet, Covered, Born
<1>7. HashesAreHeld /\ NoneProven BY <1>1 DEF Init, HashesAreHeld, NoneProven
<1>8. StoreInv BY <1>3, <1>4, <1>5, <1>6, <1>7 DEF StoreInv, StateInv, HoldInv
<1>9. FinalStays
  <2>1. canon \in Hash /\ Num[canon] = 1 /\ final = Line[canon][0] BY <1>1 DEF NodeInit
  <2>2. 0 \in Heights /\ 0 <= Num[canon] BY <2>1, HeightsFact
  <2>3. final \in Hash /\ Num[final] = 0 BY <2>1, <2>2, LineFact
  <2> QED BY <2>1, <2>2, <2>3 DEF FinalStays, NodeTypeOK, OnLine
<1>10. StartsAreKnown BY <1>1 DEF Init, StartsAreKnown
<1>11. walk.pc = "idle" /\ walk.walkers = [a \in Addr |-> NoWalker] BY <1>1 DEF NoWalk
<1>12. \A a \in Addr : walk.walkers[a] = NoWalker /\ walk.walkers[a].done
  BY <1>11, NoWalkerFact
<1>13. SlotIsTaken /\ WalkersHold BY <1>11, <1>12 DEF SlotIsTaken, WalkersHold
<1>14. ChainIsUnbroken /\ WorkIsPlanned BY <1>11 DEF ChainIsUnbroken, WorkIsPlanned, Descends
<1>15. WalkersAreOnTheChain BY <1>12 DEF WalkersAreOnTheChain, Attached, Walking
<1>16. WalkTypeOK
  <2> DEFINE none == [a \in Addr |-> NoWalker]
             no == FALSE
             empty == <<>>
  <2>1. walk = [pc |-> "idle", target |-> 0, budget |-> 0, resolve |-> no, todo |-> {},
                item |-> "none", walkers |-> none, cur |-> 0, expect |-> NoHash,
                last |-> NoHash, blk |-> NoHash, queue |-> empty, out |-> "none"]
    BY <1>1 DEF NoWalk
  <2>2. none \in [Addr -> Walker] /\ no \in BOOLEAN /\ 0 \in Heights /\ 0 \in -1 .. MaxHeight
        /\ empty \in UNION {[D -> Answer] : D \in SUBSET Heights}
    BY NoWalkerFact, EmptyFact, HeightsFact
  <2> HIDE DEF none, no, empty
  <2>3. /\ walk.target \in Heights /\ walk.budget \in Nat /\ walk.resolve \in BOOLEAN
        /\ walk.walkers \in [Addr -> Walker] /\ walk.cur \in -1 .. MaxHeight
        /\ walk.queue \in UNION {[D -> Answer] : D \in SUBSET Heights}
    BY <2>1, <2>2
  <2> QED BY <2>1, <2>3 DEF WalkTypeOK
<1> QED BY <1>8, <1>9, <1>10, <1>13, <1>14, <1>15, <1>16 DEF WalkInv

LEMMA WalksKeep == WalksSpec => [](StoreInv /\ WalkInv)
<1>1. StoreInv /\ WalkInv /\ [BackfillNext]_backfillVars => (StoreInv /\ WalkInv)'
  <2> SUFFICES ASSUME StoreInv, WalkInv, [BackfillNext]_backfillVars
               PROVE  StoreInv' /\ WalkInv'
    OBVIOUS
  <2>1. CASE BackfillNext
    <3>1. WalkInv' /\ (Forward \/ Backfills \/ Unseeing) BY <2>1, WalkStep
    <3>2. Unseeing => StoreInv' BY VolatileKeeps DEF Unseeing
    <3> QED BY <3>1, <3>2, StoreStep
  <2>2. CASE UNCHANGED backfillVars
    <3>1. UNCHANGED archiveVars /\ UNCHANGED nodeVars /\ walk' = walk /\ UNCHANGED tables
      BY <2>2 DEF backfillVars, archiveVars
    <3>2. StoreInv' BY <3>1, StoreStep
    <3>3. WalkInv'
      BY <3>1, LocalKeeps
      DEF WalkInv, WalkTypeOK, SlotIsTaken, WalkersHold, ChainIsUnbroken, WalkersAreOnTheChain,
          WorkIsPlanned, Descends, Attached, Above, Walking, archiveVars, volatile
    <3> QED BY <3>2, <3>3
  <2> QED BY <2>1, <2>2
<1> QED BY WalksStart, <1>1, PTL DEF WalksSpec

\* As long as a walk goes on, the watch of each walker is where the walker is, or was
\* ended and then begins above the head: a walk reports no start that is not committed.
THEOREM WalkersHoldStarts == WalksSpec => []WalkersHoldTheirStarts
<1>1. WalkInv => WalkersHoldTheirStarts
  BY DEF WalkInv, WalkersHold, WalkersHoldTheirStarts, Walking, NoWalker
<1> QED BY WalksKeep, <1>1, PTL

\* Walks write what the chain of the head has, whatever branches the source answers
\* from and whoever unwatches and watches meanwhile.
THEOREM WalkedChainHolds == WalksSpec => []HoldsTheChain
<1>1. StoreInv => HoldsTheChain BY ChainFollows DEF StoreInv, StateInv
<1> QED BY WalksKeep, <1>1, PTL

\* And every read of an archive filled by walks answers with the chain's value.
THEOREM WalkedReadsHold == WalksSpec => []ReadsAreTrue
<1>1. StoreInv => ReadsAreTrue
  <2>1. NoneProven => PreValuesAreTrue BY DEF NoneProven, PreValuesAreTrue, PreValue
  <2> QED BY <2>1, ReadsFollow DEF StoreInv
<1> QED BY WalksKeep, <1>1, PTL

\* One that finds nothing says rightly from where on the slot is known: the walk has
\* moved it down with every block it wrote.
THEOREM WalkedUnknownHolds == WalksSpec => []UnknownIsExact
<1>1. StoreInv => UnknownIsExact BY UnknownFollows DEF StoreInv
<1> QED BY WalksKeep, <1>1, PTL

-----------------------------------------------------------------------------
(* The process implements the store under a single caller *)

LEMMA WalkedWatch ==
  ASSUME NEW a \in Addr, NEW n \in Heights, StartWatch(a, n)
  PROVE  Walked!StartWatch(a, n)
BY HeightsFact DEF StartWatch, Watch, HeadNumber,
  Walked!StartWatch, Walked!Watch, Walked!HeadNumber, Walked!volatile

LEMMA WalkedUnwatch ==
  ASSUME NEW a \in Addr, EndWatch(a)
  PROVE  Walked!EndWatch(a)
BY DEF EndWatch, Unwatch, Unseen,
  Walked!EndWatch, Walked!Unwatch, Walked!Unseen, Walked!volatile

LEMMA WalkedReorg ==
  ASSUME NEW b \in Heights, Reorg(b)
  PROVE  Walked!Reorg(b)
BY DEF Reorg, RollbackTo, Wiped, Victims, Forgotten, Unresolved, Unseen, Heights,
  Walked!Reorg, Walked!RollbackTo, Walked!Wiped, Walked!Victims, Walked!Forgotten,
  Walked!Unresolved, Walked!Unseen, Walked!Heights, Walked!volatile

LEMMA WalkedExtend ==
  ASSUME NEW h \in Hash, NEW below \in Heights, Extend(h, below)
  PROVE  Walked!Extend(h, below)
<1>1. Walked!Follows(h)
  BY DEF Extend, Follows, Watched, FirstBlock, Parent, Min,
    Walked!Follows, Walked!Watched, Walked!FirstBlock, Walked!Parent, Walked!Min
<1>2. /\ Walked!Live(h, watch) = Live(h, watch)
      /\ \A a, p : Walked!BalRecords(h, a, p) = BalRecords(h, a, p)
  BY DEF Live, BalRecords, FinalChange, Walked!Live, Walked!BalRecords, Walked!FinalChange
<1>3. \A as : Walked!IndexAfter(h, as) = IndexAfter(h, as)
  BY DEF IndexAfter, IndexOf, Written, Walked!IndexAfter, Walked!IndexOf, Walked!Written
<1>4. \A a, s : /\ Walked!BootAfter(h, a, s) = BootAfter(h, a, s)
                /\ Walked!PendingAfter(h, a, s) = PendingAfter(h, a, s)
                /\ Walked!Creates(h, a) = Creates(h, a)
  BY DEF BootAfter, PendingAfter, FreshSlots, IsCreated, Creates, Written, Unseen, Done, Pending,
    Walked!BootAfter, Walked!PendingAfter, Walked!FreshSlots, Walked!IsCreated, Walked!Creates,
    Walked!Written, Walked!Unseen, Walked!Done, Walked!Pending
<1>5. Walked!HashesAfter(h, below) = HashesAfter(h, below)
  BY DEF HashesAfter, Walked!HashesAfter, Walked!Heights
<1>6. \A table, new : Walked!Insert(table, new) = Insert(table, new) BY DEF Insert, Walked!Insert
<1>7. ApplyBlock(h, watch, below) BY DEF Extend
<1>8. Walked!ApplyBlock(h, watch, below)
  BY <1>2, <1>3, <1>4, <1>5, <1>6, <1>7 DEF ApplyBlock, Walked!ApplyBlock, Walked!volatile
<1> QED BY <1>1, <1>8 DEF Walked!Extend

LEMMA WalkedLower ==
  ASSUME NEW a \in Addr, Lower(a)
  PROVE  Walked!Lower(a)
BY DEF Lower, BackfillBlock, Lowered, Insert, BalRecords, FinalChange, IndexAfter, IndexOf, Written,
  Unseen, Done, Pending, Lost,
  Walked!Lower, Walked!BackfillBlock, Walked!Lowered, Walked!Insert, Walked!BalRecords,
  Walked!FinalChange, Walked!IndexAfter, Walked!IndexOf, Walked!Written,
  Walked!Unseen, Walked!Done, Walked!Pending, Walked!Lost, Walked!volatile

LEMMA WalkedStep ==
  ASSUME Forward \/ Backfills
  PROVE  Walked!Forward \/ Walked!Backfills
<1>1. CASE Forward
  BY <1>1, WalkedWatch, WalkedUnwatch, WalkedExtend, WalkedReorg
  DEF Forward, Walked!Forward, Walked!Heights
<1>2. CASE Backfills BY <1>2, WalkedLower DEF Backfills, Walked!Backfills
<1> QED BY <1>1, <1>2

LEMMA WalkedStart == BackfillInit => Walked!Init
BY DEF BackfillInit, Init, Unseen, Heights, Walked!Init, Walked!Unseen, Walked!Heights

\* A walk with all its awaits, answers and users in between is, for the tables, a caller
\* that lowers one start at a time with the block the head's chain has there.
THEOREM WalksGoDown == WalksSpec => WalksDown
<1>1. (StoreInv /\ WalkInv) /\ [BackfillNext]_backfillVars
        => [UNCHANGED tables \/ Walked!Forward \/ Walked!Backfills]_tables
  <2> SUFFICES ASSUME StoreInv, WalkInv, [BackfillNext]_backfillVars, ~ UNCHANGED tables
               PROVE  Walked!Forward \/ Walked!Backfills
    OBVIOUS
  <2>1. Forward \/ Backfills BY WalkStep DEF Unseeing, backfillVars, archiveVars
  <2> QED BY <2>1, WalkedStep
<1> QED BY WalksKeep, WalkedStart, <1>1, PTL DEF WalksSpec, WalksDown

-----------------------------------------------------------------------------
(* balq index: passes and walks that fail and are tried again              *)

\* The fields of a state of the loop that took on new values.
LEMMA LoopFact ==
  ASSUME LoopTypeOK
  PROVE  /\ MaxFailures + 1 \in 0 .. MaxFailures + 1 /\ 0 \in 0 .. MaxFailures + 1
         /\ Counted(loop.failures) \in 0 .. MaxFailures + 1
<1> DEFINE few == {loop.failures + 1, MaxFailures + 1}
<1>1. loop.failures \in 0 .. MaxFailures + 1 /\ MaxFailures \in Nat
  BY IndexAssumption DEF LoopTypeOK
<1>2. few \subseteq Nat /\ few # {} BY <1>1
<1>3. \A n \in few : n <= MaxFailures + 1 => n \in 0 .. MaxFailures + 1 BY <1>1, <1>2
<1>4. Min(few) \in few /\ Min(few) <= MaxFailures + 1
  <2>1. MaxFailures + 1 \in few OBVIOUS
  <2> HIDE DEF few
  <2> QED BY <1>2, <2>1, MinIsMember
<1> QED BY <1>1, <1>3, <1>4 DEF Counted

\* Steps of the loop that await nothing.
LEMMA StartsLoop ==
  ASSUME StoreInv, WalkInv, LoopInv, NEW once \in BOOLEAN, IndexStart(once)
  PROVE  LoopInv'
<1> DEFINE start == IF head # NoHash THEN Num[head] + 1 ELSE Max({SourceHead, 1})
<1>1. /\ loop.at = "down" /\ start \in Heights /\ pass' = pass /\ UNCHANGED backfillVars
      /\ loop' = [loop EXCEPT !.at = "watch", !.once = once, !.start = start]
  BY DEF IndexStart, LoopAt
<1>2. start # 0
  <2>1. CASE head # NoHash
    <3>1. Num[head] \in Nat
      BY <2>1, HeightsFact DEF StoreInv, StateInv, HoldInv, IndexInv, TypeOK
    <3> QED BY <2>1, <3>1
  <2>2. CASE head = NoHash
    <3>1. SourceHead \in Int BY HeightsFact DEF SourceHead, WalkInv, FinalStays, NodeTypeOK
    <3>2. Max({SourceHead, 1}) \in Int /\ 1 <= Max({SourceHead, 1}) BY <3>1, MaxOfTwo
    <3> QED BY <2>2, <3>2
  <2> QED BY <2>1, <2>2
<1> HIDE DEF start
<1>3. LoopTypeOK' BY <1>1 DEF LoopInv, LoopTypeOK
<1>4. SlotIsHeld' BY <1>1 DEF LoopInv, LoopTypeOK, SlotIsHeld, backfillVars, archiveVars, volatile
<1>5. ArgumentsAreBlocks' BY <1>1, <1>2 DEF LoopInv, LoopTypeOK, ArgumentsAreBlocks, LoopAt
<1> QED BY <1>3, <1>4, <1>5 DEF LoopInv

LEMMA MovesLoop ==
  ASSUME LoopInv, IndexWatched \/ FallBehind \/ IndexWalked
  PROVE  LoopInv' /\ UNCHANGED backfillVars
<1>1. /\ UNCHANGED backfillVars /\ pass' = pass /\ walk' = walk /\ syncing' = syncing
  BY DEF IndexWatched, FallBehind, IndexWalked, backfillVars, archiveVars, volatile
<1>2. CASE IndexWatched
  <2>1. /\ loop.at = "watch"
        /\ loop' = [loop EXCEPT !.at = "catch_up", !.back = "start", !.failures = 0]
    BY <1>2 DEF IndexWatched, LoopAt
  <2>2. LoopTypeOK' BY <1>1, <2>1, LoopFact DEF LoopInv, LoopTypeOK
  <2>3. loop'.at = "catch_up" BY <2>1 DEF LoopInv, LoopTypeOK
  <2> QED BY <1>1, <2>1, <2>2, <2>3 DEF LoopInv, SlotIsHeld, ArgumentsAreBlocks, LoopAt
<1>3. CASE FallBehind
  <2>1. /\ loop.at = "follow"
        /\ loop' = [loop EXCEPT !.at = "catch_up", !.back = "follow", !.failures = 0]
    BY <1>3 DEF FallBehind, LoopAt
  <2>2. LoopTypeOK' BY <1>1, <2>1, LoopFact DEF LoopInv, LoopTypeOK
  <2>3. loop'.at = "catch_up" BY <2>1 DEF LoopInv, LoopTypeOK
  <2> QED BY <1>1, <2>1, <2>2, <2>3 DEF LoopInv, SlotIsHeld, ArgumentsAreBlocks, LoopAt
<1>4. CASE IndexWalked
  <2>1. loop.at = "walking" /\ walk.pc = "idle" BY <1>4 DEF IndexWalked, LoopAt, WalkAt
  <2>2. loop.target # 0 /\ ~ pass.on
    BY <2>1 DEF LoopInv, SlotIsHeld, ArgumentsAreBlocks
  <2>3. CASE AfterFailure("walk")
    <3> DEFINE n == Counted(loop.failures)
               to == IF GivesUp(n) THEN "exited" ELSE "walk"
    <3>1. loop' = [loop EXCEPT !.failures = n, !.at = to] BY <2>3 DEF AfterFailure
    <3>2. n \in 0 .. MaxFailures + 1 BY LoopFact DEF LoopInv
    <3>3. to \in {"exited", "walk"} OBVIOUS
    <3> HIDE DEF n, to
    <3>4. LoopTypeOK' BY <1>1, <3>1, <3>2, <3>3 DEF LoopInv, LoopTypeOK
    <3>5. loop'.at = to /\ loop'.target = loop.target BY <3>1 DEF LoopInv, LoopTypeOK
    <3> QED BY <1>1, <2>1, <2>2, <3>3, <3>4, <3>5
      DEF LoopInv, SlotIsHeld, ArgumentsAreBlocks, LoopAt
  <2>4. CASE loop' = [loop EXCEPT !.at = "walk", !.failures = 0]
    <3>1. LoopTypeOK' BY <1>1, <2>4, LoopFact DEF LoopInv, LoopTypeOK
    <3>2. loop'.at = "walk" /\ loop'.target = loop.target BY <2>4 DEF LoopInv, LoopTypeOK
    <3> QED BY <1>1, <2>1, <2>2, <3>1, <3>2
      DEF LoopInv, SlotIsHeld, ArgumentsAreBlocks, LoopAt
  <2>5. CASE loop' = [loop EXCEPT !.at = AfterBackfill, !.failures = 0, !.ready = {}, !.target = 0]
    <3>1. AfterBackfill \in {"done", "follow"} BY DEF AfterBackfill
    <3>2. LoopTypeOK' BY <1>1, <2>5, <3>1, LoopFact, HeightsFact DEF LoopInv, LoopTypeOK
    <3>3. loop'.at = AfterBackfill BY <2>5 DEF LoopInv, LoopTypeOK
    <3> QED BY <1>1, <2>1, <2>2, <3>1, <3>2, <3>3
      DEF LoopInv, SlotIsHeld, ArgumentsAreBlocks, LoopAt
  <2>6. walk.out \in {"error", "budget"} \/ walk.out \notin {"error", "budget"} OBVIOUS
  <2> QED BY <1>4, <2>3, <2>4, <2>5, <2>6 DEF IndexWalked
<1> QED BY <1>1, <1>2, <1>3, <1>4

LEMMA PlansLoop ==
  ASSUME StoreInv, LoopInv, BackfillPlan
  PROVE  LoopInv' /\ UNCHANGED backfillVars
<1> DEFINE open == {a \in Asked : created[a] = 0 /\ watch[a] # 0}
           ready == {a \in open : watch[a] <= HeadNumber}
           left == open \ ready
           to == IF ready = {} THEN AfterBackfill ELSE "walk"
           target == IF ready = {} THEN 0 ELSE TargetOf(Max({watch[a] : a \in ready}))
           starts == {watch[a] : a \in ready}
<1>1. /\ loop.at = "backfill" /\ UNCHANGED backfillVars /\ pass' = pass
      /\ loop' = [loop EXCEPT !.at = to, !.back = "follow", !.failures = 0, !.pending = left,
                              !.ready = ready, !.target = target]
  BY DEF BackfillPlan, LoopAt
<1>2. Asked \subseteq Addr BY DEF Asked, LoopInv, LoopTypeOK
<1>3. ready \subseteq Addr /\ left \subseteq Addr BY <1>2
<1>4. watch \in [Addr -> Heights] BY DEF StoreInv, StateInv, HoldInv, IndexInv, TypeOK
<1>5. ready # {} => target \in Heights \ {0}
  <2> SUFFICES ASSUME ready # {} PROVE TargetOf(Max(starts)) \in Heights \ {0} OBVIOUS
  <2>1. starts \subseteq 0 .. MaxHeight /\ starts # {} /\ 0 \notin starts BY <1>3, <1>4
  <2> HIDE DEF starts
  <2>2. Max(starts) \in starts /\ Max(starts) \in 1 .. MaxHeight /\ MaxHeight \in Nat
    <3>1. Max(starts) \in starts BY <2>1, HeightsFact, MaxIsMember
    <3>2. \A m \in starts : m \in 1 .. MaxHeight BY <2>1, HeightsFact
    <3>3. MaxHeight \in Nat BY HeightsFact
    <3> QED BY <3>1, <3>2, <3>3, Zenon
  <2> DEFINE top == Max(starts)
             lowest == top - HistoryDepth
  <2>3. top \in 1 .. MaxHeight /\ MaxHeight \in Nat /\ HistoryDepth \in Nat
    BY <2>2, IndexAssumption
  <2> HIDE DEF top
  <2>4. lowest \in Int /\ lowest <= MaxHeight BY <2>3
  <2> HIDE DEF lowest
  <2>5. Max({lowest, 1}) \in {lowest, 1} /\ 1 <= Max({lowest, 1}) BY <2>4, MaxOfTwo
  <2>6. Max({lowest, 1}) \in 1 .. MaxHeight BY <2>3, <2>4, <2>5
  <2>7. TargetOf(top) = IF HistoryDepth = 0 THEN 1 ELSE Max({lowest, 1}) BY DEF TargetOf, lowest
  <2>8. TargetOf(top) \in 1 .. MaxHeight BY <2>3, <2>6, <2>7
  <2> QED BY <2>8 DEF top
<1>6. to \in {"done", "follow", "walk"} /\ (to = "walk" => ready # {}) BY DEF AfterBackfill
<1>7. target \in Heights BY <1>5, HeightsFact
<1> HIDE DEF open, ready, left, to, target
<1>8. LoopTypeOK' BY <1>1, <1>3, <1>6, <1>7, LoopFact DEF LoopInv, LoopTypeOK
<1>9. loop'.at = to /\ loop'.target = target BY <1>1 DEF LoopInv, LoopTypeOK
<1>10. SlotIsHeld' BY <1>1, <1>6, <1>9 DEF LoopInv, SlotIsHeld, backfillVars, archiveVars, volatile
<1>11. ArgumentsAreBlocks' BY <1>5, <1>6, <1>9 DEF ArgumentsAreBlocks, LoopAt
<1> QED BY <1>1, <1>8, <1>10, <1>11 DEF LoopInv

\* Passes: between them and walks is the one sync slot.
LEMMA PassesKeep ==
  ASSUME StoreInv, WalkInv, LoopInv,
         \/ PassBegin
         \/ \E h \in Hash, below \in Heights : Applies(h, below)
         \/ \E b \in Heights : RollsBack(b)
  PROVE  WalkInv' /\ LoopInv' /\ (Forward \/ Unseeing)
<1>1. TypeOK BY DEF StoreInv, StateInv, HoldInv, IndexInv
<1>2. CASE PassBegin
  <2>1. /\ ~ pass.on /\ loop.at \in {"catch_up", "follow"} /\ syncing' = TRUE
        /\ UNCHANGED <<tables, nodeVars, walk, loop, inFlight, gate>>
        /\ pass' = [NoPass EXCEPT !.on = TRUE, !.seen = SourceHead]
    BY <1>2 DEF PassBegin, BeginSync
  <2>2. walk.pc = "idle" BY <2>1 DEF LoopInv, SlotIsHeld
  <2>3. WalkInv' BY <2>1, <2>2, IdleKeeps, LocalKeeps
  <2>4. pass'.on /\ pass' \in [on : BOOLEAN, seen : Heights, applied : Nat, reached : BOOLEAN]
    <3> DEFINE yes == TRUE
               no == FALSE
    <3>1. pass' = [on |-> yes, seen |-> SourceHead, applied |-> 0, reached |-> no]
      BY <2>1 DEF NoPass
    <3>2. SourceHead \in Heights BY HeightsFact DEF SourceHead, WalkInv, FinalStays, NodeTypeOK
    <3>3. yes \in BOOLEAN /\ no \in BOOLEAN /\ yes OBVIOUS
    <3> HIDE DEF yes, no
    <3> QED BY <3>1, <3>2, <3>3
  <2>5. LoopInv'
    BY <2>1, <2>2, <2>4 DEF LoopInv, LoopTypeOK, SlotIsHeld, ArgumentsAreBlocks, LoopAt
  <2>6. Unseeing BY <2>1 DEF Unseeing
  <2> QED BY <2>3, <2>5, <2>6
<1>3. ASSUME NEW h \in Hash, NEW below \in Heights, Applies(h, below)
      PROVE  WalkInv' /\ LoopInv' /\ Forward
  <2>1. /\ pass.on /\ OnLine(h, canon) /\ below <= Num[final] /\ Extend(h, below)
        /\ UNCHANGED nodeVars /\ walk' = walk /\ loop' = loop
        /\ pass' = [pass EXCEPT !.applied = @ + 1, !.reached = (Num[h] = pass.seen)]
    BY <1>3 DEF Applies
  <2>2. walk.pc = "idle" BY <2>1 DEF LoopInv, SlotIsHeld
  <2>3. syncing' = syncing BY <2>1 DEF Extend, ApplyBlock, volatile
  <2>4. WalkInv'
    <3>1. FinalStays' BY <2>1 DEF WalkInv, FinalStays, NodeTypeOK, OnLine, nodeVars
    <3>2. StartsAreKnown' BY <1>1, <2>1, PassBlockKnown DEF WalkInv
    <3> QED BY <2>1, <2>2, <3>1, <3>2, IdleKeeps
  <2>5. pass'.on /\ pass' \in [on : BOOLEAN, seen : Heights, applied : Nat, reached : BOOLEAN]
    <3> DEFINE there == (Num[h] = pass.seen)
    <3>1. there \in BOOLEAN OBVIOUS
    <3> HIDE DEF there
    <3>2. pass' = [pass EXCEPT !.applied = @ + 1, !.reached = there] BY <2>1 DEF there
    <3>3. pass \in [on : BOOLEAN, seen : Heights, applied : Nat, reached : BOOLEAN]
      BY DEF LoopInv, LoopTypeOK
    <3>4. pass.applied + 1 \in Nat BY <3>3
    <3> QED BY <2>1, <3>1, <3>2, <3>3, <3>4
  <2>6. LoopInv'
    BY <2>1, <2>2, <2>3, <2>5 DEF LoopInv, LoopTypeOK, SlotIsHeld, ArgumentsAreBlocks, LoopAt
  <2> QED BY <2>1, <2>4, <2>6 DEF Forward
<1>4. ASSUME NEW b \in Heights, RollsBack(b)
      PROVE  WalkInv' /\ LoopInv' /\ Forward
  <2>1. /\ pass.on /\ Reorg(b) /\ UNCHANGED nodeVars
        /\ walk' = walk /\ loop' = loop /\ pass' = pass
    BY <1>4 DEF RollsBack
  <2>2. walk.pc = "idle" BY <2>1 DEF LoopInv, SlotIsHeld
  <2>3. syncing' = syncing BY <2>1 DEF Reorg, RollbackTo, volatile
  <2>4. WalkInv'
    <3>1. FinalStays' BY <2>1 DEF WalkInv, FinalStays, NodeTypeOK, OnLine, nodeVars
    <3>2. StartsAreKnown' BY <1>1, <2>1, PassReorgKnown DEF WalkInv
    <3> QED BY <2>1, <2>2, <3>1, <3>2, IdleKeeps
  <2>5. LoopInv'
    BY <2>1, <2>2, <2>3 DEF LoopInv, LoopTypeOK, SlotIsHeld, ArgumentsAreBlocks, LoopAt
  <2> QED BY <2>1, <2>4, <2>5 DEF Forward
<1> QED BY <1>2, <1>3, <1>4

\* A pass that ends, or fails, gives the slot back.
LEMMA PassEndsKeep ==
  ASSUME StoreInv, WalkInv, LoopInv, PassEnds \/ PassFails
  PROVE  WalkInv' /\ LoopInv' /\ Unseeing
<1>1. /\ pass.on /\ pass' = NoPass /\ SyncIdle /\ UNCHANGED nodeVars /\ walk' = walk
  BY DEF PassEnds, PassFails
<1>2. walk.pc = "idle" /\ loop.at \in {"catch_up", "follow"}
  BY <1>1 DEF LoopInv, SlotIsHeld
<1>3. UNCHANGED tables /\ inFlight' = 0 /\ syncing' = FALSE /\ gate' = gate
  BY <1>1 DEF SyncIdle
<1>4. WalkInv' BY <1>1, <1>2, <1>3, IdleKeeps, LocalKeeps
<1>5. /\ ~ pass'.on
      /\ pass' \in [on : BOOLEAN, seen : Heights, applied : Nat, reached : BOOLEAN]
  <2> DEFINE no == FALSE
  <2>1. pass' = [on |-> no, seen |-> 0, applied |-> 0, reached |-> no] BY <1>1 DEF NoPass
  <2>2. no \in BOOLEAN /\ ~ no OBVIOUS
  <2> HIDE DEF no
  <2> QED BY <2>1, <2>2, HeightsFact
<1>6. \E to \in {"catch_up", "follow", "backfill", "exited"}, n \in 0 .. MaxFailures + 1 :
        loop' = [loop EXCEPT !.failures = n, !.at = to]
  <2>1. CASE PassEnds
    <3> DEFINE to == CASE LoopAt("catch_up") ->
                            IF pass.applied = 0 \/ pass.reached THEN AfterCatchUp ELSE "catch_up"
                       [] OTHER ->
                            IF loop.pending # {} /\ pass.applied > 0 THEN "backfill" ELSE "follow"
    <3>1. loop' = [loop EXCEPT !.failures = 0, !.at = to] BY <2>1 DEF PassEnds
    <3>2. to \in {"catch_up", "follow", "backfill"} BY DEF AfterCatchUp
    <3>3. 0 \in 0 .. MaxFailures + 1 BY LoopFact DEF LoopInv
    <3> HIDE DEF to
    <3> QED BY <3>1, <3>2, <3>3
  <2>2. CASE PassFails
    <3>1. CASE LoopAt("catch_up")
      <4> DEFINE n == Counted(loop.failures)
                 to == IF GivesUp(n) THEN "exited" ELSE "catch_up"
      <4>1. loop' = [loop EXCEPT !.failures = n, !.at = to]
        BY <2>2, <3>1 DEF PassFails, AfterFailure
      <4>2. n \in 0 .. MaxFailures + 1 BY LoopFact DEF LoopInv
      <4>3. to \in {"exited", "catch_up"} OBVIOUS
      <4> HIDE DEF n, to
      <4> QED BY <4>1, <4>2, <4>3
    <3>2. CASE ~ LoopAt("catch_up")
      <4>1. loop' = loop /\ loop.at = "follow" BY <1>2, <2>2, <3>2 DEF PassFails, LoopAt
      <4>2. loop' = [loop EXCEPT !.failures = loop.failures, !.at = "follow"]
        BY <4>1 DEF LoopInv, LoopTypeOK
      <4>3. loop.failures \in 0 .. MaxFailures + 1 BY DEF LoopInv, LoopTypeOK
      <4> QED BY <4>2, <4>3
    <3> QED BY <3>1, <3>2
  <2> QED BY <2>1, <2>2
<1>7. PICK to \in {"catch_up", "follow", "backfill", "exited"}, n \in 0 .. MaxFailures + 1 :
        loop' = [loop EXCEPT !.failures = n, !.at = to]
  BY <1>6
<1>8. LoopTypeOK' BY <1>5, <1>7 DEF LoopInv, LoopTypeOK
<1>9. loop'.at = to BY <1>7 DEF LoopInv, LoopTypeOK
<1>10. SlotIsHeld' /\ ArgumentsAreBlocks'
  BY <1>1, <1>2, <1>3, <1>5, <1>9 DEF SlotIsHeld, ArgumentsAreBlocks, LoopAt
<1>11. Unseeing BY <1>3 DEF Unseeing
<1> QED BY <1>4, <1>8, <1>10, <1>11 DEF LoopInv

LEMMA WalkStarts ==
  ASSUME StoreInv, WalkInv, LoopInv, IndexWalk
  PROVE  WalkInv' /\ LoopInv' /\ Unseeing
<1>1. /\ loop.at = "walk" /\ loop' = [loop EXCEPT !.at = "walking"] /\ pass' = pass
      /\ WalkBegin(loop.ready, loop.target, Step, FALSE)
  BY DEF IndexWalk, Goto, LoopAt
<1>2. /\ loop.ready \in SUBSET Addr /\ loop.target \in Heights \ {0} /\ Step \in Nat
  BY <1>1, IndexAssumption DEF LoopInv, LoopTypeOK, ArgumentsAreBlocks
<1>3. WalkInv'
  <2> DEFINE no == FALSE
  <2>1. WalkBegin(loop.ready, loop.target, Step, no) /\ no \in BOOLEAN BY <1>1
  <2> HIDE DEF no
  <2> QED BY <1>2, <2>1, BeginKeepsWalk
<1>4. UNCHANGED tables /\ inFlight' = inFlight /\ gate' = gate /\ syncing' = TRUE
  BY <1>1 DEF WalkBegin, BeginSync
<1>5. ~ pass.on BY <1>1 DEF LoopInv, SlotIsHeld
<1>6. walk'.pc = "plan" BY <1>1 DEF WalkBegin, NoWalk
<1>7. LoopTypeOK' BY <1>1 DEF LoopInv, LoopTypeOK
<1>8. loop'.at = "walking" /\ loop'.target = loop.target BY <1>1 DEF LoopInv, LoopTypeOK
<1>9. SlotIsHeld' /\ ArgumentsAreBlocks'
  BY <1>1, <1>2, <1>4, <1>5, <1>6, <1>8 DEF SlotIsHeld, ArgumentsAreBlocks, LoopAt
<1> QED BY <1>3, <1>4, <1>7, <1>9 DEF LoopInv, Unseeing

\* A step of the walk; where it ends, the slot is free again.
LEMMA WalkStepsKeep ==
  ASSUME StoreInv, WalkInv, LoopInv, WalkSteps
  PROVE  WalkInv' /\ LoopInv' /\ (Forward \/ Backfills \/ Unseeing)
<1> DEFINE ends == PlanStart \/ PlanDone \/ AskAbove \/ WalkBatch \/ WalkTake \/ WalkApply
                     \/ WalkNext \/ WalkAbort
<1>1. /\ ends \/ PlanKnown \/ \E n \in Heights : WalkAnswer(n)
      /\ loop' = loop /\ pass' = pass
  BY DEF WalkSteps
<1>2. BackfillNext BY <1>1 DEF BackfillNext
<1>3. WalkInv' /\ (Forward \/ Backfills \/ Unseeing) BY <1>2, WalkStep
<1>4. walk.pc # "idle"
  BY <1>1 DEF PlanStart, PlanKnown, PlanDone, AskAbove, WalkBatch, WalkAnswer, WalkTake, WalkApply,
              WalkNext, WalkAbort, WalkAt
<1>5. walk'.pc = "idle" => ~ syncing'
  <2>1. CASE ends BY <2>1, EndKeepsWalk
  <2>2. CASE PlanKnown
    BY <2>2 DEF PlanKnown, WalkInv, WalkTypeOK
  <2>3. ASSUME NEW n \in Heights, WalkAnswer(n) PROVE walk'.pc # "idle"
    BY <2>3 DEF WalkAnswer, WalkInv, WalkTypeOK
  <2> QED BY <1>1, <2>1, <2>2, <2>3
<1>6. walk'.pc # "idle" => syncing' BY <1>3 DEF WalkInv, SlotIsTaken
<1>7. loop.at = "walking" /\ ~ pass.on BY <1>4 DEF LoopInv, SlotIsHeld
<1>8. LoopInv'
  BY <1>1, <1>5, <1>6, <1>7 DEF LoopInv, LoopTypeOK, SlotIsHeld, ArgumentsAreBlocks, LoopAt
<1> QED BY <1>3, <1>8

\* What happens between the steps of the program.
LEMMA OutsideKeeps ==
  ASSUME StoreInv, WalkInv, LoopInv,
         \/ \E a \in Addr : IndexWatch(a)
         \/ \E a \in Addr : UnwatchCommand(a)
         \/ NodeMoves /\ UNCHANGED <<loop, pass>>
  PROVE  WalkInv' /\ LoopInv' /\ (Forward \/ Unseeing)
<1>1. TypeOK BY DEF StoreInv, StateInv, HoldInv, IndexInv
<1>2. ASSUME NEW a \in Addr, IndexWatch(a) PROVE WalkInv' /\ LoopInv' /\ Forward
  <2>1. StartWatch(a, loop.start) /\ UNCHANGED <<nodeVars, walk, loop, pass>>
    BY <1>2 DEF IndexWatch
  <2>2. loop.start \in Heights BY DEF LoopInv, LoopTypeOK
  <2>3. WalkInv' BY <1>1, <2>1, <2>2, WatchKeepsWalk DEF UserWatch
  <2>4. syncing' = syncing BY <2>1 DEF StartWatch, volatile
  <2>5. LoopInv'
    BY <2>1, <2>4 DEF LoopInv, LoopTypeOK, SlotIsHeld, ArgumentsAreBlocks, LoopAt
  <2> QED BY <2>1, <2>2, <2>3, <2>5 DEF Forward
<1>3. ASSUME NEW a \in Addr, UnwatchCommand(a) PROVE WalkInv' /\ LoopInv' /\ Forward
  <2>1. UserUnwatch(a) /\ UNCHANGED <<loop, pass>> BY <1>3 DEF UnwatchCommand
  <2>2. WalkInv' BY <1>1, <2>1, UnwatchKeepsWalk
  <2>3. syncing' = syncing /\ walk' = walk
    BY <2>1 DEF UserUnwatch, EndWatch, Unwatch, volatile
  <2>4. LoopInv'
    BY <2>1, <2>3 DEF LoopInv, LoopTypeOK, SlotIsHeld, ArgumentsAreBlocks, LoopAt
  <2> QED BY <2>1, <2>2, <2>4 DEF Forward, UserUnwatch
<1>4. ASSUME NodeMoves, UNCHANGED <<loop, pass>> PROVE WalkInv' /\ LoopInv' /\ Unseeing
  <2>1. UNCHANGED archiveVars /\ walk' = walk BY <1>4 DEF NodeMoves
  <2>2. WalkInv' BY <1>1, <1>4, NodeKeepsWalk
  <2>3. syncing' = syncing /\ UNCHANGED tables /\ inFlight' = inFlight /\ gate' = gate
    BY <2>1 DEF archiveVars, volatile
  <2>4. LoopInv'
    BY <1>4, <2>1, <2>3 DEF LoopInv, LoopTypeOK, SlotIsHeld, ArgumentsAreBlocks, LoopAt
  <2>5. syncing \in BOOLEAN BY <1>1 DEF TypeOK
  <2> QED BY <2>2, <2>3, <2>4, <2>5 DEF Unseeing
<1> QED BY <1>2, <1>3, <1>4

\* The program starts over, and so do its walk and its pass.
LEMMA DownFact ==
  ASSUME NEW k \in 0 .. MaxKills
  PROVE  /\ Down(k).at = "down"
         /\ Down(k) \in [at : {"down", "watch", "catch_up", "backfill", "walk", "walking", "follow",
                              "done", "exited"},
                         once : BOOLEAN, start : Heights, back : {"none", "start", "follow"},
                         pending : SUBSET Addr, ready : SUBSET Addr, target : Heights,
                         failures : 0 .. MaxFailures + 1, kills : 0 .. MaxKills]
         /\ ~ NoPass.on
         /\ NoPass \in [on : BOOLEAN, seen : Heights, applied : Nat, reached : BOOLEAN]
<1> DEFINE no == FALSE
           none == {}
<1>1. Down(k) = [at |-> "down", once |-> no, start |-> 0, back |-> "none", pending |-> none,
                 ready |-> none, target |-> 0, failures |-> 0, kills |-> k]
  BY DEF Down
<1>2. NoPass = [on |-> no, seen |-> 0, applied |-> 0, reached |-> no] BY DEF NoPass
<1>3. no \in BOOLEAN /\ ~ no /\ none \in SUBSET Addr OBVIOUS
<1>4. 0 \in 0 .. MaxFailures + 1 /\ 0 \in Heights BY IndexAssumption, HeightsFact
<1> HIDE DEF no, none
<1> QED BY <1>1, <1>2, <1>3, <1>4

LEMMA KillKeeps ==
  ASSUME StoreInv, WalkInv, LoopInv, IndexKilled
  PROVE  WalkInv' /\ LoopInv' /\ Unseeing
<1>1. /\ loop.kills < MaxKills /\ loop' = Down(loop.kills + 1) /\ pass' = NoPass
      /\ walk' = NoWalk /\ inFlight' = 0 /\ syncing' = FALSE /\ gate' = FALSE
      /\ UNCHANGED tables /\ UNCHANGED nodeVars
  BY DEF IndexKilled
<1>2. walk' = [NoWalk EXCEPT !.out = "none"]
  <2> DEFINE none == [a \in Addr |-> NoWalker]
             no == FALSE
             empty == <<>>
  <2>1. NoWalk = [pc |-> "idle", target |-> 0, budget |-> 0, resolve |-> no, todo |-> {},
                  item |-> "none", walkers |-> none, cur |-> 0, expect |-> NoHash,
                  last |-> NoHash, blk |-> NoHash, queue |-> empty, out |-> "none"]
    BY DEF NoWalk
  <2> HIDE DEF none, no, empty
  <2> QED BY <1>1, <2>1
<1>3. WalkInv' BY <1>1, <1>2, WalkEnds
<1>4. loop.kills + 1 \in 0 .. MaxKills BY <1>1, IndexAssumption DEF LoopInv, LoopTypeOK
<1>5. LoopTypeOK' /\ loop'.at = "down" /\ ~ pass'.on BY <1>1, <1>4, DownFact DEF LoopTypeOK
<1>6. walk'.pc = "idle" BY <1>2, NoWalkFact
<1>7. LoopInv' BY <1>1, <1>5, <1>6 DEF LoopInv, SlotIsHeld, ArgumentsAreBlocks, LoopAt
<1>8. Unseeing BY <1>1 DEF Unseeing
<1> QED BY <1>3, <1>7, <1>8

\* Every step of the program keeps the walk's and the loop's invariants, and is a step
\* of the store or none.
LEMMA IndexStepKeeps ==
  ASSUME StoreInv, WalkInv, LoopInv, [IndexNext]_indexVars
  PROVE  WalkInv' /\ LoopInv' /\ (Forward \/ Backfills \/ Unseeing)
<1>1. UNCHANGED backfillVars => WalkInv' /\ Unseeing
  <2> SUFFICES ASSUME UNCHANGED backfillVars PROVE WalkInv' /\ Unseeing OBVIOUS
  <2>1. UNCHANGED tables /\ UNCHANGED volatile /\ UNCHANGED nodeVars /\ walk' = walk
    BY DEF backfillVars, archiveVars
  <2>2. syncing \in BOOLEAN BY DEF StoreInv, StateInv, HoldInv, IndexInv, TypeOK
  <2>3. Unseeing BY <2>1, <2>2 DEF Unseeing, volatile
  <2>4. WalkInv'
    BY <2>1, LocalKeeps
    DEF WalkInv, WalkTypeOK, SlotIsTaken, WalkersHold, ChainIsUnbroken, WalkersAreOnTheChain,
        WorkIsPlanned, Descends, Attached, Above, Walking, volatile
  <2> QED BY <2>3, <2>4
<1>2. ASSUME NEW once \in BOOLEAN, IndexStart(once)
      PROVE  WalkInv' /\ LoopInv' /\ Unseeing
  BY <1>1, <1>2, StartsLoop DEF IndexStart
<1>3. CASE IndexWatched \/ FallBehind \/ IndexWalked BY <1>1, <1>3, MovesLoop
<1>4. CASE BackfillPlan BY <1>1, <1>4, PlansLoop
<1>5. CASE \/ PassBegin
           \/ \E h \in Hash, below \in Heights : Applies(h, below)
           \/ \E b \in Heights : RollsBack(b)
  BY <1>5, PassesKeep
<1>6. CASE PassEnds \/ PassFails BY <1>6, PassEndsKeep
<1>7. CASE IndexWalk BY <1>7, WalkStarts
<1>8. CASE WalkSteps BY <1>8, WalkStepsKeep
<1>9. CASE \/ \E a \in Addr : IndexWatch(a)
           \/ \E a \in Addr : UnwatchCommand(a)
           \/ NodeMoves /\ UNCHANGED <<loop, pass>>
  BY <1>9, OutsideKeeps
<1>10. CASE IndexKilled BY <1>10, KillKeeps
<1>11. CASE UNCHANGED indexVars
  <2>1. UNCHANGED backfillVars /\ loop' = loop /\ pass' = pass BY <1>11 DEF indexVars
  <2>2. syncing' = syncing /\ walk' = walk BY <2>1 DEF backfillVars, archiveVars, volatile
  <2>3. LoopInv'
    BY <2>1, <2>2 DEF LoopInv, LoopTypeOK, SlotIsHeld, ArgumentsAreBlocks, LoopAt
  <2> QED BY <1>1, <2>1, <2>3
<1>12. CASE Proceeds
  BY <1>3, <1>4, <1>5, <1>6, <1>7, <1>8, <1>9, <1>12, Zenon DEF Proceeds
<1>13. CASE IndexNext BY <1>2, <1>9, <1>10, <1>12, <1>13, Zenon DEF IndexNext
<1> QED BY <1>11, <1>13

LEMMA IndexKeeps == IndexSpec => [](StoreInv /\ WalkInv /\ LoopInv)
<1>1. IndexInit => StoreInv /\ WalkInv /\ LoopInv
  <2> SUFFICES ASSUME IndexInit PROVE StoreInv /\ WalkInv /\ LoopInv OBVIOUS
  <2>1. BackfillInit /\ loop = Down(0) /\ pass = NoPass BY DEF IndexInit
  <2>2. walk.pc = "idle" /\ ~ syncing BY <2>1 DEF BackfillInit, Init, NoWalk
  <2>3. 0 \in 0 .. MaxKills BY IndexAssumption
  <2>4. LoopTypeOK /\ loop.at = "down" /\ ~ pass.on BY <2>1, <2>3, DownFact DEF LoopTypeOK
  <2>5. LoopInv BY <2>2, <2>4 DEF LoopInv, SlotIsHeld, ArgumentsAreBlocks, LoopAt
  <2> QED BY <2>1, <2>5, WalksStart
<1>2. StoreInv /\ WalkInv /\ LoopInv /\ [IndexNext]_indexVars => (StoreInv /\ WalkInv /\ LoopInv)'
  <2> SUFFICES ASSUME StoreInv, WalkInv, LoopInv, [IndexNext]_indexVars
               PROVE  StoreInv' /\ WalkInv' /\ LoopInv'
    OBVIOUS
  <2>1. WalkInv' /\ LoopInv' /\ (Forward \/ Backfills \/ Unseeing) BY IndexStepKeeps
  <2>2. Unseeing => StoreInv' BY VolatileKeeps DEF Unseeing
  <2> QED BY <2>1, <2>2, StoreStep
<1> QED BY <1>1, <1>2, PTL DEF IndexSpec

\* However a pass or a walk ended - done, failed, out of budget, killed - the sync slot is
\* free when the program is about to start the next.
THEOREM SlotStaysFree == IndexSpec => []SlotIsFree
<1>1. LoopInv => SlotIsFree BY DEF LoopInv, SlotIsHeld, SlotIsFree
<1> QED BY IndexKeeps, <1>1, PTL

\* And a walk that goes on is where its watches are, however often the program had to
\* try again and whatever was unwatched meanwhile.
THEOREM IndexedStartsHold == IndexSpec => []WalkersHoldTheirStarts
<1>1. WalkInv => WalkersHoldTheirStarts
  BY DEF WalkInv, WalkersHold, WalkersHoldTheirStarts, Walking, NoWalker
<1> QED BY IndexKeeps, <1>1, PTL

\* The whole program is, for the tables, the single caller of module Archive that goes
\* forward, rolls back, and lowers one start at a time.
THEOREM IndexGoesDown == IndexSpec => WalksDown
<1>1. IndexInit => Walked!Init BY WalkedStart DEF IndexInit
<1>2. (StoreInv /\ WalkInv /\ LoopInv) /\ [IndexNext]_indexVars
        => [UNCHANGED tables \/ Walked!Forward \/ Walked!Backfills]_tables
  <2> SUFFICES ASSUME StoreInv, WalkInv, LoopInv, [IndexNext]_indexVars, ~ UNCHANGED tables
               PROVE  Walked!Forward \/ Walked!Backfills
    OBVIOUS
  <2>1. Forward \/ Backfills BY IndexStepKeeps DEF Unseeing
  <2> QED BY <2>1, WalkedStep
<1> QED BY IndexKeeps, <1>1, <1>2, PTL DEF IndexSpec, WalksDown

\* The archive that balq index keeps, over all its passes, walks, failures and kills,
\* holds what the chain of its head has,
THEOREM IndexedChainHolds == IndexSpec => []HoldsTheChain
<1>1. StoreInv => HoldsTheChain BY ChainFollows DEF StoreInv, StateInv
<1> QED BY IndexKeeps, <1>1, PTL

\* answers every read with the chain's value,
THEOREM IndexedReadsHold == IndexSpec => []ReadsAreTrue
<1>1. StoreInv => ReadsAreTrue
  <2>1. NoneProven => PreValuesAreTrue BY DEF NoneProven, PreValuesAreTrue, PreValue
  <2> QED BY <2>1, ReadsFollow DEF StoreInv
<1> QED BY IndexKeeps, <1>1, PTL

\* and where it finds nothing, says rightly from where on the slot is known.
THEOREM IndexedUnknownHolds == IndexSpec => []UnknownIsExact
<1>1. StoreInv => UnknownIsExact BY UnknownFollows DEF StoreInv
<1> QED BY IndexKeeps, <1>1, PTL
=============================================================================
