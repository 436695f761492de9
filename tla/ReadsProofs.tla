----------------------------- MODULE ReadsProofs -----------------------------
(***************************************************************************)
(* What a read answers.  An answer rests on three tables: the records,     *)
(* which ArchiveProofs ties to the chain; the bootstrap states, which say  *)
(* where a slot was first written; and the creations.  Each is tied to     *)
(* the line of the head here.  The proven pre-values come last: they are   *)
(* true only as long as no backfill moves the start away from them.        *)
(***************************************************************************)
EXTENDS ArchiveProofs

USE DEF Heights

-----------------------------------------------------------------------------
(* The bootstrap states tell where a slot was first written *)

\* No block of the covered range under to writes the slot.
Quiet(w, top, a, s, to) ==
  \A n \in Heights : Covered(w, top, a, n) /\ n < to => s \notin Written(Line[top][n], a)

\* What state b says of slot s of a, with the watchlist w and the head top.
Told(b, w, top, a, s) ==
  /\ b = Unseen => Quiet(w, top, a, s, MaxHeight + 1)
  /\ Unresolved(b) => /\ Covered(w, top, a, b.seen)
                      /\ s \in Written(Line[top][b.seen], a)
                      /\ Quiet(w, top, a, s, b.seen)

StatesAreTold == \A a \in Addr, s \in Slot : Told(boot[a][s], watch, head, a, s)

\* A creation is a deployment on the head's chain, inside the covered range.
Born(n, w, top, a) == n # 0 => Covered(w, top, a, n) /\ a \in Deploys[Line[top][n]]
CreationsAreTrue == \A a \in Addr : Born(created[a], watch, head, a)

\* The two together, for one address.
TrueStates(b, n, w, top, a) == Born(n, w, top, a) /\ \A s \in Slot : Told(b[s], w, top, a, s)

StateInv == HoldInv /\ PendingMirrorsBoot /\ StatesAreTold /\ CreationsAreTrue

LEMMA ToldCases ==
  ASSUME NEW w, NEW top, NEW a, NEW s
  PROVE  /\ Told(Done, w, top, a, s)
         /\ Told(Unseen, w, top, a, s) <=> Quiet(w, top, a, s, MaxHeight + 1)
         /\ \A n \in Nat : \A b \in {Pending(n), Lost(n)} :
              Told(b, w, top, a, s) <=> /\ Covered(w, top, a, n)
                                        /\ s \in Written(Line[top][n], a)
                                        /\ Quiet(w, top, a, s, n)
BY DEF Told, Done, Unseen, Pending, Lost, Unresolved

\* A state is one of the four.
LEMMA StateCases ==
  ASSUME NEW b \in BootState
  PROVE  /\ b.seen \in Heights
         /\ Unresolved(b) => b = Pending(b.seen) \/ b = Lost(b.seen)
         /\ Unresolved(b) <=> b.tag \in {"pending", "lost"}
         /\ Unresolved(b) => b # Unseen /\ b # Done
BY DEF BootState, Unresolved, Pending, Lost, Unseen, Done

-----------------------------------------------------------------------------
(* Blocks going forward *)

LEMMA ApplyTold ==
  ASSUME StateInv, NEW h \in Hash, NEW below, Extend(h, below), NEW a \in Addr, NEW s \in Slot
  PROVE  Told(boot'[a][s], watch', head', a, s)
<1>1. TypeOK /\ Follows(h) BY DEF StateInv, HoldInv, IndexInv, Extend
<1>2. /\ head' = h /\ watch' = watch /\ h # NoHash
      /\ boot'[a][s] = IF a \in Live(h, watch) THEN BootAfter(h, a, s) ELSE boot[a][s]
  BY HeightsFact DEF Extend, ApplyBlock
<1>3. Told(boot[a][s], watch, head, a, s) BY DEF StateInv, StatesAreTold
<1>4. watch[a] \in Nat /\ Num[h] \in Nat /\ Num[h] <= MaxHeight /\ boot[a][s] \in BootState
  BY <1>1, HeightsFact DEF TypeOK
<1>5. a \in Live(h, watch) <=> watch[a] # 0 /\ watch[a] <= Num[h] BY <1>4 DEF Live
<1>6. \A n \in Heights : Covered(watch, head, a, n) =>
        Covered(watch, h, a, n) /\ Line[h][n] = Line[head][n] /\ n < Num[h]
  <2> SUFFICES ASSUME NEW n \in Heights, Covered(watch, head, a, n)
               PROVE  Covered(watch, h, a, n) /\ Line[h][n] = Line[head][n] /\ n < Num[h]
    OBVIOUS
  <2>1. head # NoHash /\ n <= Num[head] BY DEF Covered
  <2>2. head \in Hash /\ Num[head] \in Nat BY <1>1, <2>1, HeightsFact DEF TypeOK
  <2>3. Num[h] = Num[head] + 1 /\ Line[h][n] = Line[head][n] BY <1>1, <2>1, FollowsFact
  <2> QED BY <1>2, <2>1, <2>2, <2>3 DEF Covered
<1>7. \A n \in Heights : Covered(watch, h, a, n) =>
        \/ n = Num[h] /\ Line[h][n] = h
        \/ Covered(watch, head, a, n) /\ Line[h][n] = Line[head][n]
  <2> SUFFICES ASSUME NEW n \in Heights, Covered(watch, h, a, n), n # Num[h]
               PROVE  Covered(watch, head, a, n) /\ Line[h][n] = Line[head][n]
    BY <1>1, FollowsFact
  <2>1. watch[a] # 0 /\ watch[a] <= n /\ n < Num[h] BY <1>4 DEF Covered
  <2>2. head # NoHash BY <1>1, <1>4, <2>1, FollowsFact
  <2>3. head \in Hash /\ Num[head] \in Nat BY <1>1, <2>2, HeightsFact DEF TypeOK
  <2>4. n <= Num[head] /\ Line[h][n] = Line[head][n]
    BY <1>1, <1>4, <2>1, <2>2, <2>3, FollowsFact
  <2> QED BY <2>1, <2>2, <2>4 DEF Covered
\* What was said of the old head is true of the new one, where h adds nothing.
<1>8. ASSUME Quiet(watch, head, a, s, MaxHeight + 1)
      PROVE  /\ Quiet(watch, h, a, s, Num[h])
             /\ s \notin Written(h, a) => Quiet(watch, h, a, s, MaxHeight + 1)
  <2>1. \A n \in Heights : Covered(watch, head, a, n) => s \notin Written(Line[head][n], a)
    BY <1>8, HeightsFact DEF Quiet
  <2> QED BY <1>4, <1>7, <2>1 DEF Quiet
<1>9. ASSUME Unresolved(boot[a][s]) PROVE Told(boot[a][s], watch, h, a, s)
  <2> DEFINE n == boot[a][s].seen
  <2>1. n \in Heights /\ boot[a][s] # Unseen BY <1>4, <1>9, StateCases
  <2>2. /\ Covered(watch, head, a, n) /\ s \in Written(Line[head][n], a)
        /\ Quiet(watch, head, a, s, n)
    BY <1>3, <1>9 DEF Told
  <2> HIDE DEF n
  <2>3. Quiet(watch, h, a, s, n) BY <1>4, <1>6, <1>7, <2>1, <2>2 DEF Quiet
  <2> QED BY <1>6, <2>1, <2>2, <2>3 DEF Told, n
<1>10. CASE a \notin Live(h, watch)
  <2>1. boot'[a][s] = boot[a][s] BY <1>2, <1>10
  <2>2. \A n \in Heights : ~ Covered(watch, h, a, n)
    BY <1>4, <1>5, <1>10 DEF Covered
  <2> QED BY <1>2, <1>9, <2>1, <2>2 DEF Told, Quiet
<1>11. CASE a \in Live(h, watch)
  <2>1. boot'[a][s] = BootAfter(h, a, s) BY <1>2, <1>11
  <2>2. CASE boot[a][s] = Unseen
    <3>1. Quiet(watch, head, a, s, MaxHeight + 1) BY <1>3, <2>2 DEF Told
    <3>2. CASE s \notin Written(h, a)
      <4>1. boot'[a][s] = Unseen BY <2>1, <2>2, <3>2 DEF BootAfter
      <4> QED BY <1>2, <1>8, <3>1, <3>2, <4>1, ToldCases
    <3>3. CASE s \in Written(h, a) /\ IsCreated(h, a)
      <4>1. boot'[a][s] = Done BY <2>1, <2>2, <3>3 DEF BootAfter
      <4> QED BY <4>1, ToldCases
    <3>4. CASE s \in Written(h, a) /\ ~ IsCreated(h, a)
      <4>1. boot'[a][s] = Pending(Num[h]) BY <2>1, <2>2, <3>4 DEF BootAfter
      <4>2. Covered(watch, h, a, Num[h]) BY <1>2, <1>4, <1>5, <1>11 DEF Covered
      <4>3. Line[h][Num[h]] = h BY <1>1, FollowsFact
      <4> QED BY <1>2, <1>4, <1>8, <3>1, <3>4, <4>1, <4>2, <4>3, ToldCases
    <3> QED BY <3>2, <3>3, <3>4
  <2>3. CASE boot[a][s] # Unseen
    <3>1. boot'[a][s] = Done \/ boot'[a][s] = boot[a][s] BY <2>1, <2>3 DEF BootAfter
    <3>2. ~ Unresolved(boot[a][s]) => Told(boot[a][s], watch, h, a, s)
      BY <2>3 DEF Told
    <3> QED BY <1>2, <1>9, <3>1, <3>2, ToldCases
  <2> QED BY <2>2, <2>3
<1> QED BY <1>10, <1>11

LEMMA ApplyBorn ==
  ASSUME StateInv, NEW h \in Hash, NEW below, Extend(h, below), NEW a \in Addr
  PROVE  Born(created'[a], watch', head', a)
<1>1. TypeOK /\ Follows(h) BY DEF StateInv, HoldInv, IndexInv, Extend
<1>2. /\ head' = h /\ watch' = watch /\ h # NoHash
      /\ created'[a] = IF a \in Live(h, watch) /\ Creates(h, a) THEN Num[h] ELSE created[a]
  BY HeightsFact DEF Extend, ApplyBlock
<1>3. CASE a \in Live(h, watch) /\ Creates(h, a)
  <2>1. Covered(watch, h, a, Num[h])
    BY <1>1, <1>2, <1>3, HeightsFact DEF Covered, Live, TypeOK
  <2>2. Line[h][Num[h]] = h BY <1>1, FollowsFact
  <2> QED BY <1>2, <1>3, <2>1, <2>2 DEF Born, Creates
<1>4. CASE ~ (a \in Live(h, watch) /\ Creates(h, a)) /\ created[a] # 0
  <2> DEFINE n == created[a]
  <2>1. Covered(watch, head, a, n) /\ a \in Deploys[Line[head][n]] /\ n \in Heights
    BY <1>1, <1>4 DEF StateInv, CreationsAreTrue, Born, TypeOK
  <2>2. head \in Hash /\ Num[head] \in Nat /\ n <= Num[head] /\ head # NoHash
    BY <1>1, <2>1, HeightsFact DEF Covered, TypeOK
  <2>3. Num[h] = Num[head] + 1 /\ Line[h][n] = Line[head][n]
    BY <1>1, <2>1, <2>2, FollowsFact
  <2>4. Covered(watch, h, a, n) BY <1>2, <2>1, <2>2, <2>3, HeightsFact DEF Covered
  <2> QED BY <1>2, <1>4, <2>1, <2>3, <2>4 DEF Born
<1> QED BY <1>2, <1>3, <1>4 DEF Born

-----------------------------------------------------------------------------
(* Reorgs *)

LEMMA ReorgFact ==
  ASSUME TypeOK, NEW b \in Heights, Reorg(b)
  PROVE  /\ head # NoHash /\ head \in Hash /\ b <= Num[head] /\ Num[head] \in Nat
         /\ head' \in Hash /\ head' # NoHash /\ Num[head'] = b /\ watch' = watch
         /\ \A n \in Heights : n <= b => Line[head'][n] = Line[head][n]
<1>1. /\ head # NoHash /\ b <= Num[head] /\ head' = Line[head][b] /\ watch' = watch
  BY DEF Reorg, RollbackTo
<1>2. head \in Hash /\ Num[head] \in Nat BY <1>1, HeightsFact DEF TypeOK
<1> QED BY <1>1, <1>2, LineFact, HeightsFact

\* What is covered after a rollback was covered before it.
LEMMA ReorgCovered ==
  ASSUME TypeOK, NEW b \in Heights, Reorg(b), NEW a \in Addr, NEW n \in Heights
  PROVE  /\ Covered(watch', head', a, n) <=> Covered(watch, head, a, n) /\ n <= b
         /\ n <= b => Line[head'][n] = Line[head][n]
<1>1. n <= b => n <= Num[head] BY ReorgFact, HeightsFact
<1> QED BY <1>1, ReorgFact DEF Covered

\* A first change above the fork is in the index, and so is forgotten.
LEMMA RollbackTold ==
  ASSUME StateInv, NEW b \in Heights, Reorg(b), NEW a \in Addr, NEW s \in Slot
  PROVE  Told(boot'[a][s], watch', head', a, s)
<1>1. TypeOK BY DEF StateInv, HoldInv, IndexInv
<1>2. Told(boot[a][s], watch, head, a, s) BY DEF StateInv, StatesAreTold
<1>3. boot'[a][s] = IF Forgotten(b, watch, a, s) THEN Unseen ELSE boot[a][s]
  BY DEF Reorg, RollbackTo
<1>4. \A n \in Heights : /\ Covered(watch', head', a, n) <=> Covered(watch, head, a, n) /\ n <= b
                         /\ n <= b => Line[head'][n] = Line[head][n]
  BY <1>1, ReorgCovered
<1>5. boot[a][s] \in BootState /\ watch[a] \in Nat BY <1>1, HeightsFact DEF TypeOK
<1> DEFINE seen == boot[a][s].seen
<1>6. seen \in Heights BY <1>5, StateCases
<1>7. ASSUME Unresolved(boot[a][s])
      PROVE  /\ Covered(watch, head, a, seen) /\ s \in Written(Line[head][seen], a)
             /\ Quiet(watch, head, a, s, seen)
  BY <1>2, <1>7 DEF Told
<1>8. CASE Forgotten(b, watch, a, s)
  <2>1. CASE Wiped(b, watch, a)
    <3>1. \A n \in Heights : ~ Covered(watch', head', a, n)
      BY <1>4, <1>5, <2>1, HeightsFact DEF Wiped, Covered
    <3> QED BY <1>3, <1>8, <3>1, ToldCases DEF Quiet
  <2>2. CASE Unresolved(boot[a][s]) /\ seen > b
    <3>1. Quiet(watch', head', a, s, MaxHeight + 1)
      BY <1>4, <1>6, <1>7, <2>2, HeightsFact DEF Quiet
    <3> QED BY <1>3, <1>8, <3>1, ToldCases
  <2> QED BY <1>8, <2>1, <2>2 DEF Forgotten
<1>9. CASE ~ Forgotten(b, watch, a, s)
  <2>1. boot'[a][s] = boot[a][s] BY <1>3, <1>9
  <2>2. CASE Unresolved(boot[a][s])
    <3>1. seen <= b
      <4>1. SUFFICES ASSUME seen > b PROVE FALSE BY <1>6, HeightsFact
      <4>2. Holds(BlockRecords, a, seen, Line[head][seen])
        BY <1>6, <1>7, <2>2 DEF StateInv, HoldInv, ChainHeld
      <4>3. Line[head][seen] \in Hash
        BY <1>1, <1>6, <1>7, <2>2, LineFact DEF Covered, TypeOK
      <4>4. PICK r \in BlockRecords : r.addr = a /\ r.block = seen /\ r.slot = s
        BY <1>7, <2>2, <4>2, <4>3, HeldSlot
      <4>5. Entry(r) \in blockidx BY DEF StateInv, HoldInv, IndexInv, IndexCovers
      <4>6. Entry(r) \in Victims(b, watch)
        BY <1>7, <2>2, <4>1, <4>4, <4>5 DEF Victims, Entry, Covered
      <4> QED BY <1>9, <2>2, <4>1, <4>4, <4>6 DEF Forgotten, Entry
    <3>2. Quiet(watch', head', a, s, seen) BY <1>4, <1>7, <2>2 DEF Quiet
    <3>3. boot[a][s] # Unseen BY <1>5, <2>2, StateCases
    <3> QED BY <1>4, <1>6, <1>7, <2>1, <2>2, <3>1, <3>2, <3>3 DEF Told
  <2>3. CASE ~ Unresolved(boot[a][s])
    BY <1>2, <1>4, <2>1, <2>3 DEF Told, Quiet
  <2> QED BY <2>2, <2>3
<1> QED BY <1>8, <1>9

LEMMA RollbackBorn ==
  ASSUME StateInv, NEW b \in Heights, Reorg(b), NEW a \in Addr
  PROVE  Born(created'[a], watch', head', a)
<1>1. TypeOK BY DEF StateInv, HoldInv, IndexInv
<1>2. created[a] \in Heights BY <1>1 DEF TypeOK
<1>3. Born(created[a], watch, head, a) BY DEF StateInv, CreationsAreTrue
<1>4. created'[a] = IF created[a] > b THEN 0 ELSE created[a] BY DEF Reorg, RollbackTo
<1>5. CASE created[a] > b BY <1>4, <1>5 DEF Born
<1>6. CASE created[a] <= b
  <2>1. created'[a] = created[a] BY <1>2, <1>4, <1>6, HeightsFact
  <2> QED BY <1>1, <1>2, <1>3, <1>6, <2>1, ReorgCovered DEF Born
<1> QED BY <1>2, <1>5, <1>6, HeightsFact

-----------------------------------------------------------------------------
(* Blocks going backward *)

LEMMA LowerFact ==
  ASSUME TypeOK, NEW c \in Addr, Lower(c)
  PROVE  /\ watch[c] - 1 \in Heights /\ watch[c] - 1 >= 1 /\ watch[c] - 1 < watch[c]
         /\ watch[c] - 1 <= Num[head] /\ head \in Hash /\ head # NoHash
         /\ Line[head][watch[c] - 1] \in Hash
         /\ Num[Line[head][watch[c] - 1]] = watch[c] - 1
         /\ BackfillBlock(c, Line[head][watch[c] - 1])
         /\ head' = head
         /\ watch'[c] = watch[c] - 1
         /\ \A a \in Addr : a # c => /\ watch'[a] = watch[a] /\ boot'[a] = boot[a]
                                     /\ created'[a] = created[a]
<1> DEFINE m == watch[c] - 1
           h == Line[head][m]
<1>1. m \in Heights /\ m >= 1 /\ m < watch[c] /\ m <= Num[head] /\ head \in Hash /\ head # NoHash
  BY HeightsFact DEF TypeOK, Lower
<1>2. h \in Hash /\ Num[h] = m BY <1>1, LineFact
<1>3. BackfillBlock(c, h) BY DEF Lower
<1> HIDE DEF h
<1>4. head' = head /\ watch'[c] = Num[h] BY <1>3 DEF BackfillBlock, TypeOK
<1>5. \A a \in Addr : a # c => watch'[a] = watch[a] /\ boot'[a] = boot[a] /\ created'[a] = created[a]
  BY <1>3 DEF BackfillBlock, TypeOK
<1> QED BY <1>1, <1>2, <1>3, <1>4, <1>5 DEF h

\* The walk adds one block to what is covered, under all the others.
LEMMA LowerTold ==
  ASSUME StateInv, NEW c \in Addr, Lower(c), NEW a \in Addr, NEW s \in Slot
  PROVE  Told(boot'[a][s], watch', head', a, s)
<1> DEFINE m == watch[c] - 1
           h == Line[head][m]
<1>1. TypeOK BY DEF StateInv, HoldInv, IndexInv
<1>2. /\ m \in Heights /\ m >= 1 /\ m < watch[c] /\ m <= Num[head] /\ head # NoHash
      /\ h \in Hash /\ Num[h] = m /\ BackfillBlock(c, h) /\ head' = head /\ watch'[c] = m
      /\ a # c => watch'[a] = watch[a] /\ boot'[a] = boot[a]
  BY <1>1, LowerFact
<1>3. Told(boot[a][s], watch, head, a, s) BY DEF StateInv, StatesAreTold
<1>4. CASE a # c
  BY <1>2, <1>3, <1>4 DEF Told, Quiet, Covered
<1>5. CASE a = c
  <2>1. watch[a] \in Nat /\ boot[a][s] \in BootState BY <1>1, HeightsFact DEF TypeOK
  <2>2. \A n \in Heights : Covered(watch', head', a, n) =>
          m <= n /\ (n = m \/ Covered(watch, head, a, n))
    BY <1>2, <1>5, <2>1, HeightsFact DEF Covered
  <2>3. Covered(watch', head', a, m) BY <1>2, <1>5, HeightsFact DEF Covered
  <2>4. h = Line[head'][m] BY <1>2
  <2>5. m \in Nat /\ watch[a] = m + 1 BY <1>2, <1>5, <2>1, HeightsFact
  <2> DEFINE next == IF s \in Written(h, a) THEN Lowered(boot[a][s], m) ELSE boot[a][s]
  <2>6. boot'[a][s] = IF a \in Deploys[h] THEN IF next = Unseen THEN Unseen ELSE Done ELSE next
    BY <1>1, <1>2, <1>5 DEF BackfillBlock, TypeOK
  <2> HIDE DEF m, h
  \* A write in the new block is the first one.
  <2>7. CASE s \in Written(h, a)
    <3>1. Quiet(watch', head', a, s, m) BY <1>2, <2>2, <2>5, HeightsFact DEF Quiet
    <3>2. (next = boot[a][s] /\ boot[a][s].tag = "done") \/ next \in {Pending(m), Lost(m)}
      BY <2>7 DEF Lowered
    <3>3. Told(next, watch', head', a, s) /\ next # Unseen
      <4>1. CASE next \in {Pending(m), Lost(m)}
        <5>1. next # Unseen BY <4>1 DEF Pending, Lost, Unseen
        <5> QED BY <2>3, <2>4, <2>5, <2>7, <3>1, <4>1, <5>1, ToldCases
      <4>2. CASE next = boot[a][s] /\ boot[a][s].tag = "done"
        BY <4>2 DEF Told, Unseen, Unresolved
      <4> QED BY <3>2, <4>1, <4>2
    <3> HIDE DEF next
    <3> QED BY <2>6, <3>3, ToldCases
  \* Otherwise what was first before is first still.
  <2>8. CASE s \notin Written(h, a)
    <3>1. \A n \in Heights : Covered(watch, head, a, n) => Covered(watch', head', a, n)
      BY <1>2, <1>5, <2>5, HeightsFact DEF Covered
    <3>2. \A to : Quiet(watch, head, a, s, to) => Quiet(watch', head', a, s, to)
      BY <1>2, <2>2, <2>4, <2>8 DEF Quiet
    <3>3. boot[a][s].seen \in Heights BY <2>1, StateCases
    <3>4. Told(boot[a][s], watch', head', a, s)
      BY <1>2, <1>3, <3>1, <3>2, <3>3 DEF Told
    <3> QED BY <2>6, <2>8, <3>4, ToldCases
  <2> QED BY <2>7, <2>8
<1> QED BY <1>4, <1>5

LEMMA LowerBorn ==
  ASSUME StateInv, NEW c \in Addr, Lower(c), NEW a \in Addr
  PROVE  Born(created'[a], watch', head', a)
<1> DEFINE m == watch[c] - 1
           h == Line[head][m]
<1>1. TypeOK BY DEF StateInv, HoldInv, IndexInv
<1>2. /\ m \in Heights /\ m >= 1 /\ m <= Num[head] /\ head # NoHash
      /\ h \in Hash /\ Num[h] = m /\ BackfillBlock(c, h) /\ head' = head /\ watch'[c] = m
      /\ a # c => watch'[a] = watch[a] /\ created'[a] = created[a]
  BY <1>1, LowerFact
<1>3. Born(created[a], watch, head, a) BY DEF StateInv, CreationsAreTrue
<1>4. CASE a # c BY <1>2, <1>3, <1>4 DEF Born, Covered
<1>5. CASE a = c
  <2>1. created[a] = 0 BY <1>5 DEF Lower
  <2>2. Covered(watch', head', a, m) BY <1>2, <1>5, HeightsFact DEF Covered
  <2>3. h = Line[head'][m] BY <1>2
  <2> HIDE DEF m, h
  <2>4. created'[a] = IF a \in Deploys[h] THEN m ELSE 0
    BY <1>1, <1>2, <1>5, <2>1 DEF BackfillBlock, TypeOK
  <2> QED BY <2>2, <2>3, <2>4 DEF Born
<1> QED BY <1>4, <1>5

-----------------------------------------------------------------------------
(* The other transactions *)

LEMMA WatchTold ==
  ASSUME StateInv, NEW c \in Addr, NEW n \in Heights, Watch(c, n, HeadNumber),
         NEW a \in Addr
  PROVE  TrueStates(boot'[a], created'[a], watch', head', a)
<1>1. TypeOK BY DEF StateInv, HoldInv, IndexInv
<1>2. /\ boot' = boot /\ created' = created /\ head' = head /\ watch[c] = 0
      /\ n > HeadNumber
      /\ \A x \in Addr : watch'[x] = IF x = c THEN n ELSE watch[x]
  BY <1>1 DEF Watch, TypeOK
<1>3. TrueStates(boot[a], created[a], watch, head, a)
  BY DEF StateInv, StatesAreTold, CreationsAreTrue, TrueStates
<1>4. CASE a # c BY <1>2, <1>3, <1>4 DEF TrueStates, Told, Quiet, Covered, Born
<1>5. CASE a = c
  <2>1. head # NoHash => Num[head] \in Nat /\ n > Num[head]
    BY <1>1, <1>2, HeightsFact DEF HeadNumber, TypeOK
  <2>2. \A m \in Heights : ~ Covered(watch, head, a, m) /\ ~ Covered(watch', head', a, m)
    BY <1>2, <1>5, <2>1, HeightsFact DEF Covered
  <2>3. created[a] \in Heights /\ \A s \in Slot : boot[a][s].seen \in Heights
    BY <1>1, StateCases DEF TypeOK
  <2> QED BY <1>2, <1>3, <2>2, <2>3 DEF TrueStates, Told, Quiet, Born
<1> QED BY <1>4, <1>5

LEMMA UnwatchTold ==
  ASSUME StateInv, NEW c \in Addr, Unwatch(c), NEW a \in Addr
  PROVE  TrueStates(boot'[a], created'[a], watch', head', a)
<1>1. TypeOK BY DEF StateInv, HoldInv, IndexInv
<1>2. /\ head' = head
      /\ a = c => /\ watch'[a] = 0 /\ created'[a] = 0
                 /\ \A s \in Slot : boot'[a][s] = Unseen
      /\ a # c => watch'[a] = watch[a] /\ boot'[a] = boot[a] /\ created'[a] = created[a]
  BY <1>1 DEF Unwatch, TypeOK
<1>3. TrueStates(boot[a], created[a], watch, head, a)
  BY DEF StateInv, StatesAreTold, CreationsAreTrue, TrueStates
<1>4. CASE a # c BY <1>2, <1>3, <1>4 DEF TrueStates, Told, Quiet, Covered, Born
<1>5. CASE a = c
  <2>1. \A n \in Heights : ~ Covered(watch', head', a, n) BY <1>2, <1>5 DEF Covered
  <2> QED BY <1>2, <1>5, <2>1, ToldCases DEF TrueStates, Quiet, Born
<1> QED BY <1>4, <1>5

\* A proof settles a slot, an expiry gives it up where it was first written.
LEMMA OtherTold ==
  ASSUME StateInv, watch' = watch, head' = head, created' = created,
         NEW a \in Addr,
         \A s \in Slot :
           \/ boot'[a][s] = boot[a][s]
           \/ boot'[a][s] = Done
           \/ boot[a][s].tag = "pending" /\ boot'[a][s] = Lost(boot[a][s].seen)
  PROVE  TrueStates(boot'[a], created'[a], watch', head', a)
<1>1. TrueStates(boot[a], created[a], watch, head, a)
  BY DEF StateInv, StatesAreTold, CreationsAreTrue, TrueStates
<1> SUFFICES ASSUME NEW s \in Slot PROVE Told(boot'[a][s], watch', head', a, s)
  BY <1>1 DEF TrueStates
<1>2. Told(boot[a][s], watch, head, a, s) BY <1>1 DEF TrueStates
<1>3. CASE boot[a][s].tag = "pending" /\ boot'[a][s] = Lost(boot[a][s].seen)
  <2>1. Unresolved(boot[a][s]) BY <1>3 DEF Unresolved
  <2> QED BY <1>2, <1>3, <2>1 DEF Told, Lost, Unseen
<1> QED BY <1>2, <1>3, ToldCases

LEMMA ExpireCases ==
  ASSUME StateInv, NEW c \in Addr, NEW n \in Heights, Expire(c, n),
         NEW a \in Addr, NEW s \in Slot
  PROVE  \/ boot'[a][s] = boot[a][s]
         \/ boot[a][s].tag = "pending" /\ boot'[a][s] = Lost(boot[a][s].seen)
<1>1. TypeOK /\ PendingMirrorsBoot BY DEF StateInv, HoldInv, IndexInv
<1>2. boot'[a][s] = IF a = c /\ pending[c][s] = n THEN Lost(n) ELSE boot[a][s]
  BY <1>1 DEF Expire, MarkLost, TypeOK
<1>3. CASE a = c /\ pending[c][s] = n
  <2>1. n # 0 BY DEF Expire
  <2>2. boot[a][s].tag = "pending" /\ boot[a][s].seen = n
    BY <1>1, <1>3, <2>1 DEF PendingMirrorsBoot
  <2> QED BY <1>2, <1>3, <2>2
<1> QED BY <1>2, <1>3

-----------------------------------------------------------------------------

LEMMA StateStep ==
  ASSUME StateInv, [Next]_archiveVars, NEW a \in Addr
  PROVE  TrueStates(boot'[a], created'[a], watch', head', a)
<1>0. TypeOK BY DEF StateInv, HoldInv, IndexInv
<1>1. CASE UNCHANGED archiveVars
  BY <1>1, OtherTold DEF archiveVars, tables
<1>2. CASE Forward
  <2>1. ASSUME NEW c \in Addr, NEW n \in Heights, StartWatch(c, n)
        PROVE  TrueStates(boot'[a], created'[a], watch', head', a)
    BY <2>1, WatchTold DEF StartWatch
  <2>2. ASSUME NEW c \in Addr, EndWatch(c)
        PROVE  TrueStates(boot'[a], created'[a], watch', head', a)
    BY <2>2, UnwatchTold DEF EndWatch
  <2>3. ASSUME NEW h \in Hash, NEW below \in Heights, Extend(h, below)
        PROVE  TrueStates(boot'[a], created'[a], watch', head', a)
    BY <2>3, ApplyTold, ApplyBorn DEF TrueStates
  <2>4. ASSUME NEW b \in Heights, Reorg(b)
        PROVE  TrueStates(boot'[a], created'[a], watch', head', a)
    BY <2>4, RollbackTold, RollbackBorn DEF TrueStates
  <2> QED BY <1>2, <2>1, <2>2, <2>3, <2>4 DEF Forward
<1>3. CASE Proofs
  <2>1. ASSUME NEW n \in Heights, Remember(n)
        PROVE  TrueStates(boot'[a], created'[a], watch', head', a)
    BY <2>1, OtherTold DEF Remember, RememberHeader
  <2>2. ASSUME NEW c \in Addr, NEW S, NEW at, Prove(c, S, at)
        PROVE  TrueStates(boot'[a], created'[a], watch', head', a)
    <3>1. \A s \in Slot : boot'[a][s] = boot[a][s] \/ boot'[a][s] = Done
      BY <1>0, <2>2 DEF Prove, PutBootstrap, TypeOK
    <3>2. watch' = watch /\ head' = head /\ created' = created
      BY <2>2 DEF Prove, PutBootstrap
    <3> QED BY <3>1, <3>2, OtherTold
  <2>3. ASSUME NEW c \in Addr, NEW n \in Heights, Expire(c, n)
        PROVE  TrueStates(boot'[a], created'[a], watch', head', a)
    <3>1. \A s \in Slot :
            \/ boot'[a][s] = boot[a][s]
            \/ boot[a][s].tag = "pending" /\ boot'[a][s] = Lost(boot[a][s].seen)
      BY <2>3, ExpireCases
    <3>2. watch' = watch /\ head' = head /\ created' = created
      BY <2>3 DEF Expire, MarkLost
    <3> QED BY <3>1, <3>2, OtherTold
  <2> QED BY <1>3, <2>1, <2>2, <2>3 DEF Proofs, ProveBefore, ProveHead
<1>4. CASE Backfills
  BY <1>4, LowerTold, LowerBorn DEF Backfills, TrueStates
<1> QED BY <1>1, <1>2, <1>3, <1>4 DEF Next

LEMMA StateInvHolds == Spec => []StateInv
<1>1. Init => StatesAreTold /\ CreationsAreTrue
  BY ToldCases DEF Init, StatesAreTold, CreationsAreTrue, Quiet, Covered, Born
<1>2. (HoldInv /\ PendingMirrorsBoot) /\ (StatesAreTold /\ CreationsAreTrue)
        /\ [Next]_archiveVars => (StatesAreTold /\ CreationsAreTrue)'
  <2> SUFFICES ASSUME StateInv, [Next]_archiveVars
               PROVE  StatesAreTold' /\ CreationsAreTrue'
    BY DEF StateInv
  <2> QED BY StateStep DEF StatesAreTold, CreationsAreTrue, TrueStates
<1>3. Spec => [](StatesAreTold /\ CreationsAreTrue)
  BY HoldInvHolds, MirrorHolds, <1>1, <1>2, PTL DEF Spec
<1>4. HoldInv /\ PendingMirrorsBoot /\ StatesAreTold /\ CreationsAreTrue => StateInv
  BY DEF StateInv
<1> QED BY HoldInvHolds, MirrorHolds, <1>3, <1>4, PTL

-----------------------------------------------------------------------------
(* What a read finds *)

Readable(a, s, n) == {r \in slots : r.addr = a /\ r.slot = s /\ r.block <= n}

\* The four ends of a lookup.
LEMMA LookupCases ==
  ASSUME NEW a, NEW s, NEW n
  PROVE  /\ Readable(a, s, n) # {} =>
              Lookup(a, s, n) = Hit(LastRecord(a, s, n).value, LastRecord(a, s, n).block)
         /\ Readable(a, s, n) = {} /\ created[a] # 0 => Lookup(a, s, n) = Hit(Zero, created[a])
         /\ Readable(a, s, n) = {} /\ created[a] = 0 /\ Unresolved(boot[a][s]) =>
              Lookup(a, s, n) = [kind |-> "UnknownBefore", value |-> Zero, at |-> boot[a][s].seen]
         /\ Readable(a, s, n) = {} /\ created[a] = 0 /\ ~ Unresolved(boot[a][s]) =>
              Lookup(a, s, n).kind \in {"Internal", "NeverRecorded"}
<1>1. Readable(a, s, n) # {} <=> \E r \in slots : r.addr = a /\ r.slot = s /\ r.block <= n
  BY DEF Readable
<1>2. Readable(a, s, n) # {} =>
        Lookup(a, s, n) = Hit(LastRecord(a, s, n).value, LastRecord(a, s, n).block)
  BY <1>1 DEF Lookup
<1>3. Readable(a, s, n) = {} /\ created[a] # 0 => Lookup(a, s, n) = Hit(Zero, created[a])
  BY <1>1 DEF Lookup
<1>4. ASSUME Readable(a, s, n) = {}, created[a] = 0, Unresolved(boot[a][s])
      PROVE  Lookup(a, s, n) = [kind |-> "UnknownBefore", value |-> Zero, at |-> boot[a][s].seen]
  <2>1. boot[a][s] # Done BY <1>4 DEF Unresolved, Done
  <2>2. Lookup(a, s, n) = [Miss("UnknownBefore") EXCEPT !.at = boot[a][s].seen]
    BY <1>1, <1>4, <2>1 DEF Lookup
  <2> QED BY <2>2 DEF Miss
<1>5. ASSUME Readable(a, s, n) = {}, created[a] = 0, ~ Unresolved(boot[a][s])
      PROVE  Lookup(a, s, n).kind \in {"Internal", "NeverRecorded"}
  <2>1. Lookup(a, s, n) \in {Miss("Internal"), Miss("NeverRecorded")}
    BY <1>1, <1>5 DEF Lookup
  <2> QED BY <2>1 DEF Miss
<1> QED BY <1>2, <1>3, <1>4, <1>5

\* A read that gets to a lookup is of a covered block.
LEMMA InRange ==
  ASSUME TypeOK, NEW a \in Addr, NEW s, NEW n \in Heights,
         StorageAt(a, s, n).kind \in {"value", "UnknownBefore"} \/ CheckRange(a, n) = "ok"
  PROVE  /\ Covered(watch, head, a, n) /\ head \in Hash /\ Num[head] \in Heights
         /\ watch[a] \in Nat /\ CheckRange(a, n) = "ok" /\ StorageAt(a, s, n) = Lookup(a, s, n)
<1>1. CheckRange(a, n) = "ok"
  <2>1. CheckRange(a, n) \in {"NotWatched", "BeforeStart", "NotSynced", "AfterHead", "ok"}
    BY DEF CheckRange
  <2> QED BY <2>1 DEF StorageAt, Miss
<1>2. watch[a] \in Nat /\ n \in Nat BY HeightsFact DEF TypeOK
<1>3. watch[a] # 0 /\ watch[a] <= n /\ head # NoHash /\ ~ (n > Num[head])
  BY <1>1, <1>2 DEF CheckRange
<1>4. head \in Hash /\ Num[head] \in Heights BY <1>3, HeightsFact DEF TypeOK
<1> QED BY <1>1, <1>2, <1>3, <1>4, HeightsFact DEF Covered, StorageAt

\* A covered block that writes a slot left a record of it, and only such.
LEMMA WrittenIsHeld ==
  ASSUME HoldInv, NEW a \in Addr, NEW s \in Slot, NEW n \in Heights,
         Covered(watch, head, a, n)
  PROVE  s \in Written(Line[head][n], a) <=>
           \E r \in BlockRecords : r.addr = a /\ r.slot = s /\ r.block = n
<1>1. Line[head][n] \in Hash BY LineFact DEF HoldInv, IndexInv, TypeOK, Covered
<1>2. Holds(BlockRecords, a, n, Line[head][n]) BY DEF HoldInv, ChainHeld
<1> QED BY <1>1, <1>2, HeldSlot

LEMMA UnknownFollows == StateInv => UnknownIsExact
<1> SUFFICES ASSUME StateInv, NEW a \in Addr, NEW s \in Slot, NEW n \in Heights,
                    StorageAt(a, s, n).kind = "UnknownBefore"
             PROVE  LET at == StorageAt(a, s, n).at IN
                    /\ n < at /\ at <= Num[head]
                    /\ s \in Written(Line[head][at], a)
                    /\ \A m \in watch[a] .. at - 1 : s \notin Written(Line[head][m], a)
  BY DEF UnknownIsExact
<1> DEFINE at == boot[a][s].seen
<1>1. TypeOK /\ HoldInv BY DEF StateInv, HoldInv, IndexInv
<1>2. /\ Covered(watch, head, a, n) /\ StorageAt(a, s, n) = Lookup(a, s, n)
      /\ watch[a] \in Nat /\ Num[head] \in Heights
  BY <1>1, InRange
<1>3. Lookup(a, s, n).kind = "UnknownBefore" BY <1>2
<1>4. Readable(a, s, n) = {} /\ Unresolved(boot[a][s])
  BY <1>3, LookupCases DEF Hit
<1>5. StorageAt(a, s, n).at = at BY <1>2, <1>3, <1>4, LookupCases DEF Hit
<1>6. /\ Covered(watch, head, a, at) /\ s \in Written(Line[head][at], a)
      /\ Quiet(watch, head, a, s, at)
  BY <1>4 DEF StateInv, StatesAreTold, Told
<1>7. at \in Heights BY <1>1, StateCases DEF TypeOK
<1> HIDE DEF at
<1>8. n < at
  <2>1. PICK r \in BlockRecords : r.addr = a /\ r.slot = s /\ r.block = at
    BY <1>1, <1>6, <1>7, WrittenIsHeld
  <2>2. ~ (r.block <= n) BY <1>4, <2>1 DEF Readable, BlockRecords
  <2> QED BY <1>7, <2>1, <2>2, HeightsFact
<1>9. \A m \in watch[a] .. at - 1 : m \in Heights /\ Covered(watch, head, a, m) /\ m < at
  BY <1>2, <1>6, <1>7, HeightsFact DEF Covered
<1> QED BY <1>5, <1>6, <1>8, <1>9 DEF Quiet, Covered

\* A read that says "unknown before f" names the first block of the covered
\* range that writes the slot, for every order of the store's transactions.
THEOREM UnknownHolds == Spec => []UnknownIsExact
BY StateInvHolds, UnknownFollows, PTL

-----------------------------------------------------------------------------
(* The record a seek finds *)

LEMMA LastRecordIs ==
  ASSUME TypeOK, NEW a, NEW s, NEW n, Readable(a, s, n) # {}
  PROVE  /\ LastRecord(a, s, n) \in Readable(a, s, n)
         /\ \A t \in Readable(a, s, n) :
              \/ t.block < LastRecord(a, s, n).block
              \/ t.block = LastRecord(a, s, n).block /\ t.index <= LastRecord(a, s, n).index
<1> DEFINE upTo == Readable(a, s, n)
           blocks == {r.block : r \in upTo}
<1>1. \A r \in upTo : r.block \in 0 .. MaxHeight /\ r.index \in 0 .. MaxIndex
  BY DEF Readable, TypeOK, Record
<1>2. MaxHeight \in Nat /\ MaxIndex \in Nat BY TreeAssumption, DataAssumption
<1>3. blocks \subseteq 0 .. MaxHeight /\ blocks # {} BY <1>1
<1>4. PICK b \in blocks : \A m \in blocks : m <= b
  <2> HIDE DEF blocks
  <2> QED BY <1>2, <1>3, GreatestNat
<1> DEFINE ixs == {r.index : r \in {t \in upTo : t.block = b}}
<1>5. ixs \subseteq 0 .. MaxIndex /\ ixs # {}
  <2>1. PICK r \in upTo : r.block = b OBVIOUS
  <2>2. r.index \in ixs BY <2>1
  <2>3. ixs \subseteq 0 .. MaxIndex BY <1>1
  <2> QED BY <2>2, <2>3
<1>6. PICK i \in ixs : \A j \in ixs : j <= i
  <2> HIDE DEF ixs
  <2> QED BY <1>2, <1>5, GreatestNat
<1>7. PICK r \in upTo : r.block = b /\ r.index = i OBVIOUS
<1>8. \A t \in upTo : t.block < r.block \/ (t.block = r.block /\ t.index <= r.index)
  <2> TAKE t \in upTo
  <2>1. t.block <= b BY <1>4
  <2>2. t.block = b => t.index <= i BY <1>6
  <2>3. t.block \in Nat /\ b \in Nat BY <1>1, <1>3
  <2> QED BY <1>7, <2>1, <2>2, <2>3
<1>9. LastRecord(a, s, n) = CHOOSE x \in upTo : \A t \in upTo :
        t.block < x.block \/ (t.block = x.block /\ t.index <= x.index)
  BY DEF LastRecord, Readable
<1> HIDE DEF upTo, blocks, ixs
<1>10. /\ LastRecord(a, s, n) \in upTo
       /\ \A t \in upTo : \/ t.block < LastRecord(a, s, n).block
                          \/ t.block = LastRecord(a, s, n).block /\ t.index <= LastRecord(a, s, n).index
  BY <1>7, <1>8, <1>9
<1> QED BY <1>10 DEF upTo

-----------------------------------------------------------------------------
(* The proven pre-values *)

\* A header the store retains is of the head's line.
HashesAreHeld ==
  \A n \in Heights : hashes[n] # NoHash =>
    head # NoHash /\ n <= Num[head] /\ hashes[n] = Line[head][n]

\* A pre-value lies right under the start and is the chain's value there.
PreValue(r, w, top) ==
  r.prov = "proof" =>
    /\ w[r.addr] # 0 /\ r.block = w[r.addr] - 1
    /\ top # NoHash /\ r.block <= Num[top]
    /\ r.value = ValueAt(top, r.block, r.addr, r.slot)

PreValuesAreTrue == \A r \in slots : PreValue(r, watch, head)

LEMMA HashesStep ==
  ASSUME StateInv, HashesAreHeld, [Next]_archiveVars
  PROVE  HashesAreHeld'
<1>0. TypeOK BY DEF StateInv, HoldInv, IndexInv
<1>1. CASE hashes' = hashes /\ head' = head BY <1>1 DEF HashesAreHeld
<1>2. ASSUME NEW h \in Hash, NEW below \in Heights, Extend(h, below) PROVE HashesAreHeld'
  <2>1. Follows(h) /\ head' = h /\ hashes' = HashesAfter(h, below)
    BY <1>2 DEF Extend, ApplyBlock
  <2> SUFFICES ASSUME NEW n \in Heights, hashes'[n] # NoHash
               PROVE  h # NoHash /\ n <= Num[h] /\ hashes'[n] = Line[h][n]
    BY <2>1 DEF HashesAreHeld
  <2>2. (hashes'[n] = h /\ n = Num[h]) \/ hashes'[n] = hashes[n]
    BY <2>1 DEF HashesAfter
  <2>3. CASE hashes'[n] = h /\ n = Num[h] BY <1>0, <2>1, <2>3, FollowsFact, HeightsFact
  <2>4. CASE hashes'[n] = hashes[n]
    <3>1. head # NoHash /\ n <= Num[head] /\ hashes[n] = Line[head][n]
      BY <2>4 DEF HashesAreHeld
    <3>2. head \in Hash /\ Num[head] \in Nat BY <1>0, <3>1, HeightsFact DEF TypeOK
    <3>3. Num[h] = Num[head] + 1 /\ Line[h][n] = Line[head][n]
      BY <1>0, <2>1, <3>1, FollowsFact
    <3> QED BY <2>4, <3>1, <3>2, <3>3, HeightsFact
  <2> QED BY <2>2, <2>3, <2>4
<1>3. ASSUME NEW b \in Heights, Reorg(b) PROVE HashesAreHeld'
  <2>1. hashes' = [n \in Heights |-> IF n > b THEN NoHash ELSE hashes[n]]
    BY <1>3 DEF Reorg, RollbackTo
  <2>2. \A n \in Heights : hashes'[n] # NoHash => n <= b /\ hashes'[n] = Line[head][n]
    BY <2>1, HeightsFact DEF HashesAreHeld
  <2> QED BY <1>0, <1>3, <2>2, ReorgFact DEF HashesAreHeld
<1>4. ASSUME NEW n \in Heights, Remember(n) PROVE HashesAreHeld'
  <2>1. head # NoHash /\ n < Num[head] /\ head' = head BY <1>4 DEF Remember, RememberHeader
  <2>2. head \in Hash /\ Num[head] \in Nat /\ n <= Num[head]
    BY <1>0, <2>1, HeightsFact DEF TypeOK
  <2>3. Num[Line[head][n]] = n BY <2>2, LineFact
  <2>4. \A m \in Heights : hashes'[m] = hashes[m] \/ (m = n /\ hashes'[m] = Line[head][n])
    BY <1>0, <1>4, <2>3 DEF Remember, RememberHeader, TypeOK
  <2> QED BY <2>1, <2>2, <2>4 DEF HashesAreHeld
<1> QED BY <1>1, <1>2, <1>3, <1>4
  DEF Next, Forward, Proofs, Backfills, StartWatch, Watch, EndWatch, Unwatch, ProveBefore,
      ProveHead, Prove, PutBootstrap, Expire, MarkLost, Lower, BackfillBlock, archiveVars, tables

\* A new block leaves the line under the old head as it was.
LEMMA ApplyPreValues ==
  ASSUME StateInv, PreValuesAreTrue, NEW h \in Hash, NEW below, Extend(h, below)
  PROVE  PreValuesAreTrue'
<1> DEFINE prov == IF h \in Committed THEN "bal" ELSE "unverified"
<1>1. TypeOK /\ Follows(h) BY DEF StateInv, HoldInv, IndexInv, Extend
<1>2. /\ slots' = Insert(slots, UNION {BalRecords(h, c, prov) : c \in Live(h, watch)})
      /\ head' = h /\ watch' = watch
  BY DEF Extend, ApplyBlock
<1>3. prov \in {"bal", "unverified"} /\ Live(h, watch) \subseteq Addr BY DEF Live
<1> HIDE DEF prov
<1>4. \A c \in Live(h, watch) : \A r \in BalRecords(h, c, prov) : r.prov # "proof"
  BY <1>3, BalRecordsFact
<1> SUFFICES ASSUME NEW r \in slots', r.prov = "proof" PROVE PreValue(r, watch, h)
  BY <1>2 DEF PreValuesAreTrue, PreValue
<1>5. r \in slots BY <1>2, <1>4 DEF Insert
<1>6. /\ watch[r.addr] # 0 /\ r.block = watch[r.addr] - 1
      /\ head # NoHash /\ r.block <= Num[head]
      /\ r.value = ValueAt(head, r.block, r.addr, r.slot)
  BY <1>5 DEF PreValuesAreTrue, PreValue
<1>7. r.addr \in Addr /\ r.slot \in Slot /\ r.block \in Heights
  BY <1>1, <1>5 DEF TypeOK, Record
<1>8. head \in Hash /\ Num[head] \in Nat BY <1>1, <1>6, HeightsFact DEF TypeOK
<1>9. Num[h] = Num[head] + 1 /\ \A n \in Heights : n <= Num[head] => Line[h][n] = Line[head][n]
  BY <1>1, <1>6, FollowsFact
<1>10. \A n \in Heights : n <= r.block => Line[h][n] = Line[head][n]
  BY <1>6, <1>7, <1>8, <1>9, HeightsFact
<1>11. ValueAt(h, r.block, r.addr, r.slot) = ValueAt(head, r.block, r.addr, r.slot)
  BY <1>7, <1>8, <1>10, ValueAtSame
<1> QED BY <1>6, <1>7, <1>8, <1>9, <1>11, HeightsFact DEF PreValue

\* A fork below start - 1 drops the pre-values, one above leaves their line.
LEMMA RollbackPreValues ==
  ASSUME StateInv, PreValuesAreTrue, NEW b \in Heights, Reorg(b)
  PROVE  PreValuesAreTrue'
<1>1. TypeOK BY DEF StateInv, HoldInv, IndexInv
<1> SUFFICES ASSUME NEW r \in slots', r.prov = "proof" PROVE PreValue(r, watch', head')
  BY DEF PreValuesAreTrue, PreValue
<1>2. r \in slots /\ ~ Wiped(b, watch, r.addr) BY DEF Reorg, RollbackTo
<1>3. /\ watch[r.addr] # 0 /\ r.block = watch[r.addr] - 1
      /\ r.value = ValueAt(head, r.block, r.addr, r.slot)
  BY <1>2 DEF PreValuesAreTrue, PreValue
<1>4. r.addr \in Addr /\ r.slot \in Slot /\ r.block \in Heights /\ watch[r.addr] \in Nat
  BY <1>1, <1>2, HeightsFact DEF TypeOK, Record
<1>5. r.block <= b BY <1>2, <1>3, <1>4, HeightsFact DEF Wiped
<1>6. /\ head \in Hash /\ head' \in Hash /\ head' # NoHash /\ Num[head'] = b /\ watch' = watch
      /\ \A n \in Heights : n <= b => Line[head'][n] = Line[head][n]
  BY <1>1, ReorgFact
<1>7. \A n \in Heights : n <= r.block => Line[head'][n] = Line[head][n]
  BY <1>4, <1>5, <1>6, HeightsFact
<1>8. ValueAt(head', r.block, r.addr, r.slot) = ValueAt(head, r.block, r.addr, r.slot)
  BY <1>4, <1>6, <1>7, ValueAtSame
<1> QED BY <1>3, <1>5, <1>6, <1>8 DEF PreValue

\* A proof taken between the start and the first change has the value the slot
\* had right before the start.
LEMMA ProvePreValues ==
  ASSUME StateInv, HashesAreHeld, PreValuesAreTrue, NEW c \in Addr, NEW S \in SUBSET Slot,
         NEW at \in Heights, watch[c] <= at + 1, Prove(c, S, at)
  PROVE  PreValuesAreTrue'
<1> DEFINE start == watch[c]
           vals == [x \in S |-> ValueAt(hashes[at], at, c, x)]
           ok == {x \in DOMAIN vals : Accepts(c, x, at)}
<1>1. TypeOK BY DEF StateInv, HoldInv, IndexInv
<1>2. /\ watch' = watch /\ head' = head /\ watch[c] # 0 /\ hashes[at] # NoHash
      /\ slots' = Insert(slots, {[addr |-> c, slot |-> x, block |-> start - 1, index |-> MaxIndex,
                                  value |-> vals[x], prov |-> "proof"] : x \in ok})
  BY DEF Prove, PutBootstrap
<1> SUFFICES ASSUME NEW r \in slots', r \notin slots PROVE PreValue(r, watch, head)
  BY <1>2 DEF PreValuesAreTrue
<1>3. PICK t \in S : /\ Accepts(c, t, at) /\ r.addr = c /\ r.slot = t /\ r.block = start - 1
                    /\ r.value = ValueAt(hashes[at], at, c, t)
  BY <1>2 DEF Insert
<1>4. head # NoHash /\ at <= Num[head] /\ hashes[at] = Line[head][at]
  BY <1>2 DEF HashesAreHeld
<1>5. head \in Hash /\ Num[head] \in Nat BY <1>1, <1>4, HeightsFact DEF TypeOK
<1>6. start - 1 \in Heights /\ start - 1 <= at /\ start \in Nat
  BY <1>1, <1>2, HeightsFact DEF TypeOK
<1>7. ValueAt(Line[head][at], at, c, t) = ValueAt(head, at, c, t)
  BY <1>4, <1>5, LineFact, ValueAtSame
<1>8. ASSUME NEW k \in Heights, start - 1 < k, k <= at PROVE t \notin Written(Line[head][k], c)
  <2>1. Covered(watch, head, c, k)
    BY <1>2, <1>4, <1>5, <1>6, <1>8, HeightsFact DEF Covered
  <2>2. Told(boot[c][t], watch, head, c, t) BY DEF StateInv, StatesAreTold
  <2>3. CASE boot[c][t] = Unseen
    BY <1>8, <2>1, <2>2, <2>3, HeightsFact DEF Told, Quiet
  <2>4. CASE Unresolved(boot[c][t]) /\ boot[c][t].seen > at
    <3>1. boot[c][t].seen \in Nat BY <1>1, StateCases, HeightsFact DEF TypeOK
    <3>2. k < boot[c][t].seen BY <1>8, <2>4, <3>1, HeightsFact
    <3> QED BY <2>1, <2>2, <2>4, <3>2 DEF Told, Quiet
  <2> QED BY <1>3, <2>3, <2>4 DEF Accepts
<1>9. ValueAt(head, at, c, t) = ValueAt(head, start - 1, c, t)
  <2> HIDE DEF start
  <2> QED BY <1>5, <1>6, <1>8, ValueAtStill
<1>10. start - 1 <= Num[head] BY <1>4, <1>5, <1>6, HeightsFact
<1> QED BY <1>2, <1>3, <1>4, <1>7, <1>9, <1>10 DEF PreValue

LEMMA UnwatchPreValues ==
  ASSUME TypeOK, PreValuesAreTrue, NEW c \in Addr, Unwatch(c)
  PROVE  PreValuesAreTrue'
<1>1. /\ slots' = {r \in slots : r.addr # c} /\ head' = head
      /\ \A a \in Addr : a # c => watch'[a] = watch[a]
  BY DEF Unwatch, TypeOK
<1>2. \A r \in slots : r.addr \in Addr BY DEF TypeOK, Record
<1> QED BY <1>1, <1>2 DEF PreValuesAreTrue, PreValue

LEMMA WatchPreValues ==
  ASSUME TypeOK, PreValuesAreTrue, NEW c \in Addr, NEW n \in Heights, Watch(c, n, HeadNumber)
  PROVE  PreValuesAreTrue'
<1>1. /\ slots' = slots /\ head' = head /\ watch[c] = 0
      /\ \A a \in Addr : a # c => watch'[a] = watch[a]
  BY DEF Watch, TypeOK
<1>2. \A r \in slots : r.addr \in Addr BY DEF TypeOK, Record
<1> QED BY <1>1, <1>2 DEF PreValuesAreTrue, PreValue

\* The steps of the single caller that mixes no backfill with proofs.
LEMMA PreValueStep ==
  ASSUME StateInv, HashesAreHeld, PreValuesAreTrue, [Forward \/ Proofs]_archiveVars
  PROVE  PreValuesAreTrue'
<1>0. TypeOK BY DEF StateInv, HoldInv, IndexInv
<1>1. CASE slots' = slots /\ watch' = watch /\ head' = head
  BY <1>1 DEF PreValuesAreTrue
<1>2. CASE Forward
  <2>1. ASSUME NEW c \in Addr, EndWatch(c) PROVE PreValuesAreTrue'
    BY <1>0, <2>1, UnwatchPreValues DEF EndWatch
  <2> QED BY <1>0, <1>2, <2>1, WatchPreValues, ApplyPreValues, RollbackPreValues
         DEF Forward, StartWatch
<1>3. CASE Proofs
  <2>1. ASSUME NEW c \in Addr, NEW n \in Heights, NEW S \in SUBSET Slot, ProveBefore(c, n, S)
        PROVE  PreValuesAreTrue'
    <3>1. n # 0 /\ Prove(c, S, n - 1) /\ \A s \in S : Unresolved(boot[c][s]) /\ boot[c][s].seen = n
      BY <2>1 DEF ProveBefore
    <3>2. CASE S = {}
      <4>1. slots' = slots
        BY <1>0, <3>1, <3>2 DEF Prove, PutBootstrap, Insert
      <4> QED BY <1>1, <3>1, <4>1 DEF Prove, PutBootstrap
    <3>3. CASE S # {}
      <4>1. watch[c] <= n BY <3>1, <3>3 DEF StateInv, StatesAreTold, Told, Covered
      <4>2. n - 1 \in Heights /\ watch[c] <= (n - 1) + 1 BY <1>0, <3>1, <4>1, HeightsFact DEF TypeOK
      <4> QED BY <3>1, <4>2, ProvePreValues
    <3> QED BY <3>2, <3>3
  <2>2. ASSUME NEW c \in Addr, NEW t \in Slot, NEW at \in Heights, ProveHead(c, t, at)
        PROVE  PreValuesAreTrue'
    <3>1. watch[c] <= at /\ Prove(c, {t}, at) BY <2>2 DEF ProveHead
    <3>2. watch[c] <= at + 1 BY <1>0, <3>1, HeightsFact DEF TypeOK
    <3> QED BY <3>1, <3>2, ProvePreValues
  <2> QED BY <1>1, <1>3, <2>1, <2>2 DEF Proofs, Remember, RememberHeader, Expire, MarkLost
<1> QED BY <1>1, <1>2, <1>3 DEF archiveVars, tables

LEMMA HashesHold == Spec => []HashesAreHeld
<1>1. Init => HashesAreHeld BY DEF Init, HashesAreHeld
<1>2. StateInv /\ HashesAreHeld /\ [Next]_archiveVars => HashesAreHeld' BY HashesStep
<1> QED BY StateInvHolds, <1>1, <1>2, PTL DEF Spec

LEMMA PreValuesHold == ProofSpec => [](StateInv /\ PreValuesAreTrue)
<1>1. Init => PreValuesAreTrue BY DEF Init, PreValuesAreTrue
<1>2. StateInv /\ HashesAreHeld /\ PreValuesAreTrue /\ [Forward \/ Proofs]_archiveVars
        => PreValuesAreTrue'
  BY PreValueStep
<1>3. [Forward \/ Proofs]_archiveVars => [Next]_archiveVars BY DEF Next
<1>4. ProofSpec => Spec BY <1>3, PTL DEF ProofSpec, Spec
<1> QED BY StateInvHolds, HashesHold, <1>1, <1>2, <1>4, PTL DEF ProofSpec

NoneProven == \A r \in slots : r.prov # "proof"

LEMMA NoneProvenStep ==
  ASSUME TypeOK, NoneProven, [Forward \/ Backfills]_archiveVars
  PROVE  NoneProven'
<1> USE DEF NoneProven
<1>1. CASE slots' \subseteq slots BY <1>1
<1>2. ASSUME NEW h \in Hash, NEW below \in Heights, Extend(h, below) PROVE NoneProven'
  <2> DEFINE prov == IF h \in Committed THEN "bal" ELSE "unverified"
  <2>1. slots' = Insert(slots, UNION {BalRecords(h, c, prov) : c \in Live(h, watch)})
    BY <1>2 DEF Extend, ApplyBlock
  <2>2. prov \in {"bal", "unverified"} /\ Live(h, watch) \subseteq Addr BY DEF Live
  <2> HIDE DEF prov
  <2>3. \A c \in Live(h, watch) : \A r \in BalRecords(h, c, prov) : r.prov # "proof"
    BY <2>2, BalRecordsFact
  <2> QED BY <2>1, <2>3 DEF Insert
<1>3. ASSUME NEW c \in Addr, Lower(c) PROVE NoneProven'
  <2> DEFINE h == Line[head][watch[c] - 1]
  <2>1. h \in Hash /\ BackfillBlock(c, h) BY <1>3, LowerFact
  <2> HIDE DEF h
  <2>2. \A r \in BalRecords(h, c, "bal") : r.prov # "proof" BY <2>1, BalRecordsFact
  <2> QED BY <2>1, <2>2 DEF BackfillBlock, Insert
<1>4. ASSUME NEW c \in Addr, EndWatch(c) PROVE slots' \subseteq slots
  BY <1>4 DEF EndWatch, Unwatch
<1>5. ASSUME NEW b \in Heights, Reorg(b) PROVE slots' \subseteq slots
  BY <1>5 DEF Reorg, RollbackTo
<1> QED BY <1>1, <1>2, <1>3, <1>4, <1>5
  DEF Forward, Backfills, StartWatch, Watch, archiveVars, tables

\* Without proofs there are no pre-values at all.
LEMMA BackfillsHold == BackfillSpec => [](StateInv /\ NoneProven /\ PreValuesAreTrue)
<1>1. Init => NoneProven BY DEF Init, NoneProven
<1>2. TypeOK /\ NoneProven /\ [Forward \/ Backfills]_archiveVars => NoneProven' BY NoneProvenStep
<1>3. NoneProven => PreValuesAreTrue BY DEF NoneProven, PreValuesAreTrue, PreValue
<1>4. [Forward \/ Backfills]_archiveVars => [Next]_archiveVars BY DEF Next
<1>5. BackfillSpec => Spec BY <1>4, PTL DEF BackfillSpec, Spec
<1> QED BY TypeCorrect, StateInvHolds, <1>1, <1>2, <1>3, <1>5, PTL DEF BackfillSpec

-----------------------------------------------------------------------------
(* A value is the chain's value *)

\* The last record of a block is its last change.
LEMMA LastOfBlock ==
  ASSUME HoldInv, NEW a \in Addr, NEW s \in Slot, NEW n \in Heights, Covered(watch, head, a, n),
         NEW r \in BlockRecords, r.addr = a, r.slot = s, r.block = n,
         \A t \in BlockRecords : t.addr = a /\ t.slot = s /\ t.block = n => t.index <= r.index
  PROVE  r.value = FinalChange(Line[head][n], a, s).value
<1> DEFINE h == Line[head][n]
           c == FinalChange(h, a, s)
<1>1. h \in Hash BY LineFact DEF HoldInv, IndexInv, TypeOK, Covered
<1>2. PICK p \in {"bal", "unverified"} : RecordsAt(BlockRecords, a, n) = BalRecords(h, a, p)
  BY DEF HoldInv, ChainHeld, Holds
<1> HIDE DEF h
<1>3. r \in BalRecords(h, a, p) BY <1>2 DEF RecordsAt
<1>4. PICK d \in Changes[h] : d.addr = a /\ d.slot = s /\ d.index = r.index /\ d.value = r.value
  BY <1>3 DEF BalRecords
<1>5. s \in Written(h, a) BY <1>4 DEF Written
<1>6. /\ c \in Changes[h] /\ c.addr = a /\ c.slot = s /\ d.index <= c.index
  BY <1>1, <1>4, <1>5, FinalChangeExists
<1> DEFINE u == [addr |-> a, slot |-> c.slot, block |-> Num[h], index |-> c.index,
                 value |-> c.value, prov |-> p]
<1>7. u \in BalRecords(h, a, p) BY <1>6 DEF BalRecords
<1>8. u.slot = s /\ u.index = c.index BY <1>6
<1> HIDE DEF u, c
<1>9. u \in BlockRecords /\ u.addr = a /\ u.block = n BY <1>2, <1>7 DEF RecordsAt
<1>10. c.index <= r.index BY <1>8, <1>9
<1>11. d.index \in Nat /\ c.index \in Nat
  BY <1>1, <1>4, <1>6, DataAssumption DEF Change
<1>12. d.index = c.index BY <1>4, <1>6, <1>10, <1>11
<1>13. d = c BY <1>1, <1>4, <1>6, <1>12, DataAssumption
<1> QED BY <1>4, <1>13 DEF c, h

\* A read of a covered block finds the value of the head's chain, or nothing.
LEMMA LookupIsTrue ==
  ASSUME StateInv, PreValuesAreTrue, NEW a \in Addr, NEW s \in Slot, NEW n \in Heights,
         Covered(watch, head, a, n), Readable(a, s, n) # {}
  PROVE  LastRecord(a, s, n).value = ValueAt(head, n, a, s)
<1> DEFINE r == LastRecord(a, s, n)
<1>1. TypeOK /\ HoldInv /\ RecordsInRange BY DEF StateInv, HoldInv, IndexInv
<1>2. /\ r \in slots /\ r.addr = a /\ r.slot = s /\ r.block <= n
      /\ \A t \in slots : t.addr = a /\ t.slot = s /\ t.block <= n =>
           t.block < r.block \/ (t.block = r.block /\ t.index <= r.index)
  BY <1>1, LastRecordIs DEF Readable
<1> HIDE DEF r
<1>3. r.block \in Heights /\ r.block \in Nat /\ n \in Nat /\ watch[a] \in Nat
  BY <1>1, <1>2, HeightsFact DEF TypeOK, Record
<1>4. head \in Hash /\ n <= Num[head] /\ watch[a] # 0 /\ watch[a] <= n
  BY <1>1 DEF Covered, TypeOK
\* Nothing is written between the record found and the block read.
<1>5. ASSUME NEW k \in Heights, r.block < k, k <= n, watch[a] <= k
      PROVE  s \notin Written(Line[head][k], a)
  <2>1. SUFFICES ASSUME s \in Written(Line[head][k], a) PROVE FALSE OBVIOUS
  <2>2. k \in Nat /\ Num[head] \in Nat BY <1>4, HeightsFact
  <2>3. Covered(watch, head, a, k) BY <1>3, <1>4, <1>5, <2>2 DEF Covered
  <2>4. PICK t \in BlockRecords : t.addr = a /\ t.slot = s /\ t.block = k
    BY <1>1, <2>1, <2>3, WrittenIsHeld
  <2>5. t \in slots BY DEF BlockRecords
  <2> QED BY <1>2, <1>3, <1>5, <2>2, <2>4, <2>5
<1>6. CASE r.prov = "proof"
  <2>1. r.block = watch[a] - 1 /\ r.value = ValueAt(head, r.block, a, s)
    BY <1>2, <1>6 DEF PreValuesAreTrue, PreValue
  <2>2. \A k \in Heights : r.block < k /\ k <= n => watch[a] <= k
    BY <1>3, <2>1, HeightsFact
  <2>3. \A k \in Heights : r.block < k /\ k <= n => s \notin Written(Line[head][k], a)
    BY <1>5, <2>2
  <2>4. ValueAt(head, n, a, s) = ValueAt(head, r.block, a, s)
    BY <1>2, <1>3, <1>4, <2>3, ValueAtStill
  <2> QED BY <2>1, <2>4 DEF r
<1>7. CASE r.prov # "proof"
  <2>1. r \in BlockRecords BY <1>2, <1>7 DEF BlockRecords
  <2>2. watch[a] <= r.block BY <1>1, <1>2, <2>1 DEF RecordsInRange
  <2>3. Covered(watch, head, a, r.block)
    BY <1>2, <1>3, <1>4, <2>2, HeightsFact DEF Covered
  <2>4. s \in Written(Line[head][r.block], a)
    BY <1>1, <1>2, <1>3, <2>1, <2>3, WrittenIsHeld
  <2>5. \A t \in BlockRecords : t.addr = a /\ t.slot = s /\ t.block = r.block => t.index <= r.index
    BY <1>2, <1>3 DEF BlockRecords
  <2>6. r.value = FinalChange(Line[head][r.block], a, s).value
    BY <1>1, <1>2, <1>3, <2>1, <2>3, <2>5, LastOfBlock
  <2>7. \A k \in Heights : r.block < k /\ k <= n => watch[a] <= k
    BY <1>3, <2>2, HeightsFact
  <2>8. \A k \in Heights : r.block < k /\ k <= n => s \notin Written(Line[head][k], a)
    BY <1>5, <2>7
  <2>9. ValueAt(head, n, a, s) = ValueAt(head, r.block, a, s)
    BY <1>2, <1>3, <1>4, <2>8, ValueAtStill
  <2>10. ValueAt(head, r.block, a, s) = FinalChange(Line[head][r.block], a, s).value
    BY <1>3, <1>4, <2>4, ValueAtWrite
  <2> QED BY <2>6, <2>9, <2>10 DEF r
<1> QED BY <1>6, <1>7

\* A created contract has zero where it has no record.
LEMMA CreatedIsZero ==
  ASSUME StateInv, NEW a \in Addr, NEW s \in Slot, NEW n \in Heights,
         Covered(watch, head, a, n), Readable(a, s, n) = {}, created[a] # 0
  PROVE  ValueAt(head, n, a, s) = Zero
<1> DEFINE born == created[a]
           h == Line[head][born]
<1>1. TypeOK /\ HoldInv BY DEF StateInv, HoldInv, IndexInv
<1>2. born \in Heights /\ Covered(watch, head, a, born) /\ a \in Deploys[h]
  BY <1>1 DEF StateInv, CreationsAreTrue, Born, TypeOK
<1>3. head \in Hash /\ watch[a] # 0 /\ watch[a] <= born /\ born <= Num[head]
      /\ watch[a] <= n /\ n <= Num[head]
  BY <1>1, <1>2 DEF Covered, TypeOK
<1>4. born \in Nat /\ watch[a] \in Nat /\ n \in Nat /\ Num[head] \in Nat
  BY <1>1, <1>2, <1>3, HeightsFact DEF TypeOK
<1>5. /\ h \in Hash /\ Num[h] = born
      /\ \A k \in Heights : k <= born => Line[h][k] = Line[head][k]
  BY <1>2, <1>3, LineFact
<1>6. /\ Genesis[a][s] = Zero
      /\ \A k \in Heights : k < born =>
           ~ \E c \in Changes[Line[h][k]] : c.addr = a /\ c.slot = s
  BY <1>2, <1>5, DeployAssumption
<1> HIDE DEF born, h
<1>7. ASSUME NEW k \in Heights, k <= n PROVE s \notin Written(Line[head][k], a)
  <2>1. k \in Nat BY HeightsFact
  <2>2. CASE k < watch[a]
    <3>1. k < born /\ k <= born BY <1>3, <1>4, <2>1, <2>2
    <3>2. ~ \E c \in Changes[Line[head][k]] : c.addr = a /\ c.slot = s
      BY <1>5, <1>6, <3>1
    <3> QED BY <3>2 DEF Written
  <2>3. CASE watch[a] <= k
    <3>1. Covered(watch, head, a, k)
      BY <1>2, <1>3, <1>4, <1>7, <2>1, <2>3 DEF Covered
    <3>2. ~ \E r \in BlockRecords : r.addr = a /\ r.slot = s /\ r.block = k
      BY <1>7 DEF Readable, BlockRecords
    <3> QED BY <1>1, <3>1, <3>2, WrittenIsHeld
  <2> QED BY <1>4, <2>1, <2>2, <2>3
<1> QED BY <1>3, <1>6, <1>7, ValueAtNever

LEMMA ReadsFollow == StateInv /\ PreValuesAreTrue => ReadsAreTrue
<1> SUFFICES ASSUME StateInv, PreValuesAreTrue, NEW a \in Addr, NEW s \in Slot, NEW n \in Heights,
                    StorageAt(a, s, n).kind = "value"
             PROVE  StorageAt(a, s, n).value = ValueAt(head, n, a, s)
  BY DEF ReadsAreTrue
<1>1. TypeOK BY DEF StateInv, HoldInv, IndexInv
<1>2. Covered(watch, head, a, n) /\ StorageAt(a, s, n) = Lookup(a, s, n) BY <1>1, InRange
<1>3. CASE Readable(a, s, n) # {}
  <2>1. Lookup(a, s, n).value = LastRecord(a, s, n).value BY <1>3, LookupCases DEF Hit
  <2> QED BY <1>2, <1>3, <2>1, LookupIsTrue
<1>4. CASE Readable(a, s, n) = {} /\ created[a] # 0
  <2>1. Lookup(a, s, n).value = Zero BY <1>4, LookupCases DEF Hit
  <2> QED BY <1>2, <1>4, <2>1, CreatedIsZero
<1>5. CASE Readable(a, s, n) = {} /\ created[a] = 0
  <2>1. Lookup(a, s, n).kind \in {"UnknownBefore", "Internal", "NeverRecorded"}
    BY <1>5, LookupCases
  <2> QED BY <1>2, <2>1
<1> QED BY <1>3, <1>4, <1>5

\* A read answers with the value the slot has on the head's chain at that block,
\* through reorgs, proofs, expiry and renewed watches.
THEOREM ReadsHold == ProofSpec => []ReadsAreTrue
BY PreValuesHold, ReadsFollow, PTL

\* The same of an archive that is filled backward and takes no proofs.
THEOREM BackfilledReadsHold == BackfillSpec => []ReadsAreTrue
BY BackfillsHold, ReadsFollow, PTL

\* history() returns nothing that was proven: where no walk moves the start, a
\* pre-value stays below every block that can be asked for.
THEOREM HistoryHolds == ProofSpec => []HistoryIsBlockData
<1>1. StateInv /\ PreValuesAreTrue => HistoryIsBlockData
  <2> SUFFICES ASSUME StateInv, PreValuesAreTrue, NEW a \in Addr, NEW s \in Slot,
                      NEW n \in Heights, CheckRange(a, n) = "ok",
                      NEW r \in History(a, s, n, n + 1), r.prov = "proof"
               PROVE  FALSE
    BY DEF HistoryIsBlockData
  <2>1. TypeOK BY DEF StateInv, HoldInv, IndexInv
  <2>2. watch[a] <= n /\ watch[a] \in Nat /\ n \in Nat
    BY <2>1, InRange, HeightsFact DEF Covered
  <2>3. r \in slots /\ r.addr = a /\ n <= r.block BY DEF History
  <2>4. r.block = watch[a] - 1 BY <2>3 DEF PreValuesAreTrue, PreValue
  <2> QED BY <2>2, <2>3, <2>4
<1> QED BY PreValuesHold, <1>1, PTL

-----------------------------------------------------------------------------
(* No read falls in a hole, where no contract is deployed.  A creation would *)
(* settle slots without a record, and a rollback would take the creation     *)
(* back and leave them settled.                                              *)

PreValueOf(T, a, s) ==
  \E r \in T : r.addr = a /\ r.slot = s /\ r.index = MaxIndex /\ r.prov = "proof"

DoneIsProven == \A a \in Addr, s \in Slot : boot[a][s] = Done => PreValueOf(slots, a, s)

LEMMA ApplyDone ==
  ASSUME StateInv, DoneIsProven, \A x \in Hash : Deploys[x] = {},
         NEW h \in Hash, NEW below, Extend(h, below)
  PROVE  DoneIsProven'
<1> DEFINE prov == IF h \in Committed THEN "bal" ELSE "unverified"
<1> SUFFICES ASSUME NEW a \in Addr, NEW s \in Slot, boot'[a][s] = Done
             PROVE  PreValueOf(slots', a, s)
  BY DEF DoneIsProven
<1>1. TypeOK BY DEF StateInv, HoldInv, IndexInv
<1>2. ~ IsCreated(h, a)
  <2>1. created[a] # 0 => Covered(watch, head, a, created[a]) /\ a \in Deploys[Line[head][created[a]]]
    BY DEF StateInv, CreationsAreTrue, Born
  <2>2. created[a] # 0 => Line[head][created[a]] \in Hash
    BY <1>1, <2>1, LineFact DEF Covered, TypeOK
  <2> QED BY <2>1, <2>2 DEF IsCreated, Creates
<1>3. boot'[a][s] = IF a \in Live(h, watch) THEN BootAfter(h, a, s) ELSE boot[a][s]
  BY DEF Extend, ApplyBlock
<1>4. boot[a][s] = Done
  BY <1>2, <1>3 DEF BootAfter, IsCreated, Done, Unseen, Pending
<1>5. PICK r \in slots : r.addr = a /\ r.slot = s /\ r.index = MaxIndex /\ r.prov = "proof"
  BY <1>4 DEF DoneIsProven, PreValueOf
<1>6. slots' = Insert(slots, UNION {BalRecords(h, c, prov) : c \in Live(h, watch)})
  BY DEF Extend, ApplyBlock
<1>7. prov \in {"bal", "unverified"} /\ Live(h, watch) \subseteq Addr BY DEF Live
<1> HIDE DEF prov
<1>8. \A c \in Live(h, watch) : \A t \in BalRecords(h, c, prov) : t.index # MaxIndex
  <2> TAKE c \in Live(h, watch)
  <2> TAKE t \in BalRecords(h, c, prov)
  <2>1. t.index < MaxIndex BY <1>7, BalRecordsFact
  <2> QED BY <2>1, DataAssumption
<1> QED BY <1>5, <1>6, <1>8 DEF Insert, PreValueOf

LEMMA RollbackDone ==
  ASSUME StateInv, PreValuesAreTrue, DoneIsProven, NEW b \in Heights, Reorg(b)
  PROVE  DoneIsProven'
<1> SUFFICES ASSUME NEW a \in Addr, NEW s \in Slot, boot'[a][s] = Done
             PROVE  PreValueOf(slots', a, s)
  BY DEF DoneIsProven
<1>1. TypeOK /\ IndexInv BY DEF StateInv, HoldInv, IndexInv
<1>2. boot[a][s] = Done /\ ~ Wiped(b, watch, a)
  BY DEF Reorg, RollbackTo, Forgotten, Done, Unseen
<1>3. PICK r \in slots : r.addr = a /\ r.slot = s /\ r.index = MaxIndex /\ r.prov = "proof"
  BY <1>2 DEF DoneIsProven, PreValueOf
<1>4. r.block = watch[a] - 1 BY <1>3 DEF PreValuesAreTrue, PreValue
<1>5. ASSUME NEW e \in Victims(b, watch), e.addr = a PROVE e.block # r.block
  <2>1. PICK t \in BlockRecords : t.addr = a /\ t.block = e.block
    BY <1>1, <1>5 DEF IndexInv, IndexIsBacked, Victims
  <2>2. watch[a] <= e.block /\ e.block \in Nat /\ watch[a] \in Nat
    BY <1>1, <2>1, HeightsFact DEF IndexInv, RecordsInRange, TypeOK, BlockRecords, Record
  <2> QED BY <1>4, <2>2
<1>6. r \in slots' BY <1>2, <1>3, <1>5 DEF Reorg, RollbackTo
<1> QED BY <1>3, <1>6 DEF PreValueOf

LEMMA ProveDone ==
  ASSUME TypeOK, DoneIsProven, NEW c \in Addr, NEW S, NEW at, Prove(c, S, at)
  PROVE  DoneIsProven'
<1> DEFINE vals == [x \in S |-> ValueAt(hashes[at], at, c, x)]
           ok == {x \in DOMAIN vals : Accepts(c, x, at)}
           new == {[addr |-> c, slot |-> x, block |-> watch[c] - 1, index |-> MaxIndex,
                    value |-> vals[x], prov |-> "proof"] : x \in ok}
<1> SUFFICES ASSUME NEW a \in Addr, NEW s \in Slot, boot'[a][s] = Done
             PROVE  PreValueOf(slots', a, s)
  BY DEF DoneIsProven
<1>1. slots' = Insert(slots, new) BY DEF Prove, PutBootstrap
<1>2. boot'[a][s] = IF a = c /\ s \in ok THEN Done ELSE boot[a][s]
  BY DEF Prove, PutBootstrap, TypeOK
<1>3. \A r \in new : r.addr = c /\ r.index = MaxIndex /\ r.prov = "proof" OBVIOUS
<1>4. ASSUME NEW x \in ok PROVE \E r \in new : r.slot = x
  <2> DEFINE w == [addr |-> c, slot |-> x, block |-> watch[c] - 1, index |-> MaxIndex,
                   value |-> vals[x], prov |-> "proof"]
  <2>1. w \in new OBVIOUS
  <2>2. w.slot = x BY Zenon
  <2> HIDE DEF w, new
  <2> QED BY <2>1, <2>2
<1> HIDE DEF new, ok, vals
<1>5. new \subseteq slots' BY <1>1 DEF Insert
<1>6. CASE a = c /\ s \in ok BY <1>3, <1>4, <1>5, <1>6 DEF PreValueOf
<1>7. CASE ~ (a = c /\ s \in ok)
  <2>1. PICK r \in slots : r.addr = a /\ r.slot = s /\ r.index = MaxIndex /\ r.prov = "proof"
    BY <1>2, <1>7 DEF DoneIsProven, PreValueOf
  <2>2. r \in slots' \/ \E u \in new : u.addr = a /\ u.slot = s
    BY <1>1, <2>1 DEF Insert
  <2> QED BY <1>3, <1>5, <2>1, <2>2 DEF PreValueOf
<1> QED BY <1>6, <1>7

LEMMA DoneStep ==
  ASSUME StateInv, PreValuesAreTrue, DoneIsProven, \A x \in Hash : Deploys[x] = {},
         [Forward \/ Proofs]_archiveVars
  PROVE  DoneIsProven'
<1>1. TypeOK BY DEF StateInv, HoldInv, IndexInv
<1>2. CASE slots' = slots /\ \A a \in Addr, s \in Slot : boot'[a][s] = Done => boot[a][s] = Done
  BY <1>2 DEF DoneIsProven
<1>3. CASE Forward
  <2>1. ASSUME NEW c \in Addr, EndWatch(c) PROVE DoneIsProven'
    <3>1. slots' = {r \in slots : r.addr # c} BY <2>1 DEF EndWatch, Unwatch
    <3>2. \A a \in Addr, s \in Slot : boot'[a][s] = Done => a # c /\ boot[a][s] = Done
      BY <1>1, <2>1 DEF EndWatch, Unwatch, TypeOK, Done, Unseen
    <3> QED BY <3>1, <3>2 DEF DoneIsProven, PreValueOf
  <2> QED BY <1>2, <1>3, <2>1, ApplyDone, RollbackDone DEF Forward, StartWatch, Watch
<1>4. CASE Proofs
  <2>1. ASSUME NEW c \in Addr, NEW n \in Heights, Expire(c, n) PROVE DoneIsProven'
    <3>1. slots' = slots BY <2>1 DEF Expire, MarkLost
    <3>2. \A a \in Addr, s \in Slot : boot'[a][s] = Done => boot[a][s] = Done
      BY <1>1, <2>1 DEF Expire, MarkLost, TypeOK, Done, Lost
    <3> QED BY <1>2, <3>1, <3>2
  <2> QED BY <1>1, <1>2, <1>4, <2>1, ProveDone
    DEF Proofs, Remember, RememberHeader, ProveBefore, ProveHead
<1> QED BY <1>2, <1>3, <1>4 DEF archiveVars, tables

LEMMA DoneFollows == StateInv /\ PreValuesAreTrue /\ DoneIsProven => NoInternal
<1> SUFFICES ASSUME StateInv, PreValuesAreTrue, DoneIsProven,
                    NEW a \in Addr, NEW s \in Slot, NEW n \in Heights,
                    StorageAt(a, s, n).kind = "Internal"
             PROVE  FALSE
  BY DEF NoInternal
<1>1. TypeOK BY DEF StateInv, HoldInv, IndexInv
<1>2. CheckRange(a, n) = "ok"
  <2>1. CheckRange(a, n) \in {"NotWatched", "BeforeStart", "NotSynced", "AfterHead", "ok"}
    BY DEF CheckRange
  <2> QED BY <2>1 DEF StorageAt, Miss
<1>3. Covered(watch, head, a, n) /\ Lookup(a, s, n).kind = "Internal" /\ watch[a] \in Nat
  BY <1>1, <1>2, InRange
<1>4. Readable(a, s, n) = {} /\ created[a] = 0 /\ ~ Unresolved(boot[a][s])
  BY <1>3, LookupCases DEF Hit
<1>5. boot[a][s] = Done
  <2>1. SUFFICES ASSUME boot[a][s] # Done PROVE FALSE OBVIOUS
  <2>2. Lookup(a, s, n) = Miss("NeverRecorded") BY <1>4, <2>1 DEF Lookup, Readable
  <2> QED BY <1>3, <2>2 DEF Miss
<1>6. PICK r \in slots : r.addr = a /\ r.slot = s /\ r.prov = "proof"
  BY <1>5 DEF DoneIsProven, PreValueOf
<1>7. r.block = watch[a] - 1 BY <1>6 DEF PreValuesAreTrue, PreValue
<1>8. r.block <= n BY <1>3, <1>7, HeightsFact DEF Covered
<1> QED BY <1>4, <1>6, <1>8 DEF Readable

\* Where no block deploys a watched contract, no read ends in Internal.
THEOREM NoHoleWithoutDeploys ==
  ASSUME \A h \in Hash : Deploys[h] = {}
  PROVE  ProofSpec => []NoInternal
<1>1. Init => DoneIsProven BY DEF Init, DoneIsProven, Done, Unseen
<1>2. (StateInv /\ PreValuesAreTrue) /\ DoneIsProven /\ [Forward \/ Proofs]_archiveVars
        => DoneIsProven'
  BY DoneStep
<1>3. ProofSpec => []DoneIsProven BY PreValuesHold, <1>1, <1>2, PTL DEF ProofSpec
<1> QED BY PreValuesHold, <1>3, DoneFollows, PTL
=============================================================================
